--------------------------- MODULE AccountsProofs ---------------------------
(* Which sessions, which links and which administrators survive, whatever   *)
(* runs at the same time.                                                   *)
EXTENDS Accounts, SequenceTheorems, FiniteSetTheorems, TLAPS

\* The types, in the form that the steps preserve.
Rows ==
  /\ users \in [Users -> User]
  /\ sessions \in Seq(Session) /\ links \in Seq(Link)
  /\ req \in [Requests -> Request]
  /\ dead \subseteq 1..Len(links) /\ overtaken \in BOOLEAN

\* A running request adds a session and a link at most.
Running == {r \in Requests : Busy(r)}
Counts ==
  /\ served \in 0..MaxRequests /\ IsFiniteSet(Running)
  /\ Len(sessions) + Cardinality(Running) <= served
  /\ Len(links) + Cardinality(Running) <= served

\* Sessions and links are of accounts that are there, and nobody signs in
\* without a password.
Known(u)  == users[u].there
Member(u) == users[u].there /\ users[u].hash # 0
RowsHaveUsers ==
  /\ \A s \in 1..Len(sessions) : Member(sessions[s].user)
  /\ \A l \in 1..Len(links) : Known(links[l].user)

\* A session that still authenticates was born at the account's era.
LiveAtEra ==
  \A s \in 1..Len(sessions) :
    sessions[s].row = "live" => sessions[s].born = users[sessions[s].user].era

\* What a request names is there.
WithSession == {"revoke", "change", "verified", "create", "invite", "patch", "reset",
                "invalidating"}
OwnSession  == {"revoke", "change", "verified"}
OfLink      == {"redeem", "claimed", "clearing"}
NamesRows(q) ==
  /\ q.pc = "login" => Member(q.user)
  /\ q.pc \in WithSession => q.sess \in 1..Len(sessions)
  /\ q.pc \in OwnSession => sessions[q.sess].user = q.user
  /\ q.pc \in OfLink => q.link \in 1..Len(links) /\ links[q.link].user = q.user
  /\ q.pc \in {"patch", "reset", "invalidating"} => Known(q.user)

\* As long as the session lives and the hash is the one that was compared,
\* nothing has ended the account's sessions since the comparison.
ComparedAtEra(q) ==
  q.pc = "verified" =>
    /\ q.hash <= users[q.user].hash
    /\ q.hash = users[q.user].hash /\ sessions[q.sess].row = "live" =>
         q.era = users[q.user].era

\* No administrator is about to lock themselves out.
NotItself(q) == q.pc = "patch" => ~SelfLockout(sessions[q.sess].user, q.user, q.patch)

\* Of the account's links that were there when the request looked (for a reset,
\* its reset links when it began), every one that is still unused is about to be
\* deleted or is deleted already; a redeem uses its own.
DoomsAll(q) ==
  /\ q.pc \in {"reset", "invalidating", "clearing"} => q.seen <= Len(links)
  /\ q.pc = "invalidating" =>
       \A l \in 1..q.seen :
         links[l].user = q.user /\ links[l].purpose = "reset" /\ Unused(l) =>
           l \in q.doomed \cup q.held
  /\ q.pc = "clearing" =>
       \A l \in 1..q.seen :
         links[l].user = q.user /\ Unused(l) /\ l # q.link => l \in q.doomed \cup q.held

RequestOK(q) == NamesRows(q) /\ ComparedAtEra(q) /\ NotItself(q) /\ DoomsAll(q)

Inv ==
  /\ Rows /\ Counts /\ RowsHaveUsers /\ LiveAtEra
  /\ \A r \in Requests : RequestOK(req[r])
  /\ DeadLinksStayDead /\ AdminRemains

----------------------------------------------------------------------------
(* What every step does to the rows. *)

\* No session and no link comes back to life or changes hands ...
SessionsAge ==
  /\ Len(sessions) <= Len(sessions')
  /\ \A s \in 1..Len(sessions) :
       /\ sessions'[s].user = sessions[s].user
       /\ sessions'[s].row = "live" => sessions[s].row = "live"
LinksAge ==
  /\ Len(links) <= Len(links')
  /\ \A l \in 1..Len(links) :
       /\ links'[l].user = links[l].user /\ links'[l].purpose = links[l].purpose
       /\ links'[l].row = "live" => links[l].row = "live"
       /\ Unused(l)' => Unused(l)

\* ... and the era of an account moves only with its password or with the end
\* of all its sessions.
UsersAge ==
  \A u \in Users : users[u].there =>
    /\ users'[u].there /\ users[u].hash <= users'[u].hash
    /\ \/ users'[u].era = users[u].era
       \/ users[u].hash < users'[u].hash
       \/ \A s \in 1..Len(sessions) : sessions[s].user = u => sessions'[s].row # "live"

Aging == SessionsAge /\ LinksAge /\ UsersAge

----------------------------------------------------------------------------
(* Lemmas about the operators. *)

\* A function over the indexes of a sequence is a sequence of that length.
LEMMA MappedSeq ==
  ASSUME NEW S, NEW q \in Seq(S), NEW f, f = [i \in DOMAIN q |-> f[i]],
         \A i \in 1..Len(q) : f[i] \in S
  PROVE  f \in Seq(S) /\ Len(f) = Len(q)
<1>1. Len(q) \in Nat /\ DOMAIN q = 1..Len(q)
  BY LenProperties
<1>2. f \in [1..Len(q) -> S]
  BY <1>1
<1>3. f \in Seq(S)
  BY <1>1, <1>2, SeqDef
<1>4. DOMAIN f = 1..Len(f) /\ DOMAIN f = 1..Len(q) /\ Len(f) \in Nat
  BY <1>2, <1>3, LenProperties
<1>5. QED
  BY <1>1, <1>3, <1>4

\* The fields of the rows, and their indexes.
LEMMA RowTypes ==
  ASSUME Rows
  PROVE  /\ Len(sessions) \in Nat /\ DOMAIN sessions = 1..Len(sessions)
         /\ Len(links) \in Nat /\ DOMAIN links = 1..Len(links)
         /\ \A s \in 1..Len(sessions) : sessions[s] \in Session
         /\ \A l \in 1..Len(links) : links[l] \in Link
         /\ \A u \in Users : users[u] \in User
         /\ \A r \in Requests : req[r] \in Request
<1>1. Len(sessions) \in Nat /\ DOMAIN sessions = 1..Len(sessions)
  BY LenProperties DEF Rows
<1>2. Len(links) \in Nat /\ DOMAIN links = 1..Len(links)
  BY LenProperties DEF Rows
<1>3. (\A s \in 1..Len(sessions) : sessions[s] \in Session)
      /\ \A l \in 1..Len(links) : links[l] \in Link
  BY ElementOfSeq DEF Rows
<1>4. QED
  BY <1>1, <1>2, <1>3 DEF Rows

\* The sessions of one account are ended, all but one.
LEMMA RevokedSessions ==
  ASSUME Rows, NEW u \in Users, NEW keep \in Nat
  PROVE  /\ Revoked(u, keep) \in Seq(Session)
         /\ Len(Revoked(u, keep)) = Len(sessions)
         /\ \A s \in 1..Len(sessions) :
              Revoked(u, keep)[s] =
                IF sessions[s].user # u THEN sessions[s]
                ELSE IF s = keep THEN [sessions[s] EXCEPT !.born = users[u].era + 1]
                ELSE [sessions[s] EXCEPT !.row = "gone"]
<1> DEFINE f == Revoked(u, keep)
<1>1. DOMAIN sessions = 1..Len(sessions) /\ users[u].era + 1 \in Nat
  BY RowTypes DEF User
<1>2. \A s \in 1..Len(sessions) :
        f[s] = IF sessions[s].user # u THEN sessions[s]
               ELSE IF s = keep THEN [sessions[s] EXCEPT !.born = users[u].era + 1]
               ELSE [sessions[s] EXCEPT !.row = "gone"]
  BY <1>1 DEF Revoked
<1>3. \A s \in 1..Len(sessions) : f[s] \in Session
  <2>1. SUFFICES ASSUME NEW s \in 1..Len(sessions) PROVE f[s] \in Session
    OBVIOUS
  <2>2. sessions[s] \in Session
    BY RowTypes
  <2> HIDE DEF f
  <2>3. [sessions[s] EXCEPT !.born = users[u].era + 1] \in Session
    BY <1>1, <2>2 DEF Session
  <2>4. [sessions[s] EXCEPT !.row = "gone"] \in Session
    BY <2>2 DEF Session
  <2>5. QED
    BY <1>2, <2>2, <2>3, <2>4
<1>4. f = [s \in DOMAIN sessions |-> f[s]]
  BY DEF Revoked
<1>5. sessions \in Seq(Session)
  BY DEF Rows
<1> HIDE DEF f
<1>6. f \in Seq(Session) /\ Len(f) = Len(sessions)
  BY <1>3, <1>4, <1>5, MappedSeq
<1>7. QED
  BY <1>2, <1>6 DEF f

\* A row at the end of the table.
LEMMA Appended ==
  ASSUME NEW S, NEW q \in Seq(S), NEW e \in S
  PROVE  /\ Append(q, e) \in Seq(S) /\ Len(Append(q, e)) = Len(q) + 1
         /\ \A i \in 1..Len(q) : Append(q, e)[i] = q[i]
         /\ Append(q, e)[Len(q) + 1] = e
  BY AppendProperties, LenProperties

----------------------------------------------------------------------------
(* Requests. *)

\* What a request relies on stays so while it waits, whatever the others do.
LEMMA RequestAges ==
  ASSUME Rows, Rows', RowsHaveUsers, Aging, NEW q \in Request, RequestOK(q)
  PROVE  RequestOK(q)'
<1> USE DEF RequestOK, Aging
<1>1. /\ Len(sessions) \in Nat /\ Len(sessions') \in Nat
      /\ Len(links) \in Nat /\ Len(links') \in Nat
  BY RowTypes, LenProperties DEF Rows
<1>2. q.user \in Users /\ q.hash \in Nat /\ q.era \in Nat /\ q.seen \in Nat
  BY DEF Request
<1>3. /\ users[q.user].hash \in Nat /\ users'[q.user].hash \in Nat
      /\ users[q.user].there \in BOOLEAN
  BY <1>2 DEF Rows, User
<1>4. NamesRows(q)'
  <2>1. q.pc = "login" => Member(q.user)'
    BY <1>2, <1>3 DEF NamesRows, Member, UsersAge
  <2>2. q.pc \in {"patch", "reset", "invalidating"} => Known(q.user)'
    BY <1>2 DEF NamesRows, Known, UsersAge
  <2>3. q.pc \in WithSession => q.sess \in 1..Len(sessions')
    BY <1>1 DEF NamesRows, SessionsAge
  <2>4. q.pc \in OwnSession => sessions'[q.sess].user = q.user
    BY DEF NamesRows, SessionsAge, OwnSession, WithSession
  <2>5. q.pc \in OfLink => q.link \in 1..Len(links') /\ links'[q.link].user = q.user
    BY <1>1 DEF NamesRows, LinksAge
  <2>6. QED
    BY <2>1, <2>2, <2>3, <2>4, <2>5 DEF NamesRows
<1>5. ComparedAtEra(q)'
  <2> SUFFICES ASSUME q.pc = "verified"
               PROVE  /\ q.hash <= users'[q.user].hash
                      /\ q.hash = users'[q.user].hash /\ sessions'[q.sess].row = "live" =>
                           q.era = users'[q.user].era
    BY DEF ComparedAtEra
  <2>1. q.sess \in 1..Len(sessions) /\ sessions[q.sess].user = q.user
    BY DEF NamesRows, WithSession, OwnSession
  <2>2. users[q.user].there
    BY <2>1 DEF RowsHaveUsers, Member
  <2>3. /\ users[q.user].hash <= users'[q.user].hash
        /\ \/ users'[q.user].era = users[q.user].era
           \/ users[q.user].hash < users'[q.user].hash
           \/ sessions'[q.sess].row # "live"
    BY <1>2, <2>1, <2>2 DEF UsersAge
  <2>4. sessions'[q.sess].row = "live" => sessions[q.sess].row = "live"
    BY <2>1 DEF SessionsAge
  <2>5. QED
    BY <1>2, <1>3, <2>3, <2>4 DEF ComparedAtEra
<1>6. NotItself(q)'
  BY DEF NotItself, SelfLockout, NamesRows, WithSession, SessionsAge
<1>7. DoomsAll(q)'
  <2>1. q.pc \in {"reset", "invalidating", "clearing"} => q.seen <= Len(links')
    BY <1>1, <1>2 DEF DoomsAll, LinksAge
  <2>2. ASSUME q.pc \in {"invalidating", "clearing"}, NEW l \in 1..q.seen
        PROVE  /\ links'[l].user = links[l].user /\ links'[l].purpose = links[l].purpose
               /\ Unused(l)' => Unused(l)
    <3>1. l \in 1..Len(links)
      BY <1>1, <1>2, <2>2 DEF DoomsAll
    <3>2. QED
      BY <3>1 DEF LinksAge
  <2>3. QED
    BY <2>1, <2>2 DEF DoomsAll
<1>8. QED
  BY <1>4, <1>5, <1>6, <1>7

\* A request that is answered relies on nothing.
LEMMA IdleOK == Idle \in Request /\ Idle.pc = "idle" /\ RequestOK(Idle) /\ RequestOK(Idle)'
<1>1. Idle \in Request
  BY AccountsAssumption DEF Idle, Request, Steps
<1>2. Idle.pc = "idle"
  BY DEF Idle
<1>3. QED
  BY <1>1, <1>2 DEF RequestOK, NamesRows, ComparedAtEra, NotItself, DoomsAll, WithSession,
                    OwnSession, OfLink

\* One request moves, the others wait.
LEMMA OthersWait ==
  ASSUME Inv, Rows', Aging, NEW r \in Requests, NEW q \in Request,
         req' = [req EXCEPT ![r] = q], RequestOK(q)'
  PROVE  \A p \in Requests : RequestOK(req[p])'
<1> SUFFICES ASSUME NEW p \in Requests PROVE RequestOK(req[p])'
  OBVIOUS
<1>1. \A c \in Request : RequestOK(c) => RequestOK(c)'
  BY RequestAges DEF Inv
<1>2. req[p] \in Request /\ RequestOK(req[p])
  BY DEF Inv, Rows
<1>3. CASE p = r
  <2>1. req'[p] = q
    BY <1>3 DEF Inv, Rows
  <2>2. QED
    BY <2>1 DEF RequestOK, NamesRows, ComparedAtEra, NotItself, DoomsAll
<1>4. CASE p # r
  <2>1. req'[p] = req[p]
    BY <1>4 DEF Inv, Rows
  <2>2. PICK c \in Request : c = req[p]
    BY <1>2
  <2>3. RequestOK(c)
    BY <1>2, <2>2
  <2>4. RequestOK(c)'
    BY <1>1, <2>3
  <2>5. QED
    BY <2>1, <2>2, <2>4 DEF RequestOK, NamesRows, ComparedAtEra, NotItself, DoomsAll
<1>5. QED
  BY <1>3, <1>4

\* A request that begins is counted.
LEMMA BeginCounts ==
  ASSUME Inv, NEW r \in Requests, NEW q \in Request, q.pc # "idle", Begin(r, q),
         UNCHANGED <<sessions, links>>
  PROVE  Counts'
<1>1. Running' = Running \cup {r} /\ r \notin Running
  BY DEF Inv, Rows, Running, Begin, Busy
<1>2. IsFiniteSet(Running') /\ Cardinality(Running') = Cardinality(Running) + 1
  BY <1>1, FS_AddElement DEF Inv, Counts
<1>3. Cardinality(Running) \in Nat /\ Len(sessions) \in Nat /\ Len(links) \in Nat
  BY FS_CardinalityType, RowTypes DEF Inv, Counts
<1>4. served' = served + 1 /\ served < MaxRequests /\ served \in 0..MaxRequests
  BY DEF Inv, Counts, Begin
<1>5. QED
  BY <1>2, <1>3, <1>4, AccountsAssumption DEF Inv, Counts

\* One that goes on is still counted.
LEMMA GotoCounts ==
  ASSUME Inv, NEW r \in Requests, Busy(r), NEW q \in Request, q.pc # "idle", Goto(r, q),
         UNCHANGED <<sessions, links>>
  PROVE  Counts'
<1>1. Running' = Running
  BY DEF Inv, Rows, Running, Goto, Busy
<1>2. QED
  BY <1>1 DEF Inv, Counts, Goto

\* One that is answered has added at most one session and one link.
LEMMA AnswerCounts ==
  ASSUME Inv, NEW r \in Requests, Busy(r), Answer(r),
         Len(sessions') \in Nat, Len(sessions') <= Len(sessions) + 1,
         Len(links') \in Nat, Len(links') <= Len(links) + 1
  PROVE  Counts'
<1>1. Running' = Running \ {r} /\ r \in Running
  BY DEF Inv, Rows, Running, Answer, Busy, Idle
<1>2. IsFiniteSet(Running') /\ Cardinality(Running') = Cardinality(Running) - 1
  BY <1>1, FS_RemoveElement DEF Inv, Counts
<1>3. Cardinality(Running) \in Nat /\ Len(sessions) \in Nat /\ Len(links) \in Nat
  BY FS_CardinalityType, RowTypes DEF Inv, Counts
<1>4. served' = served /\ served \in 0..MaxRequests
  BY DEF Inv, Counts, Answer
<1>5. QED
  BY <1>2, <1>3, <1>4, AccountsAssumption DEF Inv, Counts

\* A step of one request that touches no row.
LEMMA RowsUntouched ==
  ASSUME Inv, NEW r \in Requests, NEW q \in Request, req' = [req EXCEPT ![r] = q],
         RequestOK(q), UNCHANGED <<users, sessions, links, dead, overtaken>>, Counts'
  PROVE  Inv'
<1>1. Rows'
  BY DEF Inv, Rows
<1>2. Aging
  <2>1. Len(sessions) \in Nat /\ Len(links) \in Nat /\ \A u \in Users : users[u].hash \in Nat
    BY RowTypes DEF Inv, User
  <2>2. QED
    BY <2>1 DEF Aging, SessionsAge, LinksAge, UsersAge, Unused
<1>3. RequestOK(q)'
  BY DEF RequestOK, NamesRows, ComparedAtEra, NotItself, DoomsAll, Known, Member, Unused
<1>4. \A p \in Requests : RequestOK(req[p])'
  BY <1>1, <1>2, <1>3, OthersWait
<1>5. RowsHaveUsers' /\ LiveAtEra'
  BY DEF Inv, RowsHaveUsers, LiveAtEra, Known, Member
<1>6. DeadLinksStayDead' /\ AdminRemains'
  BY DEF Inv, DeadLinksStayDead, AdminRemains, EnabledAdmin
<1>7. QED
  BY <1>1, <1>4, <1>5, <1>6 DEF Inv

\* A request begins.
LEMMA BeginInv ==
  ASSUME Inv, NEW r \in Requests, NEW q \in Request, q.pc # "idle", RequestOK(q), Begin(r, q),
         UNCHANGED <<users, sessions, links, dead, overtaken>>
  PROVE  Inv'
<1>1. Counts'
  BY BeginCounts
<1>2. QED
  BY <1>1, RowsUntouched DEF Begin

\* What a request is checked for as it arrives is what it relies on later.
LEMMA ArriveInv ==
  ASSUME Inv, NEW r \in Requests, Arrive(r)
  PROVE  Inv'
<1> USE DEF WithSession, OwnSession, OfLink
<1>1. ASSUME NEW u \in Users, LoginBegin(r, u) PROVE Inv'
  <2> DEFINE q == [Idle EXCEPT !.pc = "login", !.user = u]
  <2>1. q \in Request /\ q.pc = "login" /\ q.user = u
    BY AccountsAssumption DEF Idle, Request, Steps
  <2>2. Member(u)
    BY <1>1 DEF LoginBegin, CanVerify, VerifyPassword, Member
  <2>3. RequestOK(q)
    BY <2>1, <2>2 DEF RequestOK, NamesRows, ComparedAtEra, NotItself, DoomsAll
  <2>4. QED
    BY <1>1, <2>1, <2>3, BeginInv DEF LoginBegin
<1>2. ASSUME NEW l \in DOMAIN links, RedeemBegin(r, l) PROVE Inv'
  <2> DEFINE q == [Idle EXCEPT !.pc = "redeem", !.link = l, !.user = links[l].user]
  <2>1. l \in 1..Len(links) /\ l \in Nat /\ links[l].user \in Users
    BY RowTypes DEF Inv, Link
  <2>2. q \in Request /\ q.pc = "redeem" /\ q.user = links[l].user /\ q.link = l
    BY <2>1, AccountsAssumption DEF Idle, Request, Steps
  <2>3. RequestOK(q)
    BY <2>1, <2>2 DEF RequestOK, NamesRows, ComparedAtEra, NotItself, DoomsAll
  <2>4. QED
    BY <1>2, <2>2, <2>3, BeginInv DEF RedeemBegin
<1>3. ASSUME NEW s \in DOMAIN sessions, RevokeAllBegin(r, s) \/ ChangeBegin(r, s) PROVE Inv'
  <2>1. s \in 1..Len(sessions) /\ s \in Nat /\ sessions[s].user \in Users
    BY RowTypes DEF Inv, Session
  <2>2. PICK p \in {"revoke", "change"} :
          /\ Begin(r, [Idle EXCEPT !.pc = p, !.user = sessions[s].user, !.sess = s])
          /\ UNCHANGED <<users, sessions, links, dead, overtaken>>
    BY <1>3 DEF RevokeAllBegin, ChangeBegin
  <2> DEFINE q == [Idle EXCEPT !.pc = p, !.user = sessions[s].user, !.sess = s]
  <2>3. q \in Request /\ q.pc = p /\ q.user = sessions[s].user /\ q.sess = s
    BY <2>1, AccountsAssumption DEF Idle, Request, Steps
  <2>4. RequestOK(q)
    BY <2>1, <2>3 DEF RequestOK, NamesRows, ComparedAtEra, NotItself, DoomsAll
  <2>5. QED
    BY <2>2, <2>3, <2>4, BeginInv
<1>4. ASSUME NEW s \in DOMAIN sessions, NEW u \in Users, NEW role \in {{}, {"promote"}},
             CreateUserBegin(r, s, u, role) \/ InviteBegin(r, s, u, role)
      PROVE  Inv'
  <2>1. s \in 1..Len(sessions) /\ s \in Nat
    BY RowTypes DEF Inv
  <2>2. PICK p \in {"create", "invite"} :
          /\ Begin(r, [Idle EXCEPT !.pc = p, !.user = u, !.sess = s, !.patch = role])
          /\ UNCHANGED <<users, sessions, links, dead, overtaken>>
    BY <1>4 DEF CreateUserBegin, InviteBegin
  <2> DEFINE q == [Idle EXCEPT !.pc = p, !.user = u, !.sess = s, !.patch = role]
  <2>3. q \in Request /\ q.pc = p /\ q.sess = s
    BY <2>1, AccountsAssumption DEF Idle, Request, Steps, Change
  <2>4. RequestOK(q)
    BY <2>1, <2>3 DEF RequestOK, NamesRows, ComparedAtEra, NotItself, DoomsAll
  <2>5. QED
    BY <2>2, <2>3, <2>4, BeginInv
<1>5. ASSUME NEW s \in DOMAIN sessions, NEW u \in Users, NEW p \in Patches, PatchBegin(r, s, u, p)
      PROVE  Inv'
  <2> DEFINE q == [Idle EXCEPT !.pc = "patch", !.user = u, !.sess = s, !.patch = p]
  <2>1. s \in 1..Len(sessions) /\ s \in Nat
    BY RowTypes DEF Inv
  <2>2. q \in Request /\ q.pc = "patch" /\ q.user = u /\ q.sess = s /\ q.patch = p
    BY <2>1, AccountsAssumption DEF Idle, Request, Steps
  <2>3. Known(u) /\ ~SelfLockout(sessions[s].user, u, p)
    BY <1>5 DEF PatchBegin, Known
  <2>4. RequestOK(q)
    BY <2>1, <2>2, <2>3 DEF RequestOK, NamesRows, ComparedAtEra, NotItself, DoomsAll
  <2>5. QED
    BY <1>5, <2>2, <2>4, BeginInv DEF PatchBegin
<1>6. ASSUME NEW s \in DOMAIN sessions, NEW u \in Users, ResetBegin(r, s, u) PROVE Inv'
  <2> DEFINE q == [Idle EXCEPT !.pc = "reset", !.user = u, !.sess = s, !.seen = Len(links)]
  <2>1. s \in 1..Len(sessions) /\ s \in Nat /\ Len(links) \in Nat
    BY RowTypes DEF Inv
  <2>2. q \in Request /\ q.pc = "reset" /\ q.user = u /\ q.sess = s /\ q.seen = Len(links)
    BY <2>1, AccountsAssumption DEF Idle, Request, Steps
  <2>3. Known(u)
    BY <1>6 DEF ResetBegin, Known
  <2>4. RequestOK(q)
    BY <2>1, <2>2, <2>3 DEF RequestOK, NamesRows, ComparedAtEra, NotItself, DoomsAll
  <2>5. QED
    BY <1>6, <2>2, <2>4, BeginInv DEF ResetBegin
<1>7. QED
  BY <1>1, <1>2, <1>3, <1>4, <1>5, <1>6 DEF Arrive

----------------------------------------------------------------------------
(* The steps of a request that write no row. *)

\* The current password is compared: the request knows the hash and the era.
LEMMA ChangeVerifyInv ==
  ASSUME Inv, NEW r \in Requests, ChangeVerify(r)
  PROVE  Inv'
<1> DEFINE u == req[r].user
           q == [req[r] EXCEPT !.pc = "verified", !.hash = users[u].hash, !.era = users[u].era]
<1>1. req[r] \in Request /\ u \in Users /\ Busy(r) /\ RequestOK(req[r])
  BY RowTypes DEF Inv, ChangeVerify, Busy, Request
<1>2. users[u].hash \in Nat /\ users[u].era \in Nat
  BY <1>1, RowTypes DEF Inv, User
<1>3. CASE Goto(r, q)
  <2>1. /\ q \in Request /\ q.pc = "verified" /\ q.sess = req[r].sess /\ q.user = u
        /\ q.hash = users[u].hash /\ q.era = users[u].era
    BY <1>1, <1>2 DEF Request, Steps
  <2>2. RequestOK(q)
    BY <1>1, <1>2, <2>1
       DEF ChangeVerify, RequestOK, NamesRows, ComparedAtEra, NotItself, DoomsAll, WithSession,
           OwnSession, OfLink
  <2>3. Counts'
    BY <1>1, <1>3, <2>1, GotoCounts DEF ChangeVerify
  <2>4. QED
    BY <1>3, <2>1, <2>2, <2>3, RowsUntouched DEF ChangeVerify, Goto
<1>4. CASE Answer(r)
  <2>1. Counts'
    BY <1>1, <1>4, AnswerCounts, RowTypes DEF Inv, ChangeVerify
  <2>2. QED
    BY <1>4, <2>1, IdleOK, RowsUntouched DEF ChangeVerify, Answer
<1>5. QED
  BY <1>3, <1>4 DEF ChangeVerify

\* A reset sees the links that it will delete: all that are unused, so also all
\* of those that were there when it began.
LEMMA InvalidateInv ==
  ASSUME Inv, NEW r \in Requests, Invalidate(r)
  PROVE  Inv'
<1> DEFINE u == req[r].user
           q == [req[r] EXCEPT !.pc = "invalidating", !.doomed = DoomedBy(u)]
<1>1. req[r] \in Request /\ Busy(r) /\ RequestOK(req[r]) /\ req[r].pc = "reset"
  BY RowTypes DEF Inv, Invalidate, Busy
<1>2. DOMAIN links = 1..Len(links) /\ Len(links) \in Nat /\ req[r].seen \in Nat
  BY <1>1, RowTypes DEF Inv, Request
<1>3. DoomedBy(u) \in SUBSET Nat
  BY <1>2 DEF DoomedBy
<1>4. /\ q \in Request /\ q.pc = "invalidating" /\ q.sess = req[r].sess /\ q.user = u
      /\ q.seen = req[r].seen /\ q.doomed = DoomedBy(u)
  BY <1>1, <1>3 DEF Request, Steps
<1>5. DoomsAll(q)
  BY <1>1, <1>2, <1>4 DEF RequestOK, DoomsAll, DoomedBy
<1>6. RequestOK(q)
  BY <1>1, <1>4, <1>5 DEF RequestOK, NamesRows, ComparedAtEra, NotItself, WithSession,
                          OwnSession, OfLink
<1>7. Counts'
  BY <1>1, <1>4, GotoCounts DEF Invalidate
<1>8. QED
  BY <1>4, <1>6, <1>7, RowsUntouched DEF Invalidate, Goto

\* A redeem locks its link, or finds it dead.
LEMMA ClaimLinkInv ==
  ASSUME Inv, NEW r \in Requests, ClaimLink(r)
  PROVE  Inv'
<1> DEFINE q == [req[r] EXCEPT !.pc = "claimed"]
<1>1. req[r] \in Request /\ Busy(r) /\ RequestOK(req[r]) /\ req[r].pc = "redeem"
  BY RowTypes DEF Inv, ClaimLink, Busy
<1>2. CASE Goto(r, q)
  <2>1. q \in Request /\ q.pc = "claimed" /\ q.user = req[r].user /\ q.link = req[r].link
    BY <1>1 DEF Request, Steps
  <2>2. RequestOK(q)
    BY <1>1, <2>1 DEF RequestOK, NamesRows, ComparedAtEra, NotItself, DoomsAll, WithSession,
                      OwnSession, OfLink
  <2>3. Counts'
    BY <1>1, <1>2, <2>1, GotoCounts DEF ClaimLink
  <2>4. QED
    BY <1>2, <2>1, <2>2, <2>3, RowsUntouched DEF ClaimLink, Goto
<1>3. CASE Answer(r)
  <2>1. Counts'
    BY <1>1, <1>3, AnswerCounts, RowTypes DEF Inv, ClaimLink
  <2>2. QED
    BY <1>3, <2>1, IdleOK, RowsUntouched DEF ClaimLink, Answer
<1>4. QED
  BY <1>2, <1>3 DEF ClaimLink

\* A redeem sees the links that it will delete: all the others.
LEMMA SetPasswordInv ==
  ASSUME Inv, NEW r \in Requests, SetPassword(r)
  PROVE  Inv'
<1> DEFINE u == req[r].user
           d == Outstanding(u, req[r].link)
           q == [req[r] EXCEPT !.pc = "clearing", !.seen = Len(links), !.doomed = d]
<1>1. req[r] \in Request /\ Busy(r) /\ RequestOK(req[r]) /\ req[r].pc = "claimed"
  BY RowTypes DEF Inv, SetPassword, Busy
<1>2. DOMAIN links = 1..Len(links) /\ Len(links) \in Nat
  BY <1>1, RowTypes DEF Inv
<1>3. d \in SUBSET Nat
  BY <1>2 DEF Outstanding
<1>4. /\ q \in Request /\ q.pc = "clearing" /\ q.user = u /\ q.link = req[r].link
      /\ q.seen = Len(links) /\ q.doomed = d
  BY <1>1, <1>2, <1>3 DEF Request, Steps
<1>5. DoomsAll(q)
  BY <1>2, <1>4 DEF DoomsAll, Outstanding
<1>6. RequestOK(q)
  BY <1>1, <1>4, <1>5 DEF RequestOK, NamesRows, ComparedAtEra, NotItself, WithSession,
                          OwnSession, OfLink
<1>7. Counts'
  BY <1>1, <1>4, GotoCounts DEF SetPassword
<1>8. QED
  BY <1>4, <1>6, <1>7, RowsUntouched DEF SetPassword, Goto

\* A DELETE goes on to its next row: one that it visits and does not delete is
\* used or gone.
LEMMA DeleteLinkInv ==
  ASSUME Inv, NEW r \in Requests, DeleteLink(r)
  PROVE  Inv'
<1>1. PICK l \in req[r].doomed :
        /\ Deleting(r)
        /\ Goto(r, [req[r] EXCEPT !.doomed = @ \ {l},
                                  !.held = IF Unused(l) THEN @ \cup {l} ELSE @])
  BY DEF DeleteLink, IsNext
<1>2. /\ req[r] \in Request /\ Busy(r) /\ RequestOK(req[r])
      /\ req[r].pc \in {"invalidating", "clearing"}
  BY <1>1, RowTypes DEF Inv, Deleting, Busy
<1>3. req[r].doomed \in SUBSET Nat /\ req[r].held \in SUBSET Nat /\ l \in Nat
  BY <1>1, <1>2 DEF Request
<1>4. PICK h : h = IF Unused(l) THEN req[r].held \cup {l} ELSE req[r].held
  OBVIOUS
<1>5. h \in SUBSET Nat /\ req[r].held \subseteq h /\ (Unused(l) => l \in h)
  BY <1>3, <1>4
<1> DEFINE q == [req[r] EXCEPT !.doomed = @ \ {l}, !.held = h]
<1>6. Goto(r, q)
  BY <1>1, <1>4
<1>7. /\ q \in Request /\ q.pc = req[r].pc /\ q.user = req[r].user /\ q.link = req[r].link
      /\ q.sess = req[r].sess /\ q.seen = req[r].seen
      /\ q.doomed = req[r].doomed \ {l} /\ q.held = h
  BY <1>2, <1>3, <1>5 DEF Request
<1> HIDE DEF q
<1>8. DoomsAll(q)
  BY <1>2, <1>5, <1>7 DEF RequestOK, DoomsAll
<1>9. RequestOK(q)
  BY <1>2, <1>7, <1>8 DEF RequestOK, NamesRows, ComparedAtEra, NotItself, WithSession,
                          OwnSession, OfLink
<1>10. Counts'
  BY <1>2, <1>6, <1>7, GotoCounts DEF DeleteLink
<1>11. QED
  BY <1>6, <1>7, <1>9, <1>10, RowsUntouched DEF DeleteLink, Goto

\* The database ends a deadlock.
LEMMA AbortInv ==
  ASSUME Inv, NEW r \in Requests, Abort(r)
  PROVE  Inv'
<1>1. Busy(r)
  BY DEF Abort, Deadlocked, Waits, IsNext, Deleting, Busy
<1>2. Counts'
  BY <1>1, AnswerCounts, RowTypes DEF Inv, Abort
<1>3. QED
  BY <1>2, IdleOK, RowsUntouched DEF Abort, Answer

----------------------------------------------------------------------------
(* The steps that write. *)

\* The types of what a step may write, number by number.
LEMMA FieldTypes ==
  ASSUME Rows
  PROVE  /\ \A u \in Users : users[u].hash \in Nat /\ users[u].era \in Nat
         /\ \A s \in 1..Len(sessions) : sessions[s].user \in Users
         /\ \A l \in 1..Len(links) : links[l].user \in Users
         /\ \A r \in Requests : req[r].user \in Users /\ req[r].sess \in Nat
                                /\ req[r].seen \in Nat
  BY RowTypes DEF User, Session, Link, Request

\* Who owned a row still does, and is still there.
LEMMA OwnersStay ==
  ASSUME Inv, Rows', Aging
  PROVE  /\ \A u \in Users : (Known(u) => Known(u)') /\ (Member(u) => Member(u)')
         /\ \A s \in 1..Len(sessions) : Member(sessions[s].user)'
         /\ \A l \in 1..Len(links) : Known(links[l].user)'
<1>1. \A u \in Users : users[u].hash \in Nat /\ users'[u].hash \in Nat
  BY DEF Inv, Rows, User
<1>2. \A u \in Users : (Known(u) => Known(u)') /\ (Member(u) => Member(u)')
  BY <1>1 DEF Aging, UsersAge, Known, Member
<1>3. \A s \in 1..Len(sessions) :
        sessions[s].user \in Users /\ Member(sessions[s].user)
          /\ sessions'[s].user = sessions[s].user
  BY FieldTypes DEF Inv, RowsHaveUsers, Aging, SessionsAge
<1>4. \A l \in 1..Len(links) :
        links[l].user \in Users /\ Known(links[l].user) /\ links'[l].user = links[l].user
  BY FieldTypes DEF Inv, RowsHaveUsers, Aging, LinksAge
<1>5. QED
  BY <1>2, <1>3, <1>4 DEF Known, Member

\* A link that was dead is dead.
LEMMA DeadStay ==
  ASSUME Inv, LinksAge
  PROVE  \A l \in dead : links'[l].row # "live"
  BY DEF Inv, Rows, DeadLinksStayDead, LinksAge

\* An administrator remains if each one does.
LEMMA AdminsStay ==
  ASSUME Inv, overtaken => overtaken', NEW v \in Users, users[v].there,
         \A u \in Users : EnabledAdmin(u) => EnabledAdmin(u)'
  PROVE  AdminRemains'
  BY DEF Inv, AdminRemains

\* One account is written.
LEMMA UserWritten ==
  ASSUME Rows, NEW u \in Users, NEW w \in User, users' = [users EXCEPT ![u] = w]
  PROVE  /\ users' \in [Users -> User] /\ users'[u] = w
         /\ \A v \in Users : v # u => users'[v] = users[v]
  BY DEF Rows

\* The others age if this one does ...
LEMMA OneUserAges ==
  ASSUME Rows, NEW u \in Users, \A v \in Users : v # u => users'[v] = users[v],
         users[u].there =>
           /\ users'[u].there /\ users[u].hash <= users'[u].hash
           /\ \/ users'[u].era = users[u].era
              \/ users[u].hash < users'[u].hash
              \/ \A s \in 1..Len(sessions) : sessions[s].user = u => sessions'[s].row # "live"
  PROVE  UsersAge
<1> SUFFICES ASSUME NEW v \in Users, users[v].there
             PROVE  /\ users'[v].there /\ users[v].hash <= users'[v].hash
                    /\ \/ users'[v].era = users[v].era
                       \/ users[v].hash < users'[v].hash
                       \/ \A s \in 1..Len(sessions) :
                            sessions[s].user = v => sessions'[s].row # "live"
  BY DEF UsersAge
<1>1. CASE v = u
  BY <1>1
<1>2. CASE v # u
  BY <1>2, FieldTypes
<1>3. QED
  BY <1>1, <1>2

\* ... and an administrator remains if this one does, or another is known.
LEMMA OneUserAdmins ==
  ASSUME Inv, overtaken' = overtaken, NEW u \in Users, users[u].there,
         \A v \in Users : v # u => users'[v] = users[v],
         EnabledAdmin(u) => EnabledAdmin(u)'
  PROVE  AdminRemains'
<1>1. \A v \in Users : EnabledAdmin(v) => EnabledAdmin(v)'
  <2> TAKE v \in Users
  <2>1. CASE v = u
    BY <2>1
  <2>2. CASE v # u
    BY <2>2 DEF EnabledAdmin
  <2>3. QED
    BY <2>1, <2>2
<1>2. QED
  BY <1>1, AdminsStay

\* The next era of an account, and the next hash with it.
LEMMA NextEra ==
  ASSUME NEW w \in User, NEW x, x = [w EXCEPT !.era = @ + 1]
  PROVE  /\ x \in User /\ x.hash = w.hash /\ x.era = w.era + 1
         /\ x.there = w.there /\ x.admin = w.admin /\ x.disabled = w.disabled
<1>1. w.era + 1 \in Nat
  BY DEF User
<1>2. QED
  BY <1>1 DEF User

\* With a new password the hash moves too.
LEMMA NextHash ==
  ASSUME NEW w \in User, NEW x, x = [w EXCEPT !.hash = @ + 1, !.era = @ + 1]
  PROVE  /\ x \in User /\ x.hash = w.hash + 1 /\ x.era = w.era + 1
         /\ x.there = w.there /\ x.admin = w.admin /\ x.disabled = w.disabled
<1>1. w.era + 1 \in Nat /\ w.hash + 1 \in Nat
  BY DEF User
<1>2. QED
  BY <1>1 DEF User

\* A request has written and is answered.
LEMMA AnswerInv ==
  ASSUME Inv, NEW r \in Requests, Busy(r), Answer(r), Rows', Aging,
         Len(sessions') <= Len(sessions) + 1, Len(links') <= Len(links) + 1,
         RowsHaveUsers', LiveAtEra', DeadLinksStayDead', AdminRemains'
  PROVE  Inv'
<1>1. Len(sessions') \in Nat /\ Len(links') \in Nat
  BY LenProperties DEF Rows
<1>2. Counts'
  BY <1>1, AnswerCounts
<1>3. \A p \in Requests : RequestOK(req[p])'
  BY IdleOK, OthersWait DEF Answer
<1>4. QED
  BY <1>2, <1>3 DEF Inv

\* A login inserts its session.
LEMMA CreateSessionInv ==
  ASSUME Inv, NEW r \in Requests, CreateSession(r)
  PROVE  Inv'
<1> DEFINE u == req[r].user
           n == Len(sessions) + 1
<1>1. Rows /\ u \in Users /\ Member(u) /\ Len(sessions) \in Nat /\ Len(links) \in Nat
  BY RowTypes, FieldTypes DEF Inv, CreateSession, RequestOK, NamesRows
<1>2. NewSession(u, users[u].era) \in Session
  BY <1>1, FieldTypes DEF NewSession, Session
<1>3. /\ sessions' \in Seq(Session) /\ Len(sessions') = n
      /\ \A s \in 1..Len(sessions) : sessions'[s] = sessions[s]
      /\ sessions'[n] = NewSession(u, users[u].era)
  BY <1>1, <1>2, Appended DEF Rows, CreateSession
<1>4. Rows'
  BY <1>1, <1>3, IdleOK DEF CreateSession, Rows, Answer
<1>5. Aging
  BY <1>1, <1>3, FieldTypes DEF CreateSession, Aging, SessionsAge, LinksAge, UsersAge, Unused
<1>6. RowsHaveUsers'
  <2>1. users'[sessions'[n].user].there /\ users'[sessions'[n].user].hash # 0
    BY <1>1, <1>3 DEF CreateSession, NewSession, Member
  <2>2. \A s \in 1..Len(sessions') : s \in 1..Len(sessions) \/ s = n
    BY <1>1, <1>3
  <2>3. \A s \in 1..Len(sessions') : Member(sessions[s].user)'
    BY <1>4, <1>5, <2>1, <2>2, OwnersStay DEF Member
  <2>4. QED
    BY <1>4, <1>5, <2>3, OwnersStay DEF CreateSession, RowsHaveUsers
<1>7. LiveAtEra'
  BY <1>1, <1>3 DEF Inv, CreateSession, LiveAtEra, NewSession
<1>8. DeadLinksStayDead' /\ AdminRemains'
  BY DEF Inv, CreateSession, DeadLinksStayDead, AdminRemains, EnabledAdmin
<1>9. QED
  BY <1>1, <1>3, <1>4, <1>5, <1>6, <1>7, <1>8, AnswerInv DEF CreateSession, Busy

\* Of the sessions of the account only the kept one still authenticates, and
\* it is born again at the next era.
LEMMA RevokedAges ==
  ASSUME Rows, NEW u \in Users, NEW keep \in Nat, NEW s \in 1..Len(sessions)
  PROVE  /\ Revoked(u, keep)[s].user = sessions[s].user
         /\ Revoked(u, keep)[s].row = "live" => sessions[s].row = "live"
         /\ sessions[s].user # u => Revoked(u, keep)[s] = sessions[s]
         /\ sessions[s].user = u /\ Revoked(u, keep)[s].row = "live" =>
              s = keep /\ Revoked(u, keep)[s].born = users[u].era + 1
<1>1. sessions[s] \in Session
  BY RowTypes
<1>2. Revoked(u, keep)[s] =
        IF sessions[s].user # u THEN sessions[s]
        ELSE IF s = keep THEN [sessions[s] EXCEPT !.born = users[u].era + 1]
        ELSE [sessions[s] EXCEPT !.row = "gone"]
  BY RevokedSessions
<1>3. QED
  BY <1>1, <1>2 DEF Session

\* The next era of an account: its other fields change as they like.
LEMMA RevocationLiveAtEra ==
  ASSUME Rows, LiveAtEra, NEW u \in Users, NEW keep \in Nat,
         sessions' = Revoked(u, keep), users'[u].era = users[u].era + 1,
         \A v \in Users : v # u => users'[v] = users[v]
  PROVE  LiveAtEra'
<1> SUFFICES ASSUME NEW s \in 1..Len(sessions'), sessions'[s].row = "live"
             PROVE  sessions'[s].born = users'[sessions'[s].user].era
  BY DEF LiveAtEra
<1>1. s \in 1..Len(sessions) /\ sessions[s].user \in Users
  BY RevokedSessions, FieldTypes
<1>2. CASE sessions[s].user = u
  BY <1>1, <1>2, RevokedAges
<1>3. CASE sessions[s].user # u
  BY <1>1, <1>3, RevokedAges DEF LiveAtEra
<1>4. QED
  BY <1>2, <1>3

\* All sessions of the account end.
LEMMA DeleteUserSessionsInv ==
  ASSUME Inv, NEW r \in Requests, DeleteUserSessions(r)
  PROVE  Inv'
<1> DEFINE u == req[r].user
<1>1. Rows /\ LiveAtEra /\ u \in Users /\ Len(sessions) \in Nat /\ Len(links) \in Nat
  BY RowTypes, FieldTypes DEF Inv
<1>2. sessions' \in Seq(Session) /\ Len(sessions') = Len(sessions) /\ sessions' = Revoked(u, 0)
  BY <1>1, RevokedSessions DEF DeleteUserSessions
<1>3. users[u] \in User /\ users[u].hash \in Nat /\ users[u].there
  BY <1>1, RowTypes, FieldTypes
     DEF Inv, DeleteUserSessions, RequestOK, NamesRows, WithSession, OwnSession, RowsHaveUsers,
         Member
<1> DEFINE w == [users[u] EXCEPT !.era = @ + 1]
<1>4. w = [users[u] EXCEPT !.era = @ + 1]
  OBVIOUS
<1>5. users' = [users EXCEPT ![u] = w]
  BY DEF DeleteUserSessions
<1> HIDE DEF w
<1>6. /\ w \in User /\ w.era = users[u].era + 1 /\ w.hash = users[u].hash
      /\ w.there = users[u].there /\ w.admin = users[u].admin
      /\ w.disabled = users[u].disabled
  BY ZenonT(60), <1>3, <1>4, NextEra
<1>7. /\ users' \in [Users -> User] /\ users'[u] = w
      /\ \A v \in Users : v # u => users'[v] = users[v]
  BY <1>1, <1>6, <1>5, UserWritten
<1>8. Rows'
  BY <1>1, <1>2, <1>7, IdleOK DEF DeleteUserSessions, Rows, Answer
<1>9. Aging
  <2>1. SessionsAge
    BY <1>1, <1>2, RevokedAges DEF SessionsAge
  <2>2. LinksAge
    BY <1>1 DEF DeleteUserSessions, LinksAge, Unused
  <2>3. \A s \in 1..Len(sessions) : sessions[s].user = u => sessions'[s].row # "live"
    BY <1>1, <1>2, RevokedAges
  <2>4. users'[u].there
    BY <1>3, <1>6, <1>7
  <2>5. users[u].hash <= users'[u].hash
    BY <1>3, <1>6, <1>7
  <2>6. UsersAge
    BY <1>1, <1>7, <2>3, <2>4, <2>5, OneUserAges
  <2>7. QED
    BY <2>1, <2>2, <2>6 DEF Aging
<1>10. RowsHaveUsers'
  BY <1>2, <1>8, <1>9, OwnersStay DEF DeleteUserSessions, RowsHaveUsers
<1>11. LiveAtEra'
  BY <1>1, <1>2, <1>6, <1>7, RevocationLiveAtEra
<1>12. DeadLinksStayDead'
  BY DEF Inv, DeadLinksStayDead, DeleteUserSessions
<1>13. AdminRemains'
  <2>1. EnabledAdmin(req[r].user) => users'[u].there /\ users'[u].admin
                                      /\ ~users'[u].disabled /\ users'[u].hash # 0
    BY <1>6, <1>7 DEF EnabledAdmin
  <2>2. QED
    BY <1>1, <1>3, <1>7, <2>1, OneUserAdmins DEF EnabledAdmin, DeleteUserSessions
<1>14. QED
  BY <1>1, <1>2, <1>8, <1>9, <1>10, <1>11, <1>12, <1>13, AnswerInv
     DEF DeleteUserSessions, Busy

\* The password changes and the other sessions end, or nothing does.
LEMMA ChangePasswordInv ==
  ASSUME Inv, NEW r \in Requests, ChangePassword(r)
  PROVE  Inv'
<1> DEFINE u == req[r].user
           keep == req[r].sess
<1>1. /\ Rows /\ LiveAtEra /\ u \in Users /\ keep \in Nat
      /\ Len(sessions) \in Nat /\ Len(links) \in Nat
  BY RowTypes, FieldTypes DEF Inv
<1>2. CASE UNCHANGED <<users, sessions>>
  <2>1. Counts'
    BY <1>1, <1>2, AnswerCounts DEF ChangePassword, Busy
  <2>2. QED
    BY <1>2, <2>1, IdleOK, RowsUntouched DEF ChangePassword, Answer
<1>3. CASE /\ users' = [users EXCEPT ![u].hash = @ + 1, ![u].era = @ + 1]
           /\ sessions' = Revoked(u, keep)
  <2>1. sessions' \in Seq(Session) /\ Len(sessions') = Len(sessions)
    BY <1>1, <1>3, RevokedSessions
  <2>2. users[u] \in User /\ users[u].hash \in Nat /\ users[u].there
    BY <1>1, RowTypes, FieldTypes
       DEF Inv, ChangePassword, RequestOK, NamesRows, WithSession, OwnSession, RowsHaveUsers,
           Member
  <2> DEFINE w == [users[u] EXCEPT !.hash = @ + 1, !.era = @ + 1]
  <2>3. w = [users[u] EXCEPT !.hash = @ + 1, !.era = @ + 1]
    OBVIOUS
  <2>4. users' = [users EXCEPT ![u] = w]
    BY <1>3
  <2> HIDE DEF w
  <2>5. /\ w \in User /\ w.era = users[u].era + 1 /\ w.hash = users[u].hash + 1
        /\ w.there = users[u].there /\ w.admin = users[u].admin
        /\ w.disabled = users[u].disabled
    BY ZenonT(60), <2>2, <2>3, NextHash
  <2>6. /\ users' \in [Users -> User] /\ users'[u] = w
        /\ \A v \in Users : v # u => users'[v] = users[v]
    BY <1>1, <2>5, <2>4, UserWritten
  <2>7. Rows'
    BY <1>1, <2>1, <2>6, IdleOK DEF ChangePassword, Rows, Answer
  <2>8. Aging
    <3>1. SessionsAge
      BY <1>1, <1>3, <2>1, RevokedAges DEF SessionsAge
    <3>2. LinksAge
      BY <1>1 DEF ChangePassword, LinksAge, Unused
    <3>3. users'[u].there
      BY <2>2, <2>5, <2>6
    <3>4. users[u].hash <= users'[u].hash /\ users[u].hash < users'[u].hash
      BY <2>2, <2>5, <2>6
    <3>5. UsersAge
      BY <1>1, <2>6, <3>3, <3>4, OneUserAges
    <3>6. QED
      BY <3>1, <3>2, <3>5 DEF Aging
  <2>9. RowsHaveUsers'
    BY <2>1, <2>7, <2>8, OwnersStay DEF ChangePassword, RowsHaveUsers
  <2>10. LiveAtEra'
    BY <1>1, <1>3, <2>5, <2>6, RevocationLiveAtEra
  <2>11. DeadLinksStayDead'
    BY DEF Inv, DeadLinksStayDead, ChangePassword
  <2>12. AdminRemains'
    <3>1. users'[u].hash # 0
      BY <2>2, <2>5, <2>6
    <3>2. EnabledAdmin(req[r].user) => users'[u].there /\ users'[u].admin
                                        /\ ~users'[u].disabled /\ users'[u].hash # 0
      BY <2>2, <2>5, <2>6, <3>1 DEF EnabledAdmin
    <3>3. QED
      BY <1>1, <2>2, <2>6, <3>2, OneUserAdmins DEF EnabledAdmin, ChangePassword
  <2>13. QED
    BY <1>1, <2>1, <2>7, <2>8, <2>9, <2>10, <2>11, <2>12, AnswerInv
       DEF ChangePassword, Busy
<1>4. QED
  BY <1>2, <1>3 DEF ChangePassword

\* Sessions may end as long as the era of their accounts stays.
LEMMA SessionsEndLiveAtEra ==
  ASSUME Inv, Len(sessions') = Len(sessions), SessionsAge,
         \A s \in 1..Len(sessions) :
           /\ sessions'[s].row = "live" => sessions'[s] = sessions[s]
           /\ users'[sessions[s].user].era = users[sessions[s].user].era
  PROVE  LiveAtEra'
  BY DEF Inv, LiveAtEra, SessionsAge

\* An account is created; nothing was of it before.
LEMMA CreatedAges ==
  ASSUME Inv, NEW u \in Users, ~users[u].there, NEW admin \in BOOLEAN, NEW hash \in Nat,
         users' = Created(u, admin, hash)
  PROVE  /\ users' \in [Users -> User] /\ UsersAge
         /\ \A s \in 1..Len(sessions) :
              users'[sessions[s].user].era = users[sessions[s].user].era
         /\ users'[u].there /\ users'[u].admin = admin /\ users'[u].disabled = FALSE
         /\ users'[u].hash = hash
         /\ \A v \in Users : EnabledAdmin(v) => EnabledAdmin(v)'
<1> DEFINE w == [there |-> TRUE, admin |-> admin, disabled |-> FALSE, hash |-> hash, era |-> 0]
<1>1. Rows /\ w \in User /\ users' = [users EXCEPT ![u] = w]
  BY DEF Inv, User, Created
<1>2. /\ users' \in [Users -> User] /\ users'[u] = w
      /\ \A v \in Users : v # u => users'[v] = users[v]
  BY <1>1, UserWritten
<1>3. UsersAge
  BY <1>1, <1>2, OneUserAges
<1>4. \A s \in 1..Len(sessions) : users'[sessions[s].user].era = users[sessions[s].user].era
  <2>1. \A s \in 1..Len(sessions) : sessions[s].user \in Users /\ sessions[s].user # u
    BY <1>1, FieldTypes DEF Inv, RowsHaveUsers, Member
  <2>2. QED
    BY <1>2, <2>1
<1>5. \A v \in Users : EnabledAdmin(v) => EnabledAdmin(v)'
  BY <1>2 DEF EnabledAdmin
<1>6. QED
  BY <1>2, <1>3, <1>4, <1>5

\* The one who creates an account is there.
LEMMA CallerThere ==
  ASSUME Inv, NEW r \in Requests, req[r].pc \in WithSession
  PROVE  /\ req[r].sess \in 1..Len(sessions) /\ sessions[req[r].sess].user \in Users
         /\ Member(sessions[req[r].sess].user)
  BY FieldTypes DEF Inv, RequestOK, NamesRows, RowsHaveUsers

\* An administrator creates an account.
LEMMA CreateUserInv ==
  ASSUME Inv, NEW r \in Requests, CreateUser(r)
  PROVE  Inv'
<1> DEFINE u == req[r].user
<1>1. /\ Rows /\ u \in Users /\ Len(sessions) \in Nat /\ Len(links) \in Nat /\ Busy(r)
      /\ req[r].pc \in WithSession
  BY RowTypes, FieldTypes DEF Inv, CreateUser, Busy, WithSession
<1>2. CASE users' = users
  <2>1. Counts'
    BY <1>1, AnswerCounts DEF CreateUser
  <2>2. QED
    BY <1>2, <2>1, IdleOK, RowsUntouched DEF CreateUser, Answer
<1>3. CASE ~users[u].there /\ users' = Created(u, "promote" \in req[r].patch, 1)
  <2>1. /\ users' \in [Users -> User] /\ UsersAge
        /\ \A s \in 1..Len(sessions) :
             users'[sessions[s].user].era = users[sessions[s].user].era
        /\ \A v \in Users : EnabledAdmin(v) => EnabledAdmin(v)'
    <3>1. CASE "promote" \in req[r].patch
      <4>1. users' = Created(u, TRUE, 1)
        BY <1>3, <3>1 DEF Created
      <4>2. QED
        BY <1>1, <1>3, <4>1, CreatedAges DEF CreateUser
    <3>2. CASE "promote" \notin req[r].patch
      <4>1. ("promote" \in req[r].patch) = FALSE
        BY <3>2
      <4>2. users' = Created(u, FALSE, 1)
        BY <1>3, <4>1, Zenon
      <4>3. QED
        BY <1>1, <1>3, <4>2, CreatedAges DEF CreateUser
    <3>3. QED
      BY <3>1, <3>2
  <2>2. Rows'
    BY <1>1, <2>1, IdleOK DEF CreateUser, Rows, Answer
  <2>3. SessionsAge /\ LinksAge
    BY <1>1 DEF CreateUser, SessionsAge, LinksAge, Unused
  <2>4. Aging
    BY <2>1, <2>3 DEF Aging
  <2>5. LiveAtEra'
    BY <2>1, <2>3, SessionsEndLiveAtEra DEF CreateUser
  <2>6. RowsHaveUsers'
    BY <2>2, <2>4, OwnersStay DEF CreateUser, RowsHaveUsers
  <2>7. DeadLinksStayDead'
    BY DEF Inv, DeadLinksStayDead, CreateUser
  <2>8. AdminRemains'
    BY <1>1, <2>1, CallerThere, AdminsStay DEF CreateUser, Member
  <2>9. QED
    BY <1>1, <2>2, <2>4, <2>5, <2>6, <2>7, <2>8, AnswerInv DEF CreateUser
<1>4. QED
  BY <1>2, <1>3 DEF CreateUser

\* An administrator invites somebody: an account without a password, and a link.
LEMMA CreateInviteInv ==
  ASSUME Inv, NEW r \in Requests, CreateInvite(r)
  PROVE  Inv'
<1> DEFINE u == req[r].user
           n == Len(links) + 1
<1>1. /\ Rows /\ u \in Users /\ Len(sessions) \in Nat /\ Len(links) \in Nat /\ Busy(r)
      /\ req[r].pc \in WithSession
  BY RowTypes, FieldTypes DEF Inv, CreateInvite, Busy, WithSession
<1>2. CASE UNCHANGED <<users, links>>
  <2>1. Counts'
    BY <1>1, <1>2, AnswerCounts DEF CreateInvite
  <2>2. QED
    BY <1>2, <2>1, IdleOK, RowsUntouched DEF CreateInvite, Answer
<1>3. CASE /\ ~users[u].there /\ users' = Created(u, "promote" \in req[r].patch, 0)
           /\ links' = Append(links, NewLink(u, "invite"))
  <2>1. /\ users' \in [Users -> User] /\ UsersAge /\ users'[u].there
        /\ \A s \in 1..Len(sessions) :
             users'[sessions[s].user].era = users[sessions[s].user].era
        /\ \A v \in Users : EnabledAdmin(v) => EnabledAdmin(v)'
    <3>1. CASE "promote" \in req[r].patch
      <4>1. users' = Created(u, TRUE, 0)
        BY <1>3, <3>1 DEF Created
      <4>2. QED
        BY <1>1, <1>3, <4>1, CreatedAges DEF CreateInvite
    <3>2. CASE "promote" \notin req[r].patch
      <4>1. ("promote" \in req[r].patch) = FALSE
        BY <3>2
      <4>2. users' = Created(u, FALSE, 0)
        BY <1>3, <4>1, Zenon
      <4>3. QED
        BY <1>1, <1>3, <4>2, CreatedAges DEF CreateInvite
    <3>3. QED
      BY <3>1, <3>2
  <2>2. NewLink(u, "invite") \in Link /\ NewLink(u, "invite").user = u
    BY <1>1 DEF NewLink, Link
  <2>3. /\ links' \in Seq(Link) /\ Len(links') = n
        /\ \A l \in 1..Len(links) : links'[l] = links[l]
        /\ links'[n] = NewLink(u, "invite")
    BY <1>1, <1>3, <2>2, Appended DEF Rows
  <2>4. Rows'
    BY <1>1, <2>1, <2>3, IdleOK DEF CreateInvite, Rows, Answer
  <2>5. LinksAge
    BY <1>1, <2>3 DEF LinksAge, Unused
  <2>6. SessionsAge
    BY <1>1 DEF CreateInvite, SessionsAge
  <2>7. Aging
    BY <2>1, <2>6, <2>5 DEF Aging
  <2>8. LiveAtEra'
    BY <2>1, <2>6, SessionsEndLiveAtEra DEF CreateInvite
  <2>9. RowsHaveUsers'
    <3>1. \A l \in 1..Len(links') : l \in 1..Len(links) \/ l = n
      BY <1>1, <2>3
    <3>2. \A l \in 1..Len(links') : Known(links[l].user)'
      BY <2>1, <2>2, <2>3, <2>4, <2>7, <3>1, OwnersStay DEF Known
    <3>3. QED
      BY <2>4, <2>7, <3>2, OwnersStay DEF CreateInvite, RowsHaveUsers
  <2>10. DeadLinksStayDead'
    BY <2>5, DeadStay DEF DeadLinksStayDead, CreateInvite
  <2>11. AdminRemains'
    BY <1>1, <2>1, CallerThere, AdminsStay DEF CreateInvite, Member
  <2>12. QED
    BY <1>1, <2>3, <2>4, <2>7, <2>8, <2>9, <2>10, <2>11, AnswerInv DEF CreateInvite
<1>4. QED
  BY <1>2, <1>3 DEF CreateInvite

\* What a patch makes of an account.
Patched(w, p) == [w EXCEPT
  !.admin    = (@ \/ "promote" \in p) /\ "demote" \notin p,
  !.disabled = (@ \/ "disable" \in p) /\ "enable" \notin p,
  !.era      = IF "disable" \in p THEN @ + 1 ELSE @]

\* It is an account, as privileged as before unless the patch takes a privilege.
LEMMA PatchedUser ==
  ASSUME NEW w \in User, NEW p
  PROVE  LET x == Patched(w, p) IN
         /\ x \in User /\ x.hash = w.hash /\ x.there = w.there
         /\ x.era = IF "disable" \in p THEN w.era + 1 ELSE w.era
         /\ p \cap {"demote", "disable"} = {} =>
              (w.admin => x.admin) /\ (~w.disabled => ~x.disabled)
<1> DEFINE x == Patched(w, p)
<1>1. w.era + 1 \in Nat /\ w.era \in Nat
  BY DEF User
<1>2. /\ x.hash = w.hash /\ x.there = w.there
      /\ x.era = IF "disable" \in p THEN w.era + 1 ELSE w.era
  BY DEF User, Patched
<1>3. x.admin <=> ((w.admin \/ "promote" \in p) /\ "demote" \notin p)
  BY DEF User, Patched
<1>4. x.disabled <=> ((w.disabled \/ "disable" \in p) /\ "enable" \notin p)
  BY DEF User, Patched
<1>5. x \in User
  BY <1>1 DEF User, Patched
<1>6. QED
  BY <1>2, <1>3, <1>4, <1>5

\* An administrator patches an account.  If it disables the account, its
\* sessions end; if the caller still is an administrator, the caller remains.
LEMMA PatchUserInv ==
  ASSUME Inv, NEW r \in Requests, PatchUser(r)
  PROVE  Inv'
<1> DEFINE u == req[r].user
           p == req[r].patch
           c == sessions[req[r].sess].user
           w == Patched(users[u], p)
<1>1. /\ Rows /\ LiveAtEra /\ u \in Users /\ Len(sessions) \in Nat /\ Len(links) \in Nat
      /\ Busy(r) /\ req[r].pc \in WithSession
  BY RowTypes, FieldTypes DEF Inv, PatchUser, Busy, WithSession
<1>2. users[u] \in User /\ users[u].hash \in Nat /\ users[u].era \in Nat /\ users[u].there
  BY <1>1, RowTypes, FieldTypes DEF Inv, PatchUser, RequestOK, NamesRows, Known
<1>3. users' = [users EXCEPT ![u] = w]
  BY DEF PatchUser, Patched
<1>4. /\ w \in User /\ w.hash = users[u].hash /\ w.there = users[u].there
      /\ w.era = IF "disable" \in p THEN users[u].era + 1 ELSE users[u].era
      /\ p \cap {"demote", "disable"} = {} =>
           (users[u].admin => w.admin) /\ (~users[u].disabled => ~w.disabled)
  BY <1>2, PatchedUser
<1> HIDE DEF w
<1>5. /\ users' \in [Users -> User] /\ users'[u] = w
      /\ \A v \in Users : v # u => users'[v] = users[v]
  BY <1>1, <1>3, <1>4, UserWritten
<1>6. sessions' = IF "disable" \in p THEN Revoked(u, 0) ELSE sessions
  BY DEF PatchUser
<1>7. sessions' \in Seq(Session) /\ Len(sessions') = Len(sessions)
  BY <1>1, <1>6, RevokedSessions DEF Rows
<1>a. Answer(r) /\ links' = links /\ dead' = dead /\ overtaken' \in BOOLEAN
  BY DEF PatchUser
<1>8. Rows'
  BY <1>1, <1>5, <1>7, <1>a, IdleOK DEF Rows, Answer
<1>9. Aging
  <2>1. SessionsAge
    BY <1>1, <1>6, <1>7, RevokedAges DEF SessionsAge
  <2>2. LinksAge
    BY <1>1, <1>a DEF LinksAge, Unused
  <2>3. "disable" \in p =>
          \A s \in 1..Len(sessions) : sessions[s].user = u => sessions'[s].row # "live"
    BY <1>1, <1>6, RevokedAges
  <2>4. users'[u].there
    BY <1>2, <1>4, <1>5
  <2>5. users[u].hash <= users'[u].hash /\ ("disable" \notin p => users'[u].era = users[u].era)
    BY <1>2, <1>4, <1>5
  <2>6. UsersAge
    BY <1>1, <1>5, <2>3, <2>4, <2>5, OneUserAges
  <2>7. QED
    BY <2>1, <2>2, <2>6 DEF Aging
<1>10. RowsHaveUsers'
  BY <1>7, <1>8, <1>9, <1>a, OwnersStay DEF RowsHaveUsers
<1>11. LiveAtEra'
  <2>1. CASE "disable" \in p
    BY <1>1, <1>4, <1>5, <1>6, <2>1, RevocationLiveAtEra
  <2>2. CASE "disable" \notin p
    <3>1. sessions' = sessions /\ \A v \in Users : users'[v].era = users[v].era
      BY <1>4, <1>5, <1>6, <2>2
    <3>2. QED
      BY <1>1, <3>1, FieldTypes DEF LiveAtEra
  <2>3. QED
    BY <2>1, <2>2
<1>12. DeadLinksStayDead'
  BY DEF Inv, DeadLinksStayDead, PatchUser
<1>13. AdminRemains'
  <2>1. overtaken' = (overtaken \/ ~users[c].admin \/ users[c].disabled)
    BY DEF PatchUser
  <2>2. CASE ~users[c].admin \/ users[c].disabled
    BY <2>1, <2>2 DEF AdminRemains
  <2>3. CASE users[c].admin /\ ~users[c].disabled
    <3>1. c \in Users /\ users[c].there /\ users[c].hash # 0
      BY <1>1, CallerThere DEF Member
    <3>2. CASE c = u
      <4>1. p \cap {"demote", "disable"} = {}
        BY <3>2 DEF Inv, PatchUser, RequestOK, NotItself, SelfLockout
      <4>2. users'[u].there /\ users'[u].admin /\ ~users'[u].disabled /\ users'[u].hash # 0
        BY <1>2, <1>4, <1>5, <2>3, <3>1, <3>2, <4>1
      <4>3. QED
        BY <1>1, <4>2 DEF AdminRemains, EnabledAdmin
    <3>3. CASE c # u
      <4>1. users'[c] = users[c]
        BY <1>5, <3>1, <3>3
      <4>2. users'[c].there /\ users'[c].admin /\ ~users'[c].disabled /\ users'[c].hash # 0
        BY <2>3, <3>1, <4>1
      <4>3. QED
        BY <3>1, <4>2 DEF AdminRemains, EnabledAdmin
    <3>4. QED
      BY <3>2, <3>3
  <2>4. QED
    BY <2>2, <2>3
<1>14. QED
  <2>1. Len(sessions') <= Len(sessions) + 1 /\ Len(links') <= Len(links) + 1
    BY <1>1, <1>7, <1>a
  <2>2. QED
    BY <1>1, <1>8, <1>9, <1>10, <1>11, <1>12, <1>13, <1>a, <2>1, AnswerInv

\* A commit takes the links that its transaction holds, and no other.
LEMMA CommittedLinks ==
  ASSUME Rows, NEW r \in Requests
  PROVE  /\ Committed(r) \in Seq(Link) /\ Len(Committed(r)) = Len(links)
         /\ \A l \in 1..Len(links) :
              /\ Committed(r)[l].user = links[l].user
              /\ Committed(r)[l].purpose = links[l].purpose
              /\ Committed(r)[l].row \in {"live", "expired"} =>
                   /\ Committed(r)[l].row = links[l].row
                   /\ l \notin req[r].held /\ ~LockedBy(r, l)
              /\ Deleting(r) /\ ~LockedBy(r, l) => Committed(r)[l].row = links[l].row
<1> DEFINE f == Committed(r)
<1>1. DOMAIN links = 1..Len(links)
  BY RowTypes
<1>2. ASSUME NEW l \in 1..Len(links)
      PROVE  /\ f[l] \in Link /\ f[l].user = links[l].user /\ f[l].purpose = links[l].purpose
             /\ f[l].row \in {"live", "expired"} =>
                  f[l].row = links[l].row /\ l \notin req[r].held /\ ~LockedBy(r, l)
             /\ Deleting(r) /\ ~LockedBy(r, l) => f[l].row = links[l].row
  <2>1. links[l] \in Link
    BY RowTypes
  <2>2. CASE l \in req[r].held
    <3>1. f[l] = [links[l] EXCEPT !.row = "gone"]
      BY <1>1, <2>2 DEF Committed
    <3>2. Deleting(r) => LockedBy(r, l)
      BY <2>2 DEF LockedBy
    <3>3. QED
      BY <2>1, <3>1, <3>2 DEF Link
  <2>3. CASE l \notin req[r].held /\ LockedBy(r, l)
    <3>1. f[l] = [links[l] EXCEPT !.row = "used"]
      BY <1>1, <2>3 DEF Committed
    <3>2. QED
      BY <2>1, <2>3, <3>1 DEF Link
  <2>4. CASE l \notin req[r].held /\ ~LockedBy(r, l)
    <3>1. f[l] = links[l]
      BY <1>1, <2>4 DEF Committed
    <3>2. QED
      BY <2>1, <2>4, <3>1
  <2>5. QED
    BY <2>2, <2>3, <2>4
<1>3. f = [l \in DOMAIN links |-> f[l]]
  BY DEF Committed
<1>4. links \in Seq(Link)
  BY DEF Rows
<1> HIDE DEF f
<1>5. f \in Seq(Link) /\ Len(f) = Len(links)
  BY <1>2, <1>3, <1>4, MappedSeq
<1>6. QED
  BY <1>2, <1>5 DEF f

\* A reset deletes the links that it saw and issues another: what was there when
\* it began is dead.
LEMMA CreateResetTokenInv ==
  ASSUME Inv, NEW r \in Requests, CreateResetToken(r)
  PROVE  Inv'
<1> DEFINE u == req[r].user
           n == Len(links) + 1
           f == Committed(r)
<1>1. /\ Rows /\ u \in Users /\ Len(sessions) \in Nat /\ Len(links) \in Nat /\ Busy(r)
      /\ DOMAIN links = 1..Len(links) /\ req[r].seen \in Nat
  BY RowTypes, FieldTypes DEF Inv, CreateResetToken, Busy
<1>2. Known(u) /\ req[r].seen <= Len(links)
  BY DEF Inv, CreateResetToken, RequestOK, NamesRows, DoomsAll
<1>4. \A l \in 1..Len(links) :
        /\ f[l].user = links[l].user /\ f[l].purpose = links[l].purpose
        /\ f[l].row \in {"live", "expired"} => f[l].row = links[l].row /\ l \notin req[r].held
  BY <1>1, CommittedLinks
<1>6. links' = Append(f, NewLink(u, "reset"))
  BY DEF CreateResetToken
<1>7. f \in Seq(Link) /\ Len(f) = Len(links)
  BY <1>1, CommittedLinks
<1> HIDE DEF f
<1>8. NewLink(u, "reset") \in Link /\ NewLink(u, "reset").user = u
  BY <1>1 DEF NewLink, Link
<1>9. /\ links' \in Seq(Link) /\ Len(links') = n
      /\ \A l \in 1..Len(links) : links'[l] = f[l]
      /\ links'[n] = NewLink(u, "reset")
  BY <1>6, <1>7, <1>8, Appended
<1>10. Rows'
  <2>1. dead' \subseteq 1..Len(links')
    <3>1. dead' = dead \cup {l \in 1..req[r].seen : links[l].user = u
                                                   /\ links[l].purpose = "reset"}
      BY DEF CreateResetToken
    <3>2. 1..req[r].seen \subseteq 1..Len(links') /\ dead \subseteq 1..Len(links')
      BY <1>1, <1>2, <1>9 DEF Rows
    <3>3. QED
      BY <3>1, <3>2
  <2>2. req' \in [Requests -> Request]
    BY <1>1, IdleOK DEF CreateResetToken, Rows, Answer
  <2>3. QED
    BY <1>1, <1>9, <2>1, <2>2 DEF CreateResetToken, Rows
<1>11. Aging
  <2>1. SessionsAge /\ UsersAge
    BY <1>1, FieldTypes DEF CreateResetToken, SessionsAge, UsersAge
  <2>2. LinksAge
    BY <1>1, <1>4, <1>9 DEF LinksAge, Unused
  <2>3. QED
    BY <2>1, <2>2 DEF Aging
<1>12. RowsHaveUsers'
  <2>1. \A l \in 1..Len(links') : l \in 1..Len(links) \/ l = n
    BY <1>1, <1>9
  <2>2. users'[links'[n].user].there
    BY <1>2, <1>8, <1>9 DEF CreateResetToken, Known
  <2>3. \A l \in 1..Len(links') : Known(links[l].user)'
    BY <1>10, <1>11, <2>1, <2>2, OwnersStay DEF Known
  <2>4. QED
    BY <1>10, <1>11, <2>3, OwnersStay DEF CreateResetToken, RowsHaveUsers
<1>13. LiveAtEra' /\ AdminRemains'
  BY DEF Inv, CreateResetToken, LiveAtEra, AdminRemains, EnabledAdmin
<1>14. DeadLinksStayDead'
  <2>1. ASSUME NEW l \in 1..req[r].seen, links[l].user = u, links[l].purpose = "reset"
        PROVE  links'[l].row # "live"
    <3>1. l \in 1..Len(links)
      BY <1>1, <1>2
    <3>2. Unused(l) => l \in req[r].held
      BY <2>1 DEF Inv, CreateResetToken, RequestOK, DoomsAll
    <3>3. QED
      BY <1>4, <1>9, <3>1, <3>2 DEF Unused
  <2>2. \A l \in dead : links'[l].row # "live"
    BY <1>11, DeadStay DEF Aging
  <2>3. QED
    BY <2>1, <2>2 DEF CreateResetToken, DeadLinksStayDead
<1>15. QED
  BY <1>1, <1>9, <1>10, <1>11, <1>12, <1>13, <1>14, AnswerInv DEF CreateResetToken

\* A redeem uses its link, deletes the others of the account, ends its sessions
\* and begins one.
LEMMA RedeemAccountTokenInv ==
  ASSUME Inv, NEW r \in Requests, RedeemAccountToken(r)
  PROVE  Inv'
<1> DEFINE u == req[r].user
           m == Len(sessions) + 1
           w == [users[u] EXCEPT !.hash = @ + 1, !.era = @ + 1]
<1>1. /\ Rows /\ LiveAtEra /\ u \in Users /\ Busy(r)
      /\ Len(sessions) \in Nat /\ Len(links) \in Nat /\ DOMAIN links = 1..Len(links)
  BY RowTypes, FieldTypes DEF Inv, RedeemAccountToken, Busy
<1>2. users[u].there
  BY DEF Inv, RedeemAccountToken, RequestOK, NamesRows, OfLink, RowsHaveUsers, Known
<1>s. req[r].seen \in Nat /\ req[r].seen <= Len(links)
  BY FieldTypes DEF Inv, RedeemAccountToken, RequestOK, DoomsAll
<1>3. users[u] \in User /\ users[u].hash \in Nat /\ users[u].era \in Nat
  BY <1>1, RowTypes, FieldTypes
<1>4. w = [users[u] EXCEPT !.hash = @ + 1, !.era = @ + 1] /\ users' = [users EXCEPT ![u] = w]
  BY DEF RedeemAccountToken
<1> HIDE DEF w
<1>5. /\ w \in User /\ w.era = users[u].era + 1 /\ w.hash = users[u].hash + 1
      /\ w.there = users[u].there /\ w.admin = users[u].admin
      /\ w.disabled = users[u].disabled
  BY <1>3, <1>4, NextHash
<1>6. /\ users' \in [Users -> User] /\ users'[u] = w
      /\ \A v \in Users : v # u => users'[v] = users[v]
  BY <1>1, <1>4, <1>5, UserWritten
<1>7. users'[u].there
  BY <1>2, <1>5, <1>6
<1>8. users[u].hash < users'[u].hash /\ users'[u].hash # 0 /\ users'[u].era = users[u].era + 1
  BY <1>3, <1>5, <1>6
<1>9. /\ sessions' \in Seq(Session) /\ Len(sessions') = m
      /\ \A s \in 1..Len(sessions) : sessions'[s] = Revoked(u, 0)[s]
      /\ sessions'[m] = NewSession(u, users[u].era + 1)
  <2>1. NewSession(u, users[u].era + 1) \in Session
    BY <1>1, <1>3 DEF NewSession, Session
  <2>2. Revoked(u, 0) \in Seq(Session) /\ Len(Revoked(u, 0)) = Len(sessions)
    BY <1>1, RevokedSessions
  <2>3. sessions' = Append(Revoked(u, 0), NewSession(u, users[u].era + 1))
    BY DEF RedeemAccountToken, RedeemedSessions
  <2>4. QED
    BY <2>1, <2>2, <2>3, Appended
<1>10. /\ links' \in Seq(Link) /\ Len(links') = Len(links)
       /\ \A k \in 1..Len(links) :
            /\ links'[k].user = links[k].user /\ links'[k].purpose = links[k].purpose
            /\ links'[k].row \in {"live", "expired"} =>
                 links'[k].row = links[k].row /\ k # req[r].link /\ k \notin req[r].held
  <2>1. links' = Committed(r)
    BY DEF RedeemAccountToken
  <2>2. LockedBy(r, req[r].link)
    BY DEF RedeemAccountToken, LockedBy
  <2>3. QED
    BY <1>1, <2>1, <2>2, CommittedLinks
<1>11. Rows'
  <2>1. dead' \subseteq 1..Len(links')
    <3>1. dead' = dead \cup {k \in 1..req[r].seen : links[k].user = u}
      BY DEF RedeemAccountToken
    <3>2. 1..req[r].seen \subseteq 1..Len(links') /\ dead \subseteq 1..Len(links')
      BY <1>1, <1>s, <1>10 DEF Rows
    <3>3. QED
      BY <3>1, <3>2
  <2>2. req' \in [Requests -> Request]
    BY <1>1, IdleOK DEF RedeemAccountToken, Rows, Answer
  <2>3. QED
    BY <1>1, <1>6, <1>9, <1>10, <2>1, <2>2 DEF RedeemAccountToken, Rows
<1>12. Aging
  <2>1. SessionsAge
    BY <1>1, <1>9, RevokedAges DEF SessionsAge
  <2>2. LinksAge
    BY <1>1, <1>10 DEF LinksAge, Unused
  <2>3. users[u].hash <= users'[u].hash
    BY <1>3, <1>5, <1>6
  <2>4. UsersAge
    BY <1>1, <1>6, <1>7, <1>8, <2>3, OneUserAges
  <2>5. QED
    BY <2>1, <2>2, <2>4 DEF Aging
<1>13. \A s \in 1..Len(sessions') : s \in 1..Len(sessions) \/ s = m
  BY <1>1, <1>9
<1>14. sessions'[m].user = u /\ sessions'[m].born = users[u].era + 1
  BY <1>9 DEF NewSession
<1>15. RowsHaveUsers'
  <2>1. users'[sessions'[m].user].there /\ users'[sessions'[m].user].hash # 0
    BY <1>7, <1>8, <1>14
  <2>2. \A s \in 1..Len(sessions') : Member(sessions[s].user)'
    BY <1>11, <1>12, <1>13, <2>1, OwnersStay DEF Member
  <2>3. QED
    BY <1>10, <1>11, <1>12, <2>2, OwnersStay DEF RowsHaveUsers
<1>16. LiveAtEra'
  <2>1. ASSUME NEW s \in 1..Len(sessions), sessions'[s].row = "live"
        PROVE  sessions'[s].born = users'[sessions'[s].user].era
    <3>1. s # 0 /\ sessions[s].user # u /\ sessions[s].user \in Users
      BY <1>1, <1>9, <2>1, RevokedAges, FieldTypes
    <3>2. sessions'[s] = sessions[s]
      BY <1>1, <1>9, <3>1, RevokedAges
    <3>3. QED
      BY <1>1, <1>6, <2>1, <3>1, <3>2 DEF LiveAtEra
  <2>2. sessions'[m].born = users'[sessions'[m].user].era
    BY <1>8, <1>14
  <2>3. QED
    BY <1>13, <2>1, <2>2 DEF LiveAtEra
<1>17. DeadLinksStayDead'
  <2>1. ASSUME NEW k \in 1..req[r].seen, links[k].user = u
        PROVE  links'[k].row # "live"
    <3>1. k \in 1..Len(links)
      BY <1>1, <1>s
    <3>2. Unused(k) /\ k # req[r].link => k \in req[r].held
      BY <2>1 DEF Inv, RedeemAccountToken, RequestOK, DoomsAll
    <3>3. QED
      BY <1>10, <3>1, <3>2 DEF Unused
  <2>2. \A l \in dead : links'[l].row # "live"
    BY <1>12, DeadStay DEF Aging
  <2>3. QED
    BY <1>1, <2>1, <2>2 DEF RedeemAccountToken, DeadLinksStayDead
<1>18. AdminRemains'
  <2>1. EnabledAdmin(req[r].user) => users'[u].there /\ users'[u].admin
                                      /\ ~users'[u].disabled /\ users'[u].hash # 0
    BY <1>5, <1>6, <1>7, <1>8 DEF EnabledAdmin
  <2>2. QED
    BY <1>1, <1>2, <1>6, <2>1, OneUserAdmins DEF EnabledAdmin, RedeemAccountToken
<1>19. QED
  BY <1>1, <1>9, <1>10, <1>11, <1>12, <1>15, <1>16, <1>17, <1>18, AnswerInv
     DEF RedeemAccountToken

----------------------------------------------------------------------------
(* Steps of no request. *)

\* A step of nobody that leaves the requests alone.
LEMMA NobodyInv ==
  ASSUME Inv, Rows', Aging, UNCHANGED <<req, served>>,
         Len(sessions') = Len(sessions), Len(links') = Len(links),
         LiveAtEra', DeadLinksStayDead', AdminRemains'
  PROVE  Inv'
<1>1. Counts'
  BY DEF Inv, Counts, Running, Busy
<1>2. RowsHaveUsers'
  BY OwnersStay DEF RowsHaveUsers
<1>3. ASSUME NEW p \in Requests PROVE RequestOK(req[p])'
  <2>1. \A c \in Request : RequestOK(c) => RequestOK(c)'
    BY RequestAges DEF Inv
  <2>2. PICK c \in Request : c = req[p]
    BY DEF Inv, Rows
  <2>3. RequestOK(c)'
    BY <2>1, <2>2 DEF Inv
  <2>4. QED
    BY <2>2, <2>3 DEF RequestOK, NamesRows, ComparedAtEra, NotItself, DoomsAll
<1>4. QED
  BY <1>1, <1>2, <1>3 DEF Inv

\* A session ends by itself, or its owner ends it.
LEMMA SessionEndsInv ==
  ASSUME Inv, NEW s \in 1..Len(sessions), NEW row \in {"expired", "gone"},
         sessions' = [sessions EXCEPT ![s] = [@ EXCEPT !.row = row]],
         UNCHANGED <<users, links, req, served, dead, overtaken>>
  PROVE  Inv'
<1>1. Rows /\ sessions[s] \in Session /\ Len(sessions) \in Nat /\ Len(links) \in Nat
  BY RowTypes DEF Inv
<1> DEFINE e == [sessions[s] EXCEPT !.row = row]
<1>2. e \in Session /\ e.row = row /\ e.user = sessions[s].user
  BY <1>1 DEF Session
<1>3. sessions' = [sessions EXCEPT ![s] = e]
  OBVIOUS
<1> HIDE DEF e
<1>4. /\ sessions' \in Seq(Session) /\ Len(sessions') = Len(sessions)
      /\ \A i \in 1..Len(sessions) : sessions'[i] = IF i = s THEN e ELSE sessions[i]
  <2>1. sessions \in Seq(Session)
    BY <1>1 DEF Rows
  <2>2. /\ [sessions EXCEPT ![s] = e] \in Seq(Session)
        /\ Len([sessions EXCEPT ![s] = e]) = Len(sessions)
        /\ \A i \in 1..Len(sessions) :
             [sessions EXCEPT ![s] = e][i] = IF i = s THEN e ELSE sessions[i]
    BY ONLY <1>2, <2>1, s \in 1..Len(sessions), ExceptSeq
  <2>3. QED
    BY <1>3, <2>2
<1>5. Rows'
  BY <1>1, <1>4 DEF Rows
<1>6. Aging
  BY <1>1, <1>2, <1>4, FieldTypes DEF Aging, SessionsAge, LinksAge, UsersAge, Unused
<1>7. LiveAtEra'
  BY <1>2, <1>4, <1>6, SessionsEndLiveAtEra DEF Aging
<1>8. DeadLinksStayDead' /\ AdminRemains'
  BY DEF Inv, DeadLinksStayDead, AdminRemains, EnabledAdmin
<1>9. QED
  BY <1>4, <1>5, <1>6, <1>7, <1>8, NobodyInv

\* A link expires.
LEMMA ExpireLinkInv ==
  ASSUME Inv, NEW l \in 1..Len(links), ExpireLink(l)
  PROVE  Inv'
<1>1. Rows /\ links[l] \in Link /\ Len(sessions) \in Nat /\ Len(links) \in Nat
  BY RowTypes DEF Inv
<1> DEFINE e == [links[l] EXCEPT !.row = "expired"]
<1>2. /\ e \in Link /\ e.row = "expired" /\ e.user = links[l].user
      /\ e.purpose = links[l].purpose
  BY <1>1 DEF Link
<1>3. links' = [links EXCEPT ![l] = e]
  BY DEF ExpireLink
<1> HIDE DEF e
<1>4. /\ links' \in Seq(Link) /\ Len(links') = Len(links)
      /\ \A i \in 1..Len(links) : links'[i] = IF i = l THEN e ELSE links[i]
  BY <1>1, <1>2, <1>3, ExceptSeq DEF Rows
<1>5. Rows'
  BY <1>1, <1>4 DEF Rows, ExpireLink
<1>6. Aging
  <2>1. SessionsAge /\ UsersAge
    BY <1>1, FieldTypes DEF ExpireLink, SessionsAge, UsersAge
  <2>2. LinksAge
    BY <1>1, <1>2, <1>4 DEF ExpireLink, LinksAge, Unused
  <2>3. QED
    BY <2>1, <2>2 DEF Aging
<1>7. LiveAtEra' /\ AdminRemains'
  BY DEF Inv, ExpireLink, LiveAtEra, AdminRemains, EnabledAdmin
<1>8. DeadLinksStayDead'
  BY <1>6, DeadStay DEF Aging, ExpireLink, DeadLinksStayDead
<1>9. QED
  BY <1>4, <1>5, <1>6, <1>7, <1>8, NobodyInv DEF ExpireLink

\* A boot forgets the requests, deletes the expired sessions and sees to it that
\* there is an administrator.
LEMMA BootInv ==
  ASSUME Inv, Boot
  PROVE  Inv'
<1>1. /\ Rows /\ Len(sessions) \in Nat /\ Len(links) \in Nat
      /\ DOMAIN sessions = 1..Len(sessions) /\ Bootstrap \in Users
  BY RowTypes, AccountsAssumption DEF Inv
<1>2. \A s \in 1..Len(sessions) :
        sessions'[s] = IF sessions[s].row = "expired"
                       THEN [sessions[s] EXCEPT !.row = "gone"] ELSE sessions[s]
  BY <1>1 DEF Boot
<1>3. \A s \in 1..Len(sessions) :
        /\ sessions'[s] \in Session /\ sessions'[s].user = sessions[s].user
        /\ sessions'[s].row = "live" => sessions'[s] = sessions[s]
  BY <1>1, <1>2, RowTypes DEF Session
<1>4. sessions' = [s \in DOMAIN sessions |-> sessions'[s]]
  BY DEF Boot
<1>5. sessions' \in Seq(Session) /\ Len(sessions') = Len(sessions)
  BY <1>1, <1>3, <1>4, MappedSeq DEF Rows
<1>6. /\ users' \in [Users -> User] /\ UsersAge
      /\ \A s \in 1..Len(sessions) : users'[sessions[s].user].era = users[sessions[s].user].era
      /\ AdminRemains'
  <2>1. CASE users[Bootstrap].there
    <3>1. users' = users
      BY <2>1 DEF Boot
    <3>2. UsersAge
      BY <1>1, <3>1, FieldTypes DEF UsersAge
    <3>3. AdminRemains'
      BY <3>1 DEF Inv, Boot, AdminRemains, EnabledAdmin
    <3>4. QED
      BY <1>1, <3>1, <3>2, <3>3 DEF Rows
  <2>2. CASE ~users[Bootstrap].there
    <3>1. users' = Created(Bootstrap, TRUE, 1)
      BY <2>2 DEF Boot
    <3>2. /\ users' \in [Users -> User] /\ UsersAge
          /\ \A s \in 1..Len(sessions) :
               users'[sessions[s].user].era = users[sessions[s].user].era
          /\ users'[Bootstrap].there /\ users'[Bootstrap].admin = TRUE
          /\ users'[Bootstrap].disabled = FALSE /\ users'[Bootstrap].hash = 1
      BY <1>1, <2>2, <3>1, CreatedAges
    <3>3. AdminRemains'
      BY <1>1, <3>2 DEF AdminRemains, EnabledAdmin
    <3>4. QED
      BY <3>2, <3>3
  <2>3. QED
    BY <2>1, <2>2
<1>7. Rows'
  BY <1>1, <1>5, <1>6, IdleOK DEF Boot, Rows
<1>8. SessionsAge /\ LinksAge
  BY <1>1, <1>3, <1>5 DEF Boot, SessionsAge, LinksAge, Unused
<1>9. Aging
  BY <1>6, <1>8 DEF Aging
<1>10. RowsHaveUsers'
  BY <1>5, <1>7, <1>9, OwnersStay DEF Boot, RowsHaveUsers
<1>11. LiveAtEra'
  BY <1>3, <1>5, <1>6, <1>8, SessionsEndLiveAtEra
<1>12. DeadLinksStayDead'
  BY <1>8, DeadStay DEF Boot, DeadLinksStayDead
<1>13. \A p \in Requests : req'[p] = Idle
  BY DEF Boot
<1>14. \A p \in Requests : RequestOK(req[p])'
  BY <1>13, IdleOK
     DEF RequestOK, NamesRows, ComparedAtEra, NotItself, DoomsAll, WithSession, OwnSession, OfLink
<1>15. Counts'
  <2>1. Running' = {}
    BY <1>13, IdleOK DEF Running, Busy
  <2>2. IsFiniteSet(Running') /\ Cardinality(Running') = 0 /\ Cardinality(Running) \in Nat
    BY <2>1, FS_EmptySet, FS_CardinalityType DEF Inv, Counts
  <2>3. QED
    BY <1>1, <1>5, <2>2, AccountsAssumption DEF Inv, Counts, Boot
<1>16. QED
  BY <1>6, <1>7, <1>10, <1>11, <1>12, <1>14, <1>15 DEF Inv

----------------------------------------------------------------------------
(* The invariants. *)

\* The inductive invariant holds at first ...
LEMMA InitInv == Init => Inv
<1> SUFFICES ASSUME Init PROVE Inv
  OBVIOUS
<1>1. Len(sessions) = 0 /\ Len(links) = 0 /\ Len(sessions) \in Nat /\ Len(links) \in Nat
  BY EmptySeq DEF Init
<1>2. Rows
  <2>1. users \in [Users -> User]
    BY DEF Init, NoUser, User
  <2>2. sessions \in Seq(Session) /\ links \in Seq(Link)
    BY EmptySeq DEF Init
  <2>3. QED
    BY <2>1, <2>2, IdleOK DEF Init, Rows
<1>3. Counts
  <2>1. Running = {}
    BY IdleOK DEF Init, Running, Busy
  <2>2. QED
    BY <1>1, <2>1, FS_EmptySet, AccountsAssumption DEF Init, Counts
<1>4. RowsHaveUsers /\ LiveAtEra
  BY <1>1 DEF RowsHaveUsers, LiveAtEra
<1>5. \A r \in Requests : RequestOK(req[r])
  BY IdleOK DEF Init
<1>6. DeadLinksStayDead /\ AdminRemains
  BY DEF Init, DeadLinksStayDead, AdminRemains, NoUser
<1>7. QED
  BY <1>2, <1>3, <1>4, <1>5, <1>6 DEF Inv

\* ... and every step keeps it.
LEMMA StepInv == Inv /\ [Next]_vars => Inv'
<1> SUFFICES ASSUME Inv, [Next]_vars PROVE Inv'
  OBVIOUS
<1>1. DOMAIN sessions = 1..Len(sessions) /\ DOMAIN links = 1..Len(links)
  BY RowTypes DEF Inv
<1>2. ASSUME NEW r \in Requests, Step(r) PROVE Inv'
  BY <1>2, CreateSessionInv, DeleteUserSessionsInv, ChangeVerifyInv, ChangePasswordInv,
     CreateUserInv, CreateInviteInv, PatchUserInv, InvalidateInv, CreateResetTokenInv,
     DeleteLinkInv, ClaimLinkInv, SetPasswordInv, RedeemAccountTokenInv, AbortInv DEF Step
<1>3. ASSUME NEW s \in DOMAIN sessions, Logout(s) \/ ExpireSession(s) PROVE Inv'
  <2>1. PICK row \in {"expired", "gone"} :
          /\ sessions' = [sessions EXCEPT ![s] = [@ EXCEPT !.row = row]]
          /\ UNCHANGED <<users, links, req, served, dead, overtaken>>
    BY <1>3 DEF Logout, ExpireSession
  <2>2. QED
    BY <1>1, <2>1, SessionEndsInv
<1>4. ASSUME NEW l \in DOMAIN links, ExpireLink(l) PROVE Inv'
  BY <1>1, <1>4, ExpireLinkInv
<1>5. CASE UNCHANGED vars
  <2>1. UNCHANGED <<users, sessions, links, req, served, dead, overtaken>>
    BY <1>5 DEF vars
  <2>2. Rows' /\ Counts'
    BY <2>1 DEF Inv, Rows, Counts, Running, Busy
  <2>3. RowsHaveUsers' /\ LiveAtEra' /\ DeadLinksStayDead' /\ AdminRemains'
    BY <2>1 DEF Inv, RowsHaveUsers, LiveAtEra, DeadLinksStayDead, AdminRemains, EnabledAdmin,
                Known, Member
  <2>4. \A r \in Requests : RequestOK(req[r])'
    BY <2>1 DEF Inv, RequestOK, NamesRows, ComparedAtEra, NotItself, DoomsAll, Known, Member,
                Unused
  <2>5. QED
    BY <2>2, <2>3, <2>4 DEF Inv
<1>6. QED
  BY <1>2, <1>3, <1>4, <1>5, BootInv, ArriveInv DEF Next

\* The inductive invariant holds of every run.
LEMMA Invariance == Spec => []Inv
<1>1. Init => Inv
  BY InitInv
<1>2. Inv /\ [Next]_vars => Inv'
  BY StepInv
<1>3. QED
  BY <1>1, <1>2, PTL DEF Spec

----------------------------------------------------------------------------
(* Who holds which link. *)

\* A link that is locked is unused and of the account, and nobody else has it
\* locked; what a DELETE has still to visit is of the account.
LocksOK(r) ==
  /\ req[r].pc \in {"reset", "redeem", "claimed"} => req[r].held = {}
  /\ Deleting(r) => \A l \in req[r].doomed \cup req[r].held :
                      l \in 1..Len(links) /\ links[l].user = req[r].user
  /\ \A l \in 1..Len(links) : LockedBy(r, l) =>
       Unused(l) /\ \A q \in Requests : q # r => ~LockedBy(q, l)
Locks == \A r \in Requests : LocksOK(r)

\* The links that a request in a given state has locked.
Holds(q, l) ==
  \/ q.pc \in {"claimed", "clearing"} /\ q.link = l
  \/ q.pc \in {"invalidating", "clearing"} /\ l \in q.held

\* What a request in a given state may hold and visit, by itself.
MayHold(q) ==
  /\ q.pc \in {"reset", "redeem", "claimed"} => q.held = {}
  /\ q.pc \in {"invalidating", "clearing"} =>
       \A l \in q.doomed \cup q.held : l \in 1..Len(links) /\ links[l].user = q.user

\* A locked link is a row.
LEMMA LockedRows ==
  ASSUME Inv, Locks, NEW p \in Requests, NEW l, LockedBy(p, l)
  PROVE  l \in 1..Len(links) /\ links[l].user = req[p].user
<1>1. CASE req[p].pc \in {"claimed", "clearing"} /\ req[p].link = l
  BY <1>1 DEF Inv, RequestOK, NamesRows, OfLink
<1>2. CASE Deleting(p) /\ l \in req[p].held
  BY <1>2 DEF Locks, LocksOK
<1>3. QED
  BY <1>1, <1>2 DEF LockedBy

\* One request moves and takes the lock of free links only, and no link that
\* another has locked is used or deleted.
LEMMA LocksKept ==
  ASSUME Inv, Locks, NEW r \in Requests, NEW q, req' = [req EXCEPT ![r] = q],
         Len(links') \in Nat, Len(links) <= Len(links'),
         \A l \in 1..Len(links) :
           /\ links'[l].user = links[l].user
           /\ Unused(l) /\ ~LockedBy(r, l) => Unused(l)',
         MayHold(q),
         \A l : Holds(q, l) => Unused(l)' /\ \A p \in Requests : p # r => ~LockedBy(p, l)
  PROVE  Locks'
<1>1. Len(links) \in Nat /\ \A l \in 1..Len(links) : l \in 1..Len(links')
  BY RowTypes DEF Inv
<1>2. req'[r] = q /\ \A p \in Requests : p # r => req'[p] = req[p]
  BY DEF Inv, Rows
<1>3. \A l : LockedBy(r, l)' <=> Holds(q, l)
  BY <1>2 DEF LockedBy, Holds, Deleting
<1>4. \A p \in Requests : p # r => \A l : LockedBy(p, l)' <=> LockedBy(p, l)
  BY <1>2 DEF LockedBy, Deleting
<1>5. LocksOK(r)'
  <2>1. q.pc \in {"invalidating", "clearing"} =>
          \A l \in q.doomed \cup q.held : l \in 1..Len(links') /\ links'[l].user = q.user
    BY <1>1 DEF MayHold
  <2>2. ASSUME NEW l \in 1..Len(links'), LockedBy(r, l)'
        PROVE  Unused(l)' /\ \A p \in Requests : p # r => ~LockedBy(p, l)'
    BY <1>3, <1>4, <2>2
  <2>3. QED
    BY <1>2, <2>1, <2>2 DEF LocksOK, MayHold, Deleting
<1>6. ASSUME NEW p \in Requests, p # r PROVE LocksOK(p)'
  <2>1. req'[p] = req[p] /\ LocksOK(p)
    BY <1>2, <1>6 DEF Locks
  <2>2. req[p].pc \in {"invalidating", "clearing"} =>
          \A l \in req[p].doomed \cup req[p].held :
            l \in 1..Len(links') /\ links'[l].user = req[p].user
    BY <1>1, <2>1 DEF LocksOK, Deleting
  <2>3. ASSUME NEW l \in 1..Len(links'), LockedBy(p, l)'
        PROVE  Unused(l)' /\ \A s \in Requests : s # p => ~LockedBy(s, l)'
    <3>1. LockedBy(p, l)
      BY <1>4, <1>6, <2>3
    <3>2. l \in 1..Len(links)
      BY <3>1, LockedRows
    <3>3. Unused(l) /\ \A s \in Requests : s # p => ~LockedBy(s, l)
      BY <2>1, <3>1, <3>2 DEF LocksOK
    <3>4. Unused(l)'
      BY <1>6, <3>2, <3>3
    <3>5. ~LockedBy(r, l)'
      BY <1>3, <1>6, <3>1
    <3>6. QED
      BY <1>4, <3>3, <3>4, <3>5
  <2>4. QED
    BY <2>1, <2>2, <2>3 DEF LocksOK, Deleting
<1>7. QED
  BY <1>5, <1>6 DEF Locks

\* A request that moves to a step without locks, and leaves the links alone.
LEMMA LocksDropped ==
  ASSUME Inv, Locks, NEW r \in Requests, NEW q, req' = [req EXCEPT ![r] = q],
         q.pc \notin {"claimed", "clearing", "invalidating"}, q.held = {},
         UNCHANGED links
  PROVE  Locks'
<1>1. MayHold(q) /\ \A l : ~Holds(q, l)
  BY DEF MayHold, Holds
<1>2. Len(links') \in Nat /\ Len(links) <= Len(links')
  BY RowTypes DEF Inv
<1>3. \A l \in 1..Len(links) : links'[l].user = links[l].user /\ (Unused(l) => Unused(l)')
  BY DEF Unused
<1>4. QED
  BY <1>1, <1>2, <1>3, LocksKept

LEMMA IdleHolds == Idle.pc = "idle" /\ Idle.held = {} /\ MayHold(Idle) /\ \A l : ~Holds(Idle, l)
  BY DEF Idle, MayHold, Holds

\* The locks stay in order.
LEMMA LocksStep == Inv /\ Locks /\ [Next]_vars => Locks'
<1> SUFFICES ASSUME Inv, Locks, [Next]_vars PROVE Locks'
  OBVIOUS
<1>1. /\ DOMAIN links = 1..Len(links) /\ Len(links) \in Nat /\ Rows
      /\ \A p \in Requests : req[p] \in Request
  BY RowTypes DEF Inv
<1>2. \A l \in 1..Len(links) : UNCHANGED links =>
        links'[l].user = links[l].user /\ (Unused(l) => Unused(l)')
  BY DEF Unused
<1>3. ASSUME NEW r \in Requests, Arrive(r) PROVE Locks'
  <2> DEFINE Light(q) == /\ q.held = {} /\ Begin(r, q) /\ UNCHANGED links
                         /\ q.pc \notin {"claimed", "clearing", "invalidating"}
  <2>1. ASSUME NEW u, LoginBegin(r, u) PROVE \E q : Light(q)
    <3> WITNESS [Idle EXCEPT !.pc = "login", !.user = u]
    <3> QED BY <2>1 DEF LoginBegin, Idle
  <2>2. ASSUME NEW l, RedeemBegin(r, l) PROVE \E q : Light(q)
    <3> WITNESS [Idle EXCEPT !.pc = "redeem", !.link = l, !.user = links[l].user]
    <3> QED BY <2>2 DEF RedeemBegin, Idle
  <2>3. ASSUME NEW s, RevokeAllBegin(r, s) PROVE \E q : Light(q)
    <3> WITNESS [Idle EXCEPT !.pc = "revoke", !.user = sessions[s].user, !.sess = s]
    <3> QED BY <2>3 DEF RevokeAllBegin, Idle
  <2>4. ASSUME NEW s, ChangeBegin(r, s) PROVE \E q : Light(q)
    <3> WITNESS [Idle EXCEPT !.pc = "change", !.user = sessions[s].user, !.sess = s]
    <3> QED BY <2>4 DEF ChangeBegin, Idle
  <2>5. ASSUME NEW s, NEW u, ResetBegin(r, s, u) PROVE \E q : Light(q)
    <3> WITNESS [Idle EXCEPT !.pc = "reset", !.user = u, !.sess = s, !.seen = Len(links)]
    <3> QED BY <2>5 DEF ResetBegin, Idle
  <2>6. ASSUME NEW s, NEW u, NEW p, PatchBegin(r, s, u, p) PROVE \E q : Light(q)
    <3> WITNESS [Idle EXCEPT !.pc = "patch", !.user = u, !.sess = s, !.patch = p]
    <3> QED BY <2>6 DEF PatchBegin, Idle
  <2>7. ASSUME NEW s, NEW u, NEW p, CreateUserBegin(r, s, u, p) PROVE \E q : Light(q)
    <3> WITNESS [Idle EXCEPT !.pc = "create", !.user = u, !.sess = s, !.patch = p]
    <3> QED BY <2>7 DEF CreateUserBegin, Idle
  <2>8. ASSUME NEW s, NEW u, NEW p, InviteBegin(r, s, u, p) PROVE \E q : Light(q)
    <3> WITNESS [Idle EXCEPT !.pc = "invite", !.user = u, !.sess = s, !.patch = p]
    <3> QED BY <2>8 DEF InviteBegin, Idle
  <2> HIDE DEF Light
  <2>9. PICK q : Light(q)
    BY <1>3, <2>1, <2>2, <2>3, <2>4, <2>5, <2>6, <2>7, <2>8 DEF Arrive
  <2>10. QED
    BY <2>9, LocksDropped DEF Begin, Light
<1>4. ASSUME NEW r \in Requests, Answer(r), UNCHANGED links PROVE Locks'
  BY <1>4, IdleHolds, LocksDropped DEF Answer
<1>5. ASSUME NEW r \in Requests,
             \/ CreateSession(r) \/ DeleteUserSessions(r) \/ ChangePassword(r) \/ CreateUser(r)
             \/ PatchUser(r) \/ Abort(r)
      PROVE  Locks'
  BY <1>4, <1>5 DEF CreateSession, DeleteUserSessions, ChangePassword, CreateUser, PatchUser,
                    Abort
<1>7. ASSUME NEW r \in Requests, CreateInvite(r) PROVE Locks'
  <2>1. CASE UNCHANGED links
    BY <1>4, <1>7, <2>1 DEF CreateInvite
  <2>2. CASE links' = Append(links, NewLink(req[r].user, "invite"))
    <3>1. NewLink(req[r].user, "invite") \in Link
      BY <1>1, FieldTypes DEF NewLink, Link, Inv
    <3>2. /\ Len(links') = Len(links) + 1
          /\ \A l \in 1..Len(links) : links'[l] = links[l]
      BY <1>1, <2>2, <3>1, Appended DEF Rows
    <3>3. \A l \in 1..Len(links) : links'[l].user = links[l].user /\ (Unused(l) => Unused(l)')
      BY <3>2 DEF Unused
    <3>4. Len(links') \in Nat /\ Len(links) <= Len(links')
      BY <1>1, <3>2
    <3>5. req' = [req EXCEPT ![r] = Idle]
      BY <1>7 DEF CreateInvite, Answer
    <3>6. QED
      BY <3>3, <3>4, <3>5, IdleHolds, LocksKept
  <2>3. QED
    BY <1>7, <2>1, <2>2 DEF CreateInvite
<1>9. ASSUME NEW r \in Requests, CreateResetToken(r) \/ RedeemAccountToken(r) PROVE Locks'
  <2>1. Deleting(r) /\ req' = [req EXCEPT ![r] = Idle]
    BY <1>9 DEF CreateResetToken, RedeemAccountToken, Deleting, Answer
  <2>2. /\ Len(links') \in Nat /\ Len(links) <= Len(links')
        /\ \A l \in 1..Len(links) : links'[l] = Committed(r)[l]
    <3>1. Committed(r) \in Seq(Link) /\ Len(Committed(r)) = Len(links)
      BY <1>1, CommittedLinks
    <3>2. CASE links' = Committed(r)
      BY <1>1, <3>1, <3>2
    <3>3. CASE links' = Append(Committed(r), NewLink(req[r].user, "reset"))
      <4>1. NewLink(req[r].user, "reset") \in Link
        BY <1>1, FieldTypes DEF NewLink, Link
      <4>2. QED
        BY <1>1, <3>1, <3>3, <4>1, Appended
    <3>4. QED
      BY <1>9, <3>2, <3>3 DEF CreateResetToken, RedeemAccountToken
  <2>3. \A l \in 1..Len(links) : links'[l].user = links[l].user
                                 /\ (Unused(l) /\ ~LockedBy(r, l) => Unused(l)')
    BY <1>1, <2>1, <2>2, CommittedLinks DEF Unused
  <2>4. QED
    BY <2>1, <2>2, <2>3, IdleHolds, LocksKept
<1>10. ASSUME NEW r \in Requests, ChangeVerify(r) PROVE Locks'
  <2>1. CASE Answer(r)
    BY <1>4, <1>10, <2>1 DEF ChangeVerify
  <2>2. CASE \E h, e : Goto(r, [req[r] EXCEPT !.pc = "verified", !.hash = h, !.era = e])
    <3>1. PICK h, e : Goto(r, [req[r] EXCEPT !.pc = "verified", !.hash = h, !.era = e])
      BY <2>2
    <3> DEFINE q == [req[r] EXCEPT !.pc = "verified", !.hash = h, !.era = e]
    <3>2. q.pc = "verified"
      BY <1>1 DEF Request
    <3>3. req' = [req EXCEPT ![r] = q] /\ UNCHANGED links
      BY <1>10, <3>1 DEF Goto, ChangeVerify
    <3> HIDE DEF q
    <3>4. MayHold(q) /\ \A l : ~Holds(q, l)
      BY <3>2 DEF MayHold, Holds
    <3>5. Len(links') \in Nat /\ Len(links) <= Len(links')
      BY <1>1, <3>3
    <3>6. QED
      BY <1>2, <3>3, <3>4, <3>5, LocksKept
  <2>3. QED
    BY <1>10, <2>1, <2>2 DEF ChangeVerify
<1>11. ASSUME NEW r \in Requests, NEW q, req' = [req EXCEPT ![r] = q], UNCHANGED links,
              MayHold(q),
              \A l : Holds(q, l) => Unused(l) /\ \A p \in Requests : p # r => ~LockedBy(p, l)
       PROVE  Locks'
  <2>1. Len(links') \in Nat /\ Len(links) <= Len(links')
    BY <1>1, <1>11
  <2>2. \A l : Unused(l) => Unused(l)'
    BY <1>11 DEF Unused
  <2>3. QED
    BY <1>2, <1>11, <2>1, <2>2, LocksKept
<1>12. ASSUME NEW r \in Requests, Invalidate(r) PROVE Locks'
  <2> DEFINE q == [req[r] EXCEPT !.pc = "invalidating", !.doomed = DoomedBy(req[r].user)]
  <2>1. /\ q.pc = "invalidating" /\ q.held = req[r].held /\ q.user = req[r].user
        /\ q.doomed = DoomedBy(req[r].user)
    BY <1>1 DEF Request
  <2>2. req[r].held = {}
    BY <1>12 DEF Invalidate, Locks, LocksOK
  <2>3. req' = [req EXCEPT ![r] = q] /\ UNCHANGED links
    BY <1>12 DEF Invalidate, Goto
  <2> HIDE DEF q
  <2>4. MayHold(q)
    BY <1>1, <2>1, <2>2 DEF MayHold, DoomedBy
  <2>5. \A l : ~Holds(q, l)
    BY <2>1, <2>2 DEF Holds
  <2>6. QED
    BY <1>11, <2>3, <2>4, <2>5
<1>13. ASSUME NEW r \in Requests, ClaimLink(r) PROVE Locks'
  <2>1. CASE Answer(r)
    BY <1>4, <1>13, <2>1 DEF ClaimLink
  <2>2. CASE LinkWorks(req[r].link) /\ Goto(r, [req[r] EXCEPT !.pc = "claimed"])
    <3> DEFINE q == [req[r] EXCEPT !.pc = "claimed"]
    <3>1. q.pc = "claimed" /\ q.held = req[r].held /\ q.link = req[r].link
      BY <1>1 DEF Request
    <3>2. req[r].held = {} /\ req[r].pc = "redeem"
      BY <1>13 DEF ClaimLink, Locks, LocksOK
    <3>3. req' = [req EXCEPT ![r] = q] /\ UNCHANGED links
      BY <1>13, <2>2 DEF ClaimLink, Goto
    <3> HIDE DEF q
    <3>4. MayHold(q)
      BY <3>1, <3>2 DEF MayHold
    <3>5. \A p \in Requests : p # r => ~LockedBy(p, req[r].link)
      BY <1>13, <3>2 DEF ClaimLink, Waiting, Waits
    <3>6. \A l : Holds(q, l) => l = req[r].link
      BY <3>1, <3>2 DEF Holds
    <3>7. Unused(req[r].link)
      BY <2>2 DEF LinkWorks, Unused
    <3>8. QED
      BY <1>11, <3>3, <3>4, <3>5, <3>6, <3>7
  <2>3. QED
    BY <1>13, <2>1, <2>2 DEF ClaimLink
<1>14. ASSUME NEW r \in Requests, SetPassword(r) PROVE Locks'
  <2> DEFINE q == [req[r] EXCEPT !.pc = "clearing", !.seen = Len(links),
                                 !.doomed = Outstanding(req[r].user, req[r].link)]
  <2>1. /\ q.pc = "clearing" /\ q.held = req[r].held /\ q.user = req[r].user
        /\ q.link = req[r].link /\ q.doomed = Outstanding(req[r].user, req[r].link)
    BY <1>1 DEF Request
  <2>2. req[r].held = {} /\ req[r].pc = "claimed"
    BY <1>14 DEF SetPassword, Locks, LocksOK
  <2>3. req' = [req EXCEPT ![r] = q] /\ UNCHANGED links
    BY <1>14 DEF SetPassword, Goto
  <2> HIDE DEF q
  <2>4. MayHold(q)
    BY <1>1, <2>1, <2>2 DEF MayHold, Outstanding
  <2>5. LockedBy(r, req[r].link)
    BY <2>2 DEF LockedBy
  <2>6. \A l : Holds(q, l) => l = req[r].link
    BY <2>1, <2>2 DEF Holds
  <2>7. Unused(req[r].link) /\ \A p \in Requests : p # r => ~LockedBy(p, req[r].link)
    BY <2>5, LockedRows DEF Locks, LocksOK
  <2>8. QED
    BY <1>11, <2>3, <2>4, <2>6, <2>7
<1>15. ASSUME NEW r \in Requests, DeleteLink(r) PROVE Locks'
  <2>1. PICK d \in req[r].doomed :
          /\ IsNext(r, d)
          /\ Goto(r, [req[r] EXCEPT !.doomed = @ \ {d},
                                    !.held = IF Unused(d) THEN @ \cup {d} ELSE @])
    BY <1>15 DEF DeleteLink
  <2>2. PICK h : h = IF Unused(d) THEN req[r].held \cup {d} ELSE req[r].held
    OBVIOUS
  <2> DEFINE q == [req[r] EXCEPT !.doomed = @ \ {d}, !.held = h]
  <2>3. /\ q.pc = req[r].pc /\ q.held = h /\ q.user = req[r].user /\ q.link = req[r].link
        /\ q.doomed = req[r].doomed \ {d}
    BY <1>1 DEF Request
  <2>4. req' = [req EXCEPT ![r] = q] /\ UNCHANGED links
    BY <1>15, <2>1, <2>2 DEF DeleteLink, Goto
  <2> HIDE DEF q
  <2>5. Deleting(r) /\ req[r].pc \in {"invalidating", "clearing"}
    BY <2>1 DEF IsNext, Deleting
  <2>6. MayHold(q)
    BY <2>2, <2>3, <2>5 DEF MayHold, Locks, LocksOK
  <2>7. \A l : Holds(q, l) => LockedBy(r, l) \/ (l = d /\ Unused(l))
    BY <2>2, <2>3, <2>5 DEF Holds, LockedBy
  <2>8. \A p \in Requests : p # r => ~LockedBy(p, d)
    BY <1>15, <2>1 DEF DeleteLink, Waiting, Waits
  <2>9. \A l : LockedBy(r, l) => Unused(l) /\ \A p \in Requests : p # r => ~LockedBy(p, l)
    BY LockedRows DEF Locks, LocksOK
  <2>10. QED
    BY <1>11, <2>4, <2>6, <2>7, <2>8, <2>9
<1>16. ASSUME UNCHANGED req, Len(links') = Len(links),
              \A l \in 1..Len(links) : links'[l].user = links[l].user /\ (Unused(l) => Unused(l)')
       PROVE  Locks'
  BY <1>16 DEF Locks, LocksOK, LockedBy, Deleting
<1>17. CASE Boot
  <2>1. \A p \in Requests : req'[p] = Idle
    BY <1>17 DEF Boot
  <2>2. QED
    BY <2>1, IdleHolds DEF Locks, LocksOK, LockedBy, Deleting
<1>18. ASSUME NEW l \in DOMAIN links, ExpireLink(l) PROVE Locks'
  <2>1. links[l] \in Link
    BY <1>1, RowTypes
  <2>2. /\ [links[l] EXCEPT !.row = "expired"] \in Link
        /\ [links[l] EXCEPT !.row = "expired"].user = links[l].user
        /\ [links[l] EXCEPT !.row = "expired"].row = "expired"
    BY <2>1 DEF Link
  <2>3. links' = [links EXCEPT ![l] = [links[l] EXCEPT !.row = "expired"]]
    BY <1>18 DEF ExpireLink
  <2>4. Len(links') = Len(links) /\ \A i \in 1..Len(links) :
          links'[i] = IF i = l THEN [links[l] EXCEPT !.row = "expired"] ELSE links[i]
    BY <1>1, <2>2, <2>3, ExceptSeq DEF Rows
  <2>5. \A i \in 1..Len(links) : links'[i].user = links[i].user /\ (Unused(i) => Unused(i)')
    BY <2>2, <2>4 DEF Unused
  <2>6. QED
    BY <1>16, <1>18, <2>4, <2>5 DEF ExpireLink
<1>19. CASE UNCHANGED <<req, links>>
  BY <1>2, <1>16, <1>19
<1>20. ASSUME NEW r \in Requests, Step(r) PROVE Locks'
  BY <1>5, <1>7, <1>9, <1>10, <1>12, <1>13, <1>14, <1>15, <1>20 DEF Step
<1>21. QED
  BY <1>3, <1>17, <1>18, <1>19, <1>20 DEF Next, Logout, ExpireSession, vars

LEMMA LocksInvariance == Spec => []Locks
<1>1. Init => Locks
  BY IdleHolds DEF Init, Locks, LocksOK, LockedBy, Deleting
<1>2. QED
  BY <1>1, LocksStep, Invariance, PTL DEF Spec

----------------------------------------------------------------------------
(* The theorems. *)

\* The types, the bounds of the tables included, follow.
LEMMA InvTypeOK == Inv => TypeOK
<1> SUFFICES ASSUME Inv PROVE TypeOK
  OBVIOUS
<1>1. Rows /\ Counts
  BY DEF Inv
<1>2. Cardinality(Running) \in Nat /\ Len(sessions) \in Nat /\ Len(links) \in Nat
  BY <1>1, FS_CardinalityType, RowTypes DEF Counts
<1>3. /\ Len(sessions) <= served /\ Len(links) <= served /\ served \in 0..MaxRequests
  BY <1>1, <1>2, AccountsAssumption DEF Counts
<1>4. QED
  BY <1>1, <1>3, RowTypes DEF TypeOK, Rows

\* No session outlives a change of its account that ends sessions, and every
\* variable has its type: for any number of accounts and of requests at the
\* same time (DeleteUserSessions, ChangePassword, setUserDisabled,
\* RedeemAccountToken).
THEOREM SessionsEndWithTheirEra == Spec => []NoSessionOutlivesRevocation
<1>1. Inv => NoSessionOutlivesRevocation
  <2> SUFFICES ASSUME Inv PROVE NoSessionOutlivesRevocation
    OBVIOUS
  <2>1. DOMAIN sessions = 1..Len(sessions) /\ TypeOK
    BY RowTypes, InvTypeOK DEF Inv
  <2>2. QED
    BY <2>1 DEF Inv, LiveAtEra, NoSessionOutlivesRevocation, RequireAuth, GetSessionUser
<1>2. QED
  BY <1>1, Invariance, PTL

\* A link that has been redeemed or superseded never works again, whatever
\* redeems and resets of the account run at the same time
\* (RedeemAccountToken, CreateResetToken).
THEOREM LinksDieForGood == Spec => []DeadLinksStayDead
<1>1. Inv => DeadLinksStayDead
  BY DEF Inv
<1>2. QED
  BY <1>1, Invariance, PTL

\* An administrator who can sign in remains, unless a patch landed whose caller
\* had lost the role on the way: the refusal of PatchUser to let administrators
\* lock themselves out is enough, whatever else runs at the same time.
THEOREM AnAdminRemains == Spec => []AdminRemains
<1>1. Inv => AdminRemains
  BY DEF Inv
<1>2. QED
  BY <1>1, Invariance, PTL

\* A password change lands only in the era that the password was compared in,
\* and from a session of that era (ChangePassword).
THEOREM ChangesStayInTheirEra == Spec => NoChangeAcrossRevocation
<1>1. ASSUME Inv, [Next]_vars, NEW r \in Requests, ChangesPassword(r)
      PROVE  LET era == users[req[r].user].era IN
             req[r].era = era /\ sessions[req[r].sess].born = era
  <2> DEFINE u == req[r].user
  <2>1. req[r].pc = "verified" /\ req'[r].pc = "idle" /\ users'[u].hash # users[u].hash
    BY <1>1 DEF ChangesPassword
  <2>2. /\ u \in Users /\ req[r].sess \in 1..Len(sessions)
        /\ sessions[req[r].sess].user = u /\ users[u].there
    BY <1>1, <2>1, FieldTypes
       DEF Inv, RequestOK, NamesRows, WithSession, OwnSession, RowsHaveUsers, Member
  <2>3. StillEntitled(r)
    <3>1. req'[r] # req[r] /\ Busy(r)
      BY <2>1 DEF Busy
    <3>2. ASSUME Boot PROVE FALSE
      BY <1>1, <2>1, <2>2, <3>2 DEF Inv, Rows, Boot, Created
    <3>3. ASSUME NEW p \in Requests, Arrive(p) PROVE FALSE
      <4>1. PICK q : Begin(p, q)
        BY <3>3 DEF Arrive, LoginBegin, RedeemBegin, RevokeAllBegin, ChangeBegin, ResetBegin,
                    PatchBegin, CreateUserBegin, InviteBegin
      <4>2. QED
        BY <1>1, <3>1, <4>1 DEF Inv, Rows, Begin, Busy
    <3>4. ASSUME NEW p \in Requests, Step(p) PROVE StillEntitled(r)
      <4>1. \E q : req' = [req EXCEPT ![p] = q]
        BY <3>4 DEF Step, Goto, Answer, CreateSession, DeleteUserSessions, ChangeVerify,
                    ChangePassword, CreateUser, CreateInvite, PatchUser, Invalidate,
                    CreateResetToken, DeleteLink, ClaimLink, SetPassword,
                    RedeemAccountToken, Abort
      <4>2. p = r
        BY <1>1, <3>1, <4>1 DEF Inv, Rows
      <4>3. ChangePassword(r)
        BY <2>1, <3>4, <4>2
           DEF Step, CreateSession, DeleteUserSessions, ChangeVerify, CreateUser, CreateInvite,
               PatchUser, Invalidate, CreateResetToken, DeleteLink, ClaimLink, SetPassword,
                    RedeemAccountToken, Abort
      <4>4. QED
        BY <2>1, <4>3 DEF ChangePassword
    <3>5. CASE \/ \E s \in DOMAIN sessions : Logout(s) \/ ExpireSession(s)
               \/ \E l \in DOMAIN links : ExpireLink(l)
               \/ UNCHANGED vars
      BY <3>1, <3>5 DEF Logout, ExpireSession, ExpireLink, vars
    <3>6. QED
      BY <1>1, <3>2, <3>3, <3>4, <3>5 DEF Next
  <2>4. QED
    BY <1>1, <2>1, <2>2, <2>3 DEF Inv, RequestOK, ComparedAtEra, LiveAtEra, StillEntitled
<1>2. Inv /\ [Next]_vars =>
        [\A r \in Requests : ChangesPassword(r) =>
           LET era == users[req[r].user].era IN
           req[r].era = era /\ sessions[req[r].sess].born = era]_vars
  BY <1>1
<1>3. QED
  BY <1>2, Invariance, PTL DEF Spec, NoChangeAcrossRevocation

\* A redeem or a reset fails for a deadlock only where two links of the account
\* are unused, for any number of requests at the same time (CreateResetToken,
\* RedeemAccountToken): whoever is in a circle needs a link that another has
\* locked, and holds one of its own that somebody needs.
THEOREM OneLinkNeverDeadlocks == Spec => []DeadlockNeedsTwoLinks
<1>1. ASSUME Inv, Locks, NEW r \in Requests, Deadlocked(r)
      PROVE  \E k, l \in DOMAIN links :
               /\ k # l /\ Unused(k) /\ Unused(l)
               /\ links[k].user = req[r].user /\ links[l].user = req[r].user
  <2>1. PICK p \in Requests, q \in Requests : Waits(r, p) /\ Waits(q, r)
    BY <1>1 DEF Deadlocked
  <2>2. p # r /\ q # r /\ DOMAIN links = 1..Len(links)
    BY <1>1, <2>1, RowTypes DEF Waits, Inv
  <2>3. ASSUME NEW s \in Requests, NEW l, LockedBy(s, l)
        PROVE  /\ l \in DOMAIN links /\ links[l].user = req[s].user /\ Unused(l)
               /\ \A t \in Requests : t # s => ~LockedBy(t, l)
    BY <1>1, <2>2, <2>3, LockedRows DEF Locks, LocksOK
  <2>4. AccountLockedBy(r, req[q].user) \/ \E l : LockedBy(r, l)
    BY <2>1 DEF Waits
  <2>5. PICK k : LockedBy(r, k)
    BY <2>4 DEF AccountLockedBy, LockedBy
  <2>6. k \in DOMAIN links /\ links[k].user = req[r].user /\ Unused(k) /\ ~LockedBy(p, k)
    BY <2>2, <2>3, <2>5
  <2>7. \E l : LockedBy(p, l) /\ links[l].user = req[r].user
    <3>1. CASE req[r].pc = "redeem" /\ LockedBy(p, req[r].link)
      BY <2>5, <3>1 DEF LockedBy, Deleting
    <3>2. CASE AccountLockedBy(p, req[r].user)
      <4>1. LockedBy(p, req[p].link) /\ req[p].user = req[r].user
        BY <3>2 DEF AccountLockedBy, LockedBy
      <4>2. QED
        BY <2>3, <4>1
    <3>3. CASE \E l \in req[r].doomed : IsNext(r, l) /\ LockedBy(p, l)
      BY <1>1, <3>3 DEF IsNext, Locks, LocksOK
    <3>4. QED
      BY <2>1, <3>1, <3>2, <3>3 DEF Waits
  <2>8. QED
    BY <2>3, <2>6, <2>7
<1>2. Inv /\ Locks => DeadlockNeedsTwoLinks
  BY <1>1 DEF DeadlockNeedsTwoLinks
<1>3. QED
  BY <1>2, Invariance, LocksInvariance, PTL

============================================================================
