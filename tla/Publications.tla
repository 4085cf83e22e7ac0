---------------------------- MODULE Publications ----------------------------
(***************************************************************************)
(* Drafts, their compiles and their publications: an owner edits a draft,   *)
(* compiles it, publishes the latest compile if it is current, unpublishes  *)
(* and deletes; anybody reads a publication.                                *)
(*                                                                         *)
(* A transaction's timestamps are those of its start (PostgreSQL's now()),  *)
(* and it may then wait for the draft's row lock.  The clock is the one of  *)
(* the database; two transactions do not start in the same microsecond.     *)
(* All drafts run over one alignment, whose geometry can be corrected.      *)
(***************************************************************************)
EXTENDS Naturals, FiniteSets

CONSTANTS
  Services,     \* ids of drafts
  JobIds,       \* compile job ids; bounds the compiles of a run
  None,         \* neither a job id nor a draft's
  Requests,     \* owners' requests running at the same time
  Readers,      \* GET .../publication requests running at the same time
  Policies,     \* boarding wait policies a deploy can configure
  MaxTime,      \* bound: transactions with a timestamp
  MaxLine       \* bound: corrections of the alignment

ASSUME PublicationsAssumption ==
  /\ Services # {} /\ None \notin JobIds \cup Services
  /\ Policies # {}
  /\ MaxTime \in Nat /\ MaxLine \in Nat

VARIABLES
  draft,    \* user_services
  jobs,     \* compile jobs of user services
  pub,      \* service_publications, one row per service or none
  line,     \* the geometry of the alignment, as a version
  policy,   \* the boarding wait policy the handlers were registered with
  req,      \* the owners' edits and publishes
  reader,   \* the public reads: the publication each one has loaded
  now       \* the database's clock

vars == <<draft, jobs, pub, line, policy, req, reader, now>>

Draft == [state : {"none", "there", "gone"}, version : Nat, updated : Nat]
Job   == [status : {"none", "queued", "running", "succeeded", "failed", "gone"},
          svc : Services \cup {None}, created : Nat, version : Nat, line : Nat, policy : Policies]
Publication == [job : JobIds \cup {None}, version : Nat, line : Nat, at : Nat]
Request == [pc : {"idle", "edit", "publish", "locked", "decided"}, svc : Services \cup {None},
            stamp : Nat, version : Nat, job : JobIds \cup {None}, line : Nat]

AnyPolicy   == CHOOSE w \in Policies : TRUE
NoDraft     == [state |-> "none", version |-> 0, updated |-> 0]
NotAJob     == [status |-> "none", svc |-> None, created |-> 0, version |-> 0,
                line |-> 0, policy |-> AnyPolicy]
Unpublished == [job |-> None, version |-> 0, line |-> 0, at |-> 0]
IdleRequest == [pc |-> "idle", svc |-> None, stamp |-> 0, version |-> 0,
                job |-> None, line |-> 0]
NotReading  == [svc |-> None, pub |-> Unpublished]

Init ==
  /\ draft = [s \in Services |-> NoDraft]
  /\ jobs = [j \in JobIds |-> NotAJob]
  /\ pub = [s \in Services |-> Unpublished]
  /\ line = 0
  /\ policy = AnyPolicy
  /\ req = [r \in Requests |-> IdleRequest]
  /\ reader = [q \in Readers |-> NotReading]
  /\ now = 0

There(s)  == draft[s].state = "there"
Published == {s \in Services : pub[s].job # None}

\* Mutant of Locked: the draft is read without FOR UPDATE.
LockedByNobody(s) == FALSE

\* A publish holds the draft's row from its SELECT ... FOR UPDATE to its end.
Locked(s) == \E r \in Requests : req[r].pc \in {"locked", "decided"} /\ req[r].svc = s

\* A transaction that writes timestamps starts.
Stamped == now < MaxTime /\ now' = now + 1

Answer(r) == req' = [req EXCEPT ![r] = IdleRequest]

----------------------------------------------------------------------------
(* Drafts. *)

CreateUserService(s) ==
  /\ draft[s].state = "none"
  /\ draft' = [draft EXCEPT ![s] = [state |-> "there", version |-> 1, updated |-> now]]
  /\ UNCHANGED <<jobs, pub, line, policy, req, reader, now>>

\* UpdateService has loaded the draft and judged the request; its transaction
\* begins ...
EditBegin(r, s) ==
  /\ req[r].pc = "idle"
  /\ There(s)
  /\ Stamped
  /\ req' = [req EXCEPT ![r] = [IdleRequest EXCEPT !.pc = "edit", !.svc = s,
                                                   !.stamp = now + 1]]
  /\ UNCHANGED <<draft, jobs, pub, line, policy, reader>>

\* ... and updates the row once no publish holds it.
EditCommit(r) ==
  LET s == req[r].svc IN
  /\ req[r].pc = "edit"
  /\ ~Locked(s)
  /\ \/ /\ There(s)
        /\ draft' = [draft EXCEPT ![s] = [state |-> "there", updated |-> req[r].stamp,
                                          version |-> draft[s].version + 1]]
     \/ /\ ~There(s)
        /\ UNCHANGED draft
  /\ Answer(r)
  /\ UNCHANGED <<jobs, pub, line, policy, reader, now>>

\* The service, with its jobs and its publication (ON DELETE CASCADE).
DeleteUserService(s) ==
  /\ There(s) /\ ~Locked(s)
  /\ draft' = [draft EXCEPT ![s] = [NoDraft EXCEPT !.state = "gone"]]
  /\ jobs' = [j \in JobIds |-> IF jobs[j].status # "none" /\ jobs[j].svc = s
                               THEN [NotAJob EXCEPT !.status = "gone"] ELSE jobs[j]]
  /\ pub' = [pub EXCEPT ![s] = Unpublished]
  /\ UNCHANGED <<line, policy, req, reader, now>>

\* The alignment's geometry is corrected; no draft is touched.
UpdateRoute ==
  /\ line < MaxLine
  /\ line' = line + 1
  /\ UNCHANGED <<draft, jobs, pub, policy, req, reader, now>>

\* A deploy with another BOARDING_WAIT_POLICY.
Redeploy(w) ==
  /\ policy # w
  /\ policy' = w
  /\ UNCHANGED <<draft, jobs, pub, line, req, reader, now>>

----------------------------------------------------------------------------
(* Compiles of one service. *)

CreateJob(j, s) ==
  /\ jobs[j].status = "none"
  /\ There(s)
  /\ Stamped
  /\ jobs' = [jobs EXCEPT ![j] = [@ EXCEPT !.status = "queued", !.svc = s,
                                           !.created = now + 1]]
  /\ UNCHANGED <<draft, pub, line, policy, req, reader>>

\* compileUserService loads the draft and its alignment, and resolves the
\* boarding wait.
LoadService(j) ==
  /\ jobs[j].status = "queued"
  /\ jobs' = [jobs EXCEPT ![j] = [@ EXCEPT !.status = "running", !.line = line,
                                           !.version = draft[jobs[j].svc].version,
                                           !.policy = policy]]
  /\ UNCHANGED <<draft, pub, line, policy, req, reader, now>>

CompleteJob(j) ==
  /\ jobs[j].status = "running"
  /\ jobs' = [jobs EXCEPT ![j] = [@ EXCEPT !.status = "succeeded"]]
  /\ UNCHANGED <<draft, pub, line, policy, req, reader, now>>

\* The compile fails, or its process dies and the row is swept.  (A row that is
\* swept and completed all the same, see CompileJobs, is one that stays running
\* here: publishing looks at neither.)
FailJob(j) ==
  /\ jobs[j].status \in {"queued", "running"}
  /\ jobs' = [jobs EXCEPT ![j] = [NotAJob EXCEPT !.status = "failed", !.svc = jobs[j].svc,
                                                 !.created = jobs[j].created]]
  /\ UNCHANGED <<draft, pub, line, policy, req, reader, now>>

----------------------------------------------------------------------------
(* Publishing. *)

Succeeded(s) == {j \in JobIds : jobs[j].status = "succeeded" /\ jobs[j].svc = s}

\* Mutant of LatestSucceeded: the lookup forgets whose compile it is after.
LatestOfAnyone(s) ==
  {j \in JobIds : /\ jobs[j].status = "succeeded"
                  /\ \A k \in JobIds : jobs[k].status = "succeeded"
                                         => jobs[k].created <= jobs[j].created}

LatestSucceeded(s) ==
  {j \in Succeeded(s) : \A k \in Succeeded(s) : jobs[k].created <= jobs[j].created}

\* GraphStale for one service: edited after the job was created, or compiled
\* under another boarding wait.  (Every compile here names the alignment of its
\* edges, and compiled the one service it is of.  A service with a boarding wait
\* of its own, which boardingWaitStale compares in place of the deployment's, is
\* left out.)
GraphStale(j) ==
  \/ draft[jobs[j].svc].updated > jobs[j].created
  \/ jobs[j].policy # policy

PublishBegin(r, s) ==
  /\ req[r].pc = "idle"
  /\ There(s)
  /\ Stamped
  /\ req' = [req EXCEPT ![r] = [IdleRequest EXCEPT !.pc = "publish", !.svc = s,
                                                   !.stamp = now + 1]]
  /\ UNCHANGED <<draft, jobs, pub, line, policy, reader>>

PublishLock(r) ==
  LET s == req[r].svc IN
  /\ req[r].pc = "publish"
  /\ There(s) /\ ~Locked(s)
  /\ req' = [req EXCEPT ![r] = [@ EXCEPT !.pc = "locked", !.version = draft[s].version]]
  /\ UNCHANGED <<draft, jobs, pub, line, policy, reader, now>>

\* PublicationFromLockedDraft: the latest compile, current, and a copy of the
\* alignment its edges name.
PublishDecide(r) ==
  /\ req[r].pc = "locked"
  /\ \E j \in LatestSucceeded(req[r].svc) :
       /\ ~GraphStale(j)
       /\ req' = [req EXCEPT ![r] = [@ EXCEPT !.pc = "decided", !.job = j,
                                              !.line = line]]
  /\ UNCHANGED <<draft, jobs, pub, line, policy, reader, now>>

\* Mutant of Upsert: a republish keeps the old published_at.
UpsertUnstamped(r, old) ==
  [job |-> req[r].job, version |-> req[r].version, line |-> req[r].line,
   at |-> IF old.job = None THEN req[r].stamp ELSE old.at]

\* upsertPublication replaces every copied column, published_at included; the
\* order of first publications is PublishedIndex's.
Upsert(r, old) ==
  [job |-> req[r].job, version |-> req[r].version, line |-> req[r].line,
   at |-> req[r].stamp]

PublishCommit(r) ==
  LET s == req[r].svc IN
  /\ req[r].pc = "decided"
  /\ pub' = [pub EXCEPT ![s] = Upsert(r, pub[s])]
  /\ Answer(r)
  /\ UNCHANGED <<draft, jobs, line, policy, reader, now>>

\* 409 stale_graph, no such service, an error, or the caller or the process
\* goes away: the transaction is rolled back.
Abort(r) ==
  /\ req[r].pc # "idle"
  /\ Answer(r)
  /\ UNCHANGED <<draft, jobs, pub, line, policy, reader, now>>

\* Mutant of UnpublishUserService: the pinned compile goes with its pin.
UnpublishWithCompile(s) ==
  /\ There(s) /\ ~Locked(s)
  /\ pub[s].job # None
  /\ jobs' = [jobs EXCEPT ![pub[s].job] = [NotAJob EXCEPT !.status = "gone"]]
  /\ pub' = [pub EXCEPT ![s] = Unpublished]
  /\ UNCHANGED <<draft, line, policy, req, reader, now>>

UnpublishUserService(s) ==
  /\ There(s) /\ ~Locked(s)
  /\ pub[s].job # None
  /\ pub' = [pub EXCEPT ![s] = Unpublished]
  /\ UNCHANGED <<draft, jobs, line, policy, req, reader, now>>

----------------------------------------------------------------------------
(* Public reads. *)

\* GetServicePublicationBySlug.
LoadPublication(q, s) ==
  /\ s \in Published
  /\ reader[q] = NotReading
  /\ reader' = [reader EXCEPT ![q] = [svc |-> s, pub |-> pub[s]]]
  /\ UNCHANGED <<draft, jobs, pub, line, policy, req, now>>

\* loadPinnedGraph finds the pinned job, or answers 404; PublicationIsochrone
\* goes on with the graph, GetServicePublication answers it.
LoadPinnedGraph(q) ==
  /\ reader[q] # NotReading
  /\ reader' = [reader EXCEPT ![q] = NotReading]
  /\ UNCHANGED <<draft, jobs, pub, line, policy, req, now>>

----------------------------------------------------------------------------
ServiceStep(s) ==
  CreateUserService(s) \/ DeleteUserService(s) \/ UnpublishUserService(s)

JobStep(j) ==
  \/ \E s \in Services : CreateJob(j, s)
  \/ LoadService(j) \/ CompleteJob(j) \/ FailJob(j)

RequestStep(r) ==
  \/ \E s \in Services : EditBegin(r, s) \/ PublishBegin(r, s)
  \/ EditCommit(r) \/ PublishLock(r) \/ PublishDecide(r) \/ PublishCommit(r)
  \/ Abort(r)

ReaderStep(q) ==
  \/ \E s \in Services : LoadPublication(q, s)
  \/ LoadPinnedGraph(q)

Next ==
  \/ \E s \in Services : ServiceStep(s)
  \/ \E j \in JobIds : JobStep(j)
  \/ \E r \in Requests : RequestStep(r)
  \/ \E q \in Readers : ReaderStep(q)
  \/ \E w \in Policies : Redeploy(w)
  \/ UpdateRoute

Spec == Init /\ [][Next]_vars

----------------------------------------------------------------------------
(* Properties. *)

\* Every variable has its type.
TypeOK ==
  /\ draft \in [Services -> Draft]
  /\ jobs \in [JobIds -> Job]
  /\ pub \in [Services -> Publication]
  /\ line \in Nat /\ policy \in Policies /\ now \in Nat
  /\ req \in [Requests -> Request]
  /\ reader \in [Readers -> [svc : Services \cup {None}, pub : Publication]]

\* What is published is pinned to a compile of its own service that succeeded
\* and is still there, however edits, recompiles and deletions interleave with
\* the publish (service_publications' foreign keys, LatestSucceededCompileJob).
\* (With the types.)
PinHolds == TypeOK /\ \A s \in Published : There(s) /\ pub[s].job \in Succeeded(s)

\* Publishing is atomic: the lock makes the staleness check, the copy of the
\* draft and the write one step (PublishUserService, UnpublishUserService).
Register == INSTANCE PublicationRegister
              WITH graphs <- {[job |-> j, svc |-> jobs[j].svc, created |-> jobs[j].created] :
                                j \in {k \in JobIds : jobs[k].status = "succeeded"}},
                   shown <- [s \in Services |-> [job |-> pub[s].job,
                                                 version |-> pub[s].version]]
ImplementsRegister == Register!RegisterSpec

\* A public read that found a publication finds its graph, unless the service
\* was deleted in between; a republish or an unpublish does not disturb it
\* (loadPinnedGraph).
ReaderFindsGraph ==
  \A q \in Readers : reader[q] # NotReading /\ There(reader[q].svc)
                       => reader[q].pub.job \in Succeeded(reader[q].svc)

\* The ETag of GetServicePublication is built from the pin and published_at:
\* when both are what a client has, so is the whole snapshot.
SameETagSameSnapshot ==
  \A q \in Readers :
    LET old == reader[q].pub
        new == pub[reader[q].svc] IN
    reader[q] # NotReading /\ old.job = new.job /\ old.at = new.at
      => old.version = new.version /\ old.line = new.line

----------------------------------------------------------------------------
(* What the documents say that the code does not keep. *)

\* ADR-0005: "an edit made while a compile was running marks that compile
\* stale rather than being missed": the prose published beside a graph is the
\* prose of the draft the graph was compiled from.
EditIsNotMissed ==
  \A s \in Published : jobs[pub[s].job].version = pub[s].version

============================================================================
