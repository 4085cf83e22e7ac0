---------------------------- MODULE RoutingJobs ----------------------------
(***************************************************************************)
(* The life of a routing job: the isochrone endpoints admit a request under *)
(* the backlog cap, answer it from an earlier job or insert a row and       *)
(* publish it; the routing worker writes the outcome back over             *)
(* /api/internal; a poll fails a row that nobody finished; the retention    *)
(* sweep clears old results.                                                *)
(*                                                                         *)
(* Every database statement is one step.  A handler that makes several      *)
(* calls is a process with a program counter, so other handlers, the worker *)
(* and the clock run between two of its statements.                         *)
(***************************************************************************)
EXTENDS Naturals, FiniteSets

CONSTANTS
  Requests,      \* isochrone handlers that can be running at the same time
  Polls,         \* GET /api/routing-jobs/{id} handlers running at the same time
  JobIds,        \* routing job ids (ids.NewUUID); bounds the jobs of a run
  Keys,          \* what makes two requests the same question: compile job,
                 \* mode, budget and origin rounded to five places
  Targets,       \* the services and scenarios that can be deleted, each as the
                 \* set of the keys of its compiles
  Owners,        \* owner_id values, NULL included as one of them
  Stamps,        \* tileset_at values the worker can report (positive)
  Rollovers,     \* reusable_until values the worker can report (positive)
  NoJob,         \* not a job id: a handler that holds none
  Limit,         \* MAX_INFLIGHT_ISOCHRONES; 0 disables the cap
  StaleAfter,    \* RoutingJobStaleAfter, in clock units
  RetainFor,     \* RoutingJobResultRetentionDays, in clock units
  LastInsert,    \* bound: no row is inserted after this time
  MaxTime,       \* bound: the clock stops here
  MaxFailOpen    \* bound: how often the backlog count may fail

ASSUME RoutingJobsAssumption ==
  /\ IsFiniteSet(Requests) /\ IsFiniteSet(JobIds)
  /\ Stamps \subseteq Nat \ {0} /\ Rollovers \subseteq Nat \ {0}
  /\ Targets \subseteq SUBSET Keys
  /\ Keys # {} /\ Owners # {} /\ NoJob \notin JobIds
  /\ Limit \in Nat /\ StaleAfter \in Nat /\ RetainFor \in Nat
  /\ LastInsert \in Nat /\ MaxTime \in Nat /\ MaxFailOpen \in Nat

VARIABLES
  rows,       \* the routing_jobs table
  msg,        \* where each job's queue message is
  req,        \* the isochrone handlers
  poll,       \* the poll handlers, each with the stale job it is about to fail
  gone,       \* the keys whose compile was deleted with its target
  now,        \* the clock
  failOpen    \* requests admitted because the backlog could not be counted

vars == <<rows, msg, req, poll, gone, now, failOpen>>

NullStamp == 0          \* tileset_at IS NULL
NoBound   == 0          \* reusable_until IS NULL

Unfinished == {"queued", "running"}
Terminal   == {"succeeded", "failed"}
Present    == Unfinished \cup Terminal
Statuses   == {"none", "deleted"} \cup Present

Row == [status : Statuses, key : Keys, owner : Owners, created : Nat,
        updated : Nat, result : {"null", "geojson"},
        tileset : {NullStamp} \cup Stamps, until : {NoBound} \cup Rollovers]

\* A message is not sent, waiting in the queue, held by the worker before its
\* running call, held while it computes, or settled.
MsgStates == {"unsent", "ready", "held", "computing", "settled"}

\* Where an isochrone handler is.  A free one has answered, and is idle or
\* still shows the job it was answered from.
Working == {"admitted", "missed", "created", "unpublished"}
Free    == {"idle", "reused"}

----------------------------------------------------------------------------
(* The questions the SQL asks of the table. *)

\* Mutant of InFlight: a backlog count without the age bound.
InFlightOfAnyAge == {j \in JobIds : rows[j].status \in Unfinished}

\* countInFlightRoutingJobs: unfinished and created within StaleAfter.
InFlight == {j \in JobIds : /\ rows[j].status \in Unfinished
                            /\ now < rows[j].created + StaleAfter}

\* max(tileset_at) over the succeeded rows, NULL stamps ignored.
IsNewestStamp(t) ==
  /\ t # NullStamp
  /\ \A j \in JobIds : rows[j].status = "succeeded" => rows[j].tileset <= t

\* findReusableRoutingJobSQL, before its ORDER BY.
Reusable(key, owner) ==
  {j \in JobIds : /\ rows[j].status = "succeeded"
                  /\ rows[j].key = key
                  /\ rows[j].owner = owner
                  /\ rows[j].until = NoBound \/ rows[j].until > now
                  /\ IsNewestStamp(rows[j].tileset)}

\* ORDER BY updated_at DESC LIMIT 1.
Latest(J) == {j \in J : \A k \in J : rows[k].updated <= rows[j].updated}

----------------------------------------------------------------------------
(* Updates of one row.  The unguarded ones match whatever the row holds; no  *)
(* update matches a row that was deleted with its compile.                  *)

\* FailRoutingJob: status and updated_at; result and stamps stay.
Failed(j) ==
  IF rows[j].status \in Present
  THEN [rows EXCEPT ![j] = [@ EXCEPT !.status = "failed", !.updated = now]]
  ELSE rows

\* Mutants of CanStart: a guard that forgets failed rows, and none at all.
CanStartFailed(j) == rows[j].status \in Present \ {"succeeded"}
CanStartAnything(j) == rows[j].status \in Present

\* MarkRoutingJobRunning matches only rows that are not terminal.
CanStart(j) == rows[j].status \in Present \ Terminal

\* SucceedRoutingJob: no guard on the status the row had.
Succeeded(j, t, u) ==
  IF rows[j].status \in Present
  THEN [rows EXCEPT ![j] = [@ EXCEPT !.status = "succeeded", !.result = "geojson",
                                     !.updated = now, !.tileset = t, !.until = u]]
  ELSE rows

AbsentRow == [status |-> "none", key |-> CHOOSE k \in Keys : TRUE,
              owner |-> CHOOSE o \in Owners : TRUE, created |-> 0,
              updated |-> 0, result |-> "null", tileset |-> NullStamp,
              until |-> NoBound]
IdleRequest == [pc |-> "idle", key |-> AbsentRow.key, owner |-> AbsentRow.owner,
                job |-> NoJob]

Init ==
  /\ rows = [j \in JobIds |-> AbsentRow]
  /\ msg = [j \in JobIds |-> "unsent"]
  /\ req = [r \in Requests |-> IdleRequest]
  /\ poll = [p \in Polls |-> NoJob]
  /\ gone = {}
  /\ now = 0
  /\ failOpen = 0

----------------------------------------------------------------------------
(* The isochrone handlers.                                                  *)

Goto(r, pc) == req' = [req EXCEPT ![r] = [@ EXCEPT !.pc = pc]]
Answer(r)   == req' = [req EXCEPT ![r] = IdleRequest]

\* CapIsochroneBacklog, then the handler's own checks up to enqueueIsochrone.
Admitted(r, k, o) ==
  /\ req[r].pc \in Free
  /\ req' = [req EXCEPT ![r] = [@ EXCEPT !.pc = "admitted", !.key = k,
                                         !.owner = o, !.job = NoJob]]
  /\ UNCHANGED <<rows, msg, poll, gone, now>>

\* Mutant of Admit: the cap compared with <=.
AdmitOneTooMany(r, k, o) ==
  /\ Limit = 0 \/ Cardinality(InFlight) <= Limit
  /\ Admitted(r, k, o)
  /\ UNCHANGED failOpen

Admit(r, k, o) ==
  /\ Limit = 0 \/ Cardinality(InFlight) < Limit
  /\ Admitted(r, k, o)
  /\ UNCHANGED failOpen

\* A backlog that cannot be counted admits the request.
AdmitUncounted(r, k, o) ==
  /\ Limit > 0
  /\ failOpen < MaxFailOpen
  /\ Admitted(r, k, o)
  /\ failOpen' = failOpen + 1

\* 429 backlog_full.
Refuse(r) ==
  /\ req[r].pc \in Free
  /\ Limit > 0 /\ Cardinality(InFlight) >= Limit
  /\ Answer(r)
  /\ UNCHANGED <<rows, msg, poll, gone, now, failOpen>>

\* 404, 409, 422 or 500: no such target, no or a stale compiled graph, bad
\* parameters, or an origin out of range: the handler answers before it looks
\* for an earlier job.
Reject(r) ==
  /\ req[r].pc = "admitted"
  /\ Answer(r)
  /\ UNCHANGED <<rows, msg, poll, gone, now, failOpen>>

\* FindReusableRoutingJob hits: 200 with the earlier job.
Reuse(r) ==
  /\ req[r].pc = "admitted"
  /\ \E j \in Latest(Reusable(req[r].key, req[r].owner)) :
       req' = [req EXCEPT ![r] = [@ EXCEPT !.pc = "reused", !.job = j]]
  /\ UNCHANGED <<rows, msg, poll, gone, now, failOpen>>

\* It misses, or the lookup fails, which only loses the shortcut.
Miss(r) ==
  /\ req[r].pc = "admitted"
  /\ Goto(r, "missed")
  /\ UNCHANGED <<rows, msg, poll, gone, now, failOpen>>

\* Mutant of Create: an insert whose error is ignored.
CreateIgnoringError(r, j) ==
  /\ req[r].pc = "missed"
  /\ rows[j].status = "none"
  /\ now <= LastInsert
  /\ req' = [req EXCEPT ![r] = [@ EXCEPT !.pc = "created", !.job = j]]
  /\ UNCHANGED <<rows, msg, poll, gone, now, failOpen>>

\* CreateRoutingJob inserts the row as queued; its compile must still exist.
Create(r, j) ==
  /\ req[r].pc = "missed"
  /\ rows[j].status = "none"
  /\ now <= LastInsert
  /\ req[r].key \notin gone
  /\ rows' = [rows EXCEPT ![j] = [AbsentRow EXCEPT
                !.status = "queued", !.key = req[r].key, !.owner = req[r].owner,
                !.created = now, !.updated = now]]
  /\ req' = [req EXCEPT ![r] = [@ EXCEPT !.pc = "created", !.job = j]]
  /\ UNCHANGED <<msg, poll, gone, now, failOpen>>

\* No id or no insert: 500, and no row.
CreateError(r) ==
  /\ req[r].pc = "missed"
  /\ Answer(r)
  /\ UNCHANGED <<rows, msg, poll, gone, now, failOpen>>

Publish(r) ==
  /\ req[r].pc = "created"
  /\ msg' = [msg EXCEPT ![req[r].job] = "ready"]
  /\ Answer(r)
  /\ UNCHANGED <<rows, poll, gone, now, failOpen>>

\* Publish returns an error; the broker may have the message all the same,
\* when the confirm was what did not arrive.
PublishError(r) ==
  /\ req[r].pc = "created"
  /\ \/ msg' = [msg EXCEPT ![req[r].job] = "ready"]
     \/ UNCHANGED msg
  /\ Goto(r, "unpublished")
  /\ UNCHANGED <<rows, poll, gone, now, failOpen>>

\* failUnpublishedJob, then 502.  An error of the write is only logged.
FailUnpublished(r) ==
  /\ req[r].pc = "unpublished"
  /\ \/ rows' = Failed(req[r].job)
     \/ UNCHANGED rows
  /\ Answer(r)
  /\ UNCHANGED <<msg, poll, gone, now, failOpen>>

\* The process stops, or the caller goes away and the next store call fails.
Abandon(r) ==
  /\ req[r].pc \in Working
  /\ Answer(r)
  /\ UNCHANGED <<rows, msg, poll, gone, now, failOpen>>

----------------------------------------------------------------------------
(* The routing worker and the three calls it makes.  One worker, prefetch   *)
(* 1: it holds one message, calls running, computes and reports; a 404 to   *)
(* running makes it drop the message.  A crash hands the message back.      *)

Holding == \E j \in JobIds : msg[j] \in {"held", "computing"}

Take(j) ==
  /\ msg[j] = "ready" /\ ~Holding
  /\ msg' = [msg EXCEPT ![j] = "held"]
  /\ UNCHANGED <<rows, req, poll, gone, now, failOpen>>

WorkerMarkRunning(j) ==
  /\ msg[j] = "held"
  /\ \/ /\ CanStart(j)
        /\ rows' = [rows EXCEPT ![j] = [@ EXCEPT !.status = "running",
                                                 !.updated = now]]
        /\ msg' = [msg EXCEPT ![j] = "computing"]
     \/ /\ ~CanStart(j)
        /\ msg' = [msg EXCEPT ![j] = "settled"]
        /\ UNCHANGED rows
  /\ UNCHANGED <<req, poll, gone, now, failOpen>>

\* The worker settles the message, or dies before it does.
WorkerMarkSucceeded(j, t, u) ==
  /\ msg[j] = "computing"
  /\ rows' = Succeeded(j, t, u)
  /\ \E m \in {"settled", "ready"} : msg' = [msg EXCEPT ![j] = m]
  /\ UNCHANGED <<req, poll, gone, now, failOpen>>

WorkerMarkFailed(j) ==
  /\ msg[j] = "computing"
  /\ rows' = Failed(j)
  /\ \E m \in {"settled", "ready"} : msg' = [msg EXCEPT ![j] = m]
  /\ UNCHANGED <<req, poll, gone, now, failOpen>>

WorkerCrash(j) ==
  /\ msg[j] \in {"held", "computing"}
  /\ msg' = [msg EXCEPT ![j] = "ready"]
  /\ UNCHANGED <<rows, req, poll, gone, now, failOpen>>

----------------------------------------------------------------------------
(* RoutingJobStatus.  The row is read, failIfStale judges it by what was    *)
(* read and writes without looking again.  A poll that reads a terminal or  *)
(* young row answers and changes nothing.                                   *)

\* Mutant of Stale: a job the worker started is never given up on.
StaleOnlyQueued(j) == /\ rows[j].status = "queued"
                      /\ now > rows[j].created + StaleAfter

Stale(j) == /\ rows[j].status \in Unfinished
            /\ now > rows[j].created + StaleAfter

PollReadsStale(p, j) ==
  /\ poll[p] = NoJob
  /\ Stale(j)
  /\ poll' = [poll EXCEPT ![p] = j]
  /\ UNCHANGED <<rows, msg, req, gone, now, failOpen>>

PollFail(p) ==
  /\ poll[p] # NoJob
  /\ rows' = Failed(poll[p])
  /\ poll' = [poll EXCEPT ![p] = NoJob]
  /\ UNCHANGED <<msg, req, gone, now, failOpen>>

\* The write fails, or the caller goes away: the row stays as it is.
PollFailError(p) ==
  /\ poll[p] # NoJob
  /\ poll' = [poll EXCEPT ![p] = NoJob]
  /\ UNCHANGED <<rows, msg, req, gone, now, failOpen>>

----------------------------------------------------------------------------
\* Mutant of Expired: the age is counted from the insert of the row.
ExpiredSinceInserted(j) == /\ rows[j].status \in Terminal
                           /\ rows[j].result = "geojson"
                           /\ rows[j].created + RetainFor < now

\* ApplyRetention's second statement (clearRoutingJobResultSQL).
Expired(j) == /\ rows[j].status \in Terminal
              /\ rows[j].result = "geojson"
              /\ rows[j].updated + RetainFor < now

ApplyRetention ==
  /\ \E j \in JobIds : Expired(j)
  /\ rows' = [j \in JobIds |-> IF Expired(j)
                               THEN [rows[j] EXCEPT !.result = "null"]
                               ELSE rows[j]]
  /\ UNCHANGED <<msg, req, poll, gone, now, failOpen>>

\* A service or scenario is deleted: its compile jobs and their routing jobs go
\* with it (ON DELETE CASCADE); queued messages and running handlers stay.
DeleteTarget(T) ==
  /\ ~ T \subseteq gone
  /\ gone' = gone \cup T
  /\ rows' = [j \in JobIds |->
                IF rows[j].status \in Present /\ rows[j].key \in T
                THEN [rows[j] EXCEPT !.status = "deleted", !.result = "null"]
                ELSE rows[j]]
  /\ UNCHANGED <<msg, req, poll, now, failOpen>>

Tick ==
  /\ now < MaxTime
  /\ now' = now + 1
  /\ UNCHANGED <<rows, msg, req, poll, gone, failOpen>>

RequestStep(r) ==
  \/ \E k \in Keys, o \in Owners : Admit(r, k, o) \/ AdmitUncounted(r, k, o)
  \/ Refuse(r) \/ Reject(r) \/ Reuse(r) \/ Miss(r)
  \/ \E j \in JobIds : Create(r, j)
  \/ CreateError(r) \/ Publish(r) \/ PublishError(r) \/ FailUnpublished(r)
  \/ Abandon(r)

WorkerStep(j) ==
  \/ Take(j) \/ WorkerMarkRunning(j) \/ WorkerMarkFailed(j) \/ WorkerCrash(j)
  \/ \E t \in {NullStamp} \cup Stamps, u \in {NoBound} \cup Rollovers :
       WorkerMarkSucceeded(j, t, u)

PollStep(p) ==
  \/ \E j \in JobIds : PollReadsStale(p, j)
  \/ PollFail(p) \/ PollFailError(p)

Next ==
  \/ \E r \in Requests : RequestStep(r)
  \/ \E j \in JobIds : WorkerStep(j)
  \/ \E p \in Polls : PollStep(p)
  \/ \E T \in Targets : DeleteTarget(T)
  \/ ApplyRetention
  \/ Tick

Spec == Init /\ [][Next]_vars

\* The clock runs; neither the worker nor the handlers owe anything.
ClockSpec == Spec /\ WF_vars(Tick)

----------------------------------------------------------------------------
(* Properties. *)

Request == [pc : Working \cup Free, key : Keys, owner : Owners,
            job : JobIds \cup {NoJob}]

\* Every variable has its type, and every row, request and poll its shape.
TypeOK ==
  /\ rows \in [JobIds -> Row]
  /\ msg \in [JobIds -> MsgStates]
  /\ req \in [Requests -> Request]
  /\ poll \in [Polls -> JobIds \cup {NoJob}]
  /\ gone \subseteq Keys
  /\ now \in Nat
  /\ failOpen \in Nat

\* Requests that passed the cap and have not inserted their row yet.
Uncounted == {r \in Requests : req[r].pc \in {"admitted", "missed"}}

\* CapIsochroneBacklog counts before enqueueIsochrone inserts, so requests
\* admitted together overshoot the cap; the jobs in flight and those still on
\* their way exceed it by at most the handlers that can run at once less one,
\* plus the requests admitted because the count failed.
BacklogBounded ==
  Limit > 0 => Cardinality(InFlight) + Cardinality(Uncounted)
                 < Limit + Cardinality(Requests) + failOpen

\* Nobody works on a row that is not there: the handler inserts the row before
\* it publishes, so a message, a handler about to publish or to fail its job,
\* and a poll about to fail a job all name an inserted row; and the worker
\* computes only jobs whose running call was accepted.
WorkHasRow ==
  /\ \A j \in JobIds : msg[j] # "unsent" => rows[j].status # "none"
  /\ \A j \in JobIds : msg[j] = "computing" => rows[j].status # "queued"
  /\ \A r \in Requests : req[r].pc \in {"created", "unpublished"} =>
       req[r].job \in JobIds /\ rows[req[r].job].status # "none"
  /\ \A p \in Polls : poll[p] # NoJob => rows[poll[p]].status # "none"

\* A job the API failed before the worker's running call (an unconfirmed
\* publish, a stale poll) stays failed, and one deleted with its compile stays
\* deleted: the 404 to running makes the late worker drop it
\* (MarkRoutingJobRunning).
LateWorkerCannotRevive ==
  [][\A j \in JobIds :
       /\ rows[j].status = "failed" /\ msg[j] # "computing"
            => rows'[j].status \in {"failed", "deleted"}
       /\ rows[j].status = "deleted" => rows'[j].status = "deleted"]_vars

\* The statuses and sent messages are those of RoutingJobLifecycle.
Lifecycle == INSTANCE RoutingJobLifecycle
               WITH status <- [j \in JobIds |-> rows[j].status],
                    sent <- {j \in JobIds : msg[j] # "unsent"}
ImplementsLifecycle == Lifecycle!LifecycleSpec

\* A dead worker does not wedge the cap shut: with nobody finishing or polling
\* a job the backlog falls below the cap again as jobs age out of the count.
CapReopens == []<>(Limit > 0 => Cardinality(InFlight) < Limit)

\* Every stale job is polled again and again, and the poll's write does not
\* fail every time.
PolledAgain ==
  /\ \A j \in JobIds : SF_vars(\E p \in Polls : PollReadsStale(p, j))
  /\ \A p \in Polls : SF_vars(PollFail(p))

\* As long as clients poll, a job that nobody finishes, its message lost
\* included, is failed once it is older than RoutingJobStaleAfter (failIfStale).
StaleJobIsFailed ==
  PolledAgain => \A j \in JobIds :
    rows[j].status \in Unfinished ~> rows[j].status \in Terminal \cup {"deleted"}

\* retention.go: a result written recently survives the sweep even if its row
\* was inserted long ago, so a handler that reuses a job of that age, its
\* lookup not asking for a result, has one to answer with.
FreshReuseHasResult ==
  [][\A r \in Requests : req[r].pc = "admitted" /\ req'[r].pc = "reused" =>
       LET row == rows[req'[r].job]
       IN  row.result = "geojson" \/ row.updated + RetainFor < now]_vars

----------------------------------------------------------------------------
(* What the documents and tests say of the reuse lookup and of terminal      *)
(* statuses.  The code keeps neither; the README says how.                   *)

\* CONTEXT.md: succeeded and failed are terminal, and the 404 to running is
\* how a job the API gave up on stops a late worker from reviving it.
TerminalIsFinal ==
  [][\A j \in JobIds : rows[j].status \in Terminal
                         => rows'[j].status \in {rows[j].status, "deleted"}]_vars

\* docs/retention.md: a NULL result must be treated as a miss by the lookup.
ReusedHasResult ==
  [][\A r \in Requests : req[r].pc = "admitted" /\ req'[r].pc = "reused"
                           => rows[req'[r].job].result = "geojson"]_vars

============================================================================
