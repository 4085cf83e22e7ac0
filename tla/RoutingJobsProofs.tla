------------------------- MODULE RoutingJobsProofs -------------------------
(***************************************************************************)
(* Theorems about RoutingJobs, for any number of handlers, polls, jobs and  *)
(* any cap, deadlines and clock bound, and about AMQPPublisher, through     *)
(* which a handler publishes its job, for any number of publishes.          *)
(***************************************************************************)
EXTENDS RoutingJobs, AMQPPublisher, FiniteSetTheorems, TLAPS

\* AbsentRow and IdleRequest are well-formed: Keys and Owners are not empty.
LEMMA DefaultTypes == AbsentRow \in Row /\ IdleRequest \in Request
<1>1. (CHOOSE k \in Keys : TRUE) \in Keys /\ (CHOOSE o \in Owners : TRUE) \in Owners
  BY RoutingJobsAssumption
<1>2. QED
  BY <1>1 DEF AbsentRow, IdleRequest, Row, Request, Statuses, Present, NullStamp, NoBound,
              Free, Unfinished, Terminal

\* Updating a row the way the store does leaves a well-formed table.
LEMMA RowUpdateTypes ==
  ASSUME TypeOK, NEW j \in JobIds
  PROVE  /\ Failed(j) \in [JobIds -> Row]
         /\ \A t \in {NullStamp} \cup Stamps, u \in {NoBound} \cup Rollovers :
              Succeeded(j, t, u) \in [JobIds -> Row]
<1>1. rows[j] \in Row /\ now \in Nat
  BY DEF TypeOK
<1>2. [rows[j] EXCEPT !.status = "failed", !.updated = now] \in Row
  BY <1>1 DEF Row, Statuses, Present, Terminal
<1>3. ASSUME NEW t \in {NullStamp} \cup Stamps, NEW u \in {NoBound} \cup Rollovers
      PROVE  [rows[j] EXCEPT !.status = "succeeded", !.result = "geojson",
                !.updated = now, !.tileset = t, !.until = u] \in Row
  BY <1>1 DEF Row, Statuses, Present, Terminal
<1>4. QED
  BY <1>2, <1>3 DEF Failed, Succeeded, TypeOK

\* Moving a handler on, or answering, leaves well-formed handlers.
LEMMA RequestUpdateTypes ==
  ASSUME TypeOK, NEW r \in Requests
  PROVE  /\ \A l \in Working \cup Free :
              [req EXCEPT ![r] = [@ EXCEPT !.pc = l]] \in [Requests -> Request]
         /\ [req EXCEPT ![r] = IdleRequest] \in [Requests -> Request]
         /\ \A l \in Working \cup Free, j \in JobIds :
              [req EXCEPT ![r] = [@ EXCEPT !.pc = l, !.job = j]]
                \in [Requests -> Request]
<1>1. req[r] \in Request /\ req \in [Requests -> Request]
  BY DEF TypeOK
<1>2. ASSUME NEW l \in Working \cup Free
      PROVE  /\ [req[r] EXCEPT !.pc = l] \in Request
             /\ \A j \in JobIds : [req[r] EXCEPT !.pc = l, !.job = j] \in Request
  BY <1>1 DEF Request
<1>3. \A l \in Working \cup Free :
        [req EXCEPT ![r] = [@ EXCEPT !.pc = l]] \in [Requests -> Request]
  BY <1>1, <1>2
<1>4. [req EXCEPT ![r] = IdleRequest] \in [Requests -> Request]
  BY <1>1, DefaultTypes
<1>5. \A l \in Working \cup Free, j \in JobIds :
        [req EXCEPT ![r] = [@ EXCEPT !.pc = l, !.job = j]]
          \in [Requests -> Request]
  BY <1>1, <1>2
<1>6. QED
  BY <1>3, <1>4, <1>5

\* The initial state is well-formed.
LEMMA InitTypeOK == Init => TypeOK
  BY DefaultTypes, RoutingJobsAssumption
  DEF Init, TypeOK, MsgStates, NullStamp

\* A step of an isochrone handler keeps the types.
LEMMA RequestStepTypeOK ==
  ASSUME TypeOK, WorkHasRow, NEW r \in Requests, RequestStep(r)
  PROVE  TypeOK'
<1> USE DefaultTypes DEF TypeOK
<1>1. CASE \E k \in Keys, o \in Owners : Admit(r, k, o) \/ AdmitUncounted(r, k, o)
  <2>1. PICK k \in Keys, o \in Owners : Admit(r, k, o) \/ AdmitUncounted(r, k, o)
    BY <1>1
  <2>2. Admitted(r, k, o) /\ failOpen' \in Nat
    BY <2>1 DEF Admit, AdmitUncounted
  <2>3. [req[r] EXCEPT !.pc = "admitted", !.key = k, !.owner = o, !.job = NoJob]
          \in Request
    BY DEF Request, Working
  <2>4. QED
    BY <2>2, <2>3 DEF Admitted
<1>2. CASE Refuse(r) \/ Reject(r) \/ CreateError(r) \/ Abandon(r)
  BY <1>2, RequestUpdateTypes DEF Refuse, Reject, CreateError, Abandon, Answer
<1>3. CASE Miss(r)
  BY <1>3, RequestUpdateTypes DEF Miss, Goto, Working
<1>4. CASE Reuse(r)
  <2>1. PICK j \in JobIds : req' = [req EXCEPT ![r] = [@ EXCEPT !.pc = "reused",
                                                               !.job = j]]
    BY <1>4 DEF Reuse, Latest, Reusable
  <2>2. req' \in [Requests -> Request]
    BY <2>1, RequestUpdateTypes DEF Free
  <2>3. QED
    BY <1>4, <2>2 DEF Reuse
<1>5. CASE \E j \in JobIds : Create(r, j)
  <2>1. PICK j \in JobIds : Create(r, j)
    BY <1>5
  <2>2. [AbsentRow EXCEPT !.status = "queued", !.key = req[r].key,
           !.owner = req[r].owner, !.created = now, !.updated = now] \in Row
    BY DEF Request, Row, AbsentRow, Statuses, Present, Unfinished, NullStamp, NoBound
  <2>3. rows' \in [JobIds -> Row]
    BY <2>1, <2>2 DEF Create
  <2>4. req' \in [Requests -> Request]
    BY <2>1, RequestUpdateTypes DEF Create, Working
  <2>5. QED
    BY <2>1, <2>3, <2>4 DEF Create
<1>6. CASE Publish(r) \/ PublishError(r)
  <2>1. req' \in [Requests -> Request]
    <3>1. Answer(r) \/ Goto(r, "unpublished")
      BY <1>6 DEF Publish, PublishError
    <3>2. CASE Answer(r)
      BY <3>2, RequestUpdateTypes DEF Answer
    <3>3. CASE Goto(r, "unpublished")
      BY <3>3, RequestUpdateTypes DEF Goto, Working
    <3>4. QED
      BY <3>1, <3>2, <3>3
  <2>2. msg' \in [JobIds -> MsgStates]
    BY <1>6 DEF Publish, PublishError, MsgStates
  <2>3. QED
    BY <1>6, <2>1, <2>2 DEF Publish, PublishError
<1>7. CASE FailUnpublished(r)
  <2>1. req[r].job \in JobIds
    BY <1>7 DEF FailUnpublished, WorkHasRow
  <2>2. Failed(req[r].job) \in [JobIds -> Row]
    BY <2>1, RowUpdateTypes
  <2>3. QED
    BY <1>7, <2>2 DEF FailUnpublished, Answer
<1>8. QED
  BY <1>1, <1>2, <1>3, <1>4, <1>5, <1>6, <1>7 DEF RequestStep

\* A step of the worker keeps the types.
LEMMA WorkerStepTypeOK ==
  ASSUME TypeOK, NEW j \in JobIds, WorkerStep(j)
  PROVE  TypeOK'
<1> USE DEF TypeOK
<1>1. CASE Take(j) \/ WorkerCrash(j)
  BY <1>1 DEF Take, WorkerCrash, MsgStates
<1>2. CASE WorkerMarkRunning(j)
  <2>1. [rows[j] EXCEPT !.status = "running", !.updated = now] \in Row
    BY DEF Row, Statuses, Present, Unfinished
  <2>2. QED
    BY <1>2, <2>1 DEF WorkerMarkRunning, MsgStates
<1>3. CASE WorkerMarkFailed(j)
  <2>1. Failed(j) \in [JobIds -> Row]
    BY RowUpdateTypes
  <2>2. QED
    BY <1>3, <2>1 DEF WorkerMarkFailed, MsgStates
<1>4. CASE \E t \in {NullStamp} \cup Stamps, u \in {NoBound} \cup Rollovers :
             WorkerMarkSucceeded(j, t, u)
  <2>1. PICK t \in {NullStamp} \cup Stamps, u \in {NoBound} \cup Rollovers :
               WorkerMarkSucceeded(j, t, u)
    BY <1>4
  <2>2. Succeeded(j, t, u) \in [JobIds -> Row]
    BY RowUpdateTypes
  <2>3. QED
    BY <2>1, <2>2 DEF WorkerMarkSucceeded, MsgStates
<1>5. QED
  BY <1>1, <1>2, <1>3, <1>4 DEF WorkerStep

\* A step of a poll, the sweep or the clock keeps the types.
LEMMA OtherStepTypeOK ==
  ASSUME TypeOK, \/ \E p \in Polls : PollStep(p)
                 \/ \E T \in Targets : DeleteTarget(T)
                 \/ ApplyRetention
                 \/ Tick
                 \/ UNCHANGED vars
  PROVE  TypeOK'
<1> USE DEF TypeOK
<1>1. CASE \E p \in Polls : PollStep(p)
  <2>1. PICK p \in Polls : PollStep(p)
    BY <1>1
  <2>2. CASE PollFail(p)
    <3>1. Failed(poll[p]) \in [JobIds -> Row]
      BY <2>2, RowUpdateTypes DEF PollFail
    <3>2. QED
      BY <2>2, <3>1 DEF PollFail
  <2>3. CASE PollFailError(p) \/ \E j \in JobIds : PollReadsStale(p, j)
    BY <2>3 DEF PollFailError, PollReadsStale
  <2>4. QED
    BY <2>1, <2>2, <2>3 DEF PollStep
<1>2. CASE ApplyRetention
  <2>1. ASSUME NEW j \in JobIds PROVE [rows[j] EXCEPT !.result = "null"] \in Row
    BY DEF Row
  <2>2. QED
    BY <1>2, <2>1 DEF ApplyRetention
<1>3. CASE \E T \in Targets : DeleteTarget(T)
  <2>1. PICK T \in Targets : DeleteTarget(T)
    BY <1>3
  <2>2. ASSUME NEW j \in JobIds
        PROVE  [rows[j] EXCEPT !.status = "deleted", !.result = "null"] \in Row
    BY DEF Row, Statuses
  <2>3. rows' \in [JobIds -> Row] /\ gone' \subseteq Keys
    BY <2>1, <2>2, RoutingJobsAssumption DEF DeleteTarget
  <2>4. QED
    BY <2>1, <2>3 DEF DeleteTarget
<1>4. CASE Tick
  BY <1>4 DEF Tick
<1>5. CASE UNCHANGED vars
  BY <1>5 DEF vars
<1>6. QED
  BY <1>1, <1>2, <1>3, <1>4, <1>5

----------------------------------------------------------------------------
\* Deleting a target deletes the rows of its keys and changes no other.
LEMMA DeletedRows ==
  ASSUME TypeOK, NEW T \in Targets, DeleteTarget(T), NEW j \in JobIds
  PROVE  /\ rows'[j].status = IF rows[j].status \in Present /\ rows[j].key \in T
                              THEN "deleted" ELSE rows[j].status
         /\ rows'[j].created = rows[j].created
<1>1. rows[j] \in Row
  BY DEF TypeOK
<1>2. /\ [rows[j] EXCEPT !.status = "deleted", !.result = "null"].status = "deleted"
      /\ [rows[j] EXCEPT !.status = "deleted", !.result = "null"].created
           = rows[j].created
  BY <1>1 DEF Row
<1>3. QED
  BY <1>2 DEF DeleteTarget

\* A poll that writes fails one row; the others change none.
LEMMA PolledRows ==
  ASSUME TypeOK, NEW p \in Polls, PollStep(p)
  PROVE  \/ UNCHANGED rows
         \/ \E k \in JobIds : rows' = Failed(k)
  BY DEF PollStep, PollReadsStale, PollFail, PollFailError, TypeOK

\* Failing one row leaves every status as it is or makes it failed, and no
\* deleted or absent row is touched.
LEMMA FailedRows ==
  ASSUME TypeOK, NEW k \in JobIds, rows' = Failed(k), NEW j \in JobIds
  PROVE  \/ rows'[j] = rows[j]
         \/ rows'[j].status = "failed" /\ rows[j].status \in Present
<1>1. [rows[k] EXCEPT !.status = "failed", !.updated = now].status = "failed"
  BY DEF TypeOK, Row
<1>2. QED
  BY <1>1 DEF Failed, TypeOK

\* FailRoutingJob leaves a row alone or fails it, and it was there.
LEMMA FailedRow ==
  ASSUME TypeOK, NEW k, NEW j \in JobIds
  PROVE  \/ Failed(k)[j] = rows[j]
         \/ /\ rows[j].status \in Present
            /\ Failed(k)[j].status = "failed" /\ Failed(k)[j].created = rows[j].created
<1>1. CASE rows[k].status \in Present /\ j = k
  <2>1. Failed(k)[j] = [rows[j] EXCEPT !.status = "failed", !.updated = now]
    BY <1>1 DEF Failed, TypeOK
  <2>2. rows[j] \in Row
    BY DEF TypeOK
  <2>3. QED
    BY <1>1, <2>1, <2>2 DEF Row
<1>2. CASE ~(rows[k].status \in Present /\ j = k)
  BY <1>2 DEF Failed, TypeOK
<1>3. QED
  BY <1>1, <1>2

\* How one step changes the table: a row is inserted by Create and never
\* removed, and only Create makes a row queued.
LEMMA RowsStep ==
  ASSUME TypeOK, WorkHasRow, [Next]_vars, NEW j \in JobIds
  PROVE  /\ rows[j].status # "none" => rows'[j].status # "none"
         /\ rows'[j].status = "queued" /\ rows[j].status # "none"
              => rows[j].status = "queued"
<1>1. CASE \E r \in Requests : RequestStep(r)
  <2>1. PICK r \in Requests : RequestStep(r)
    BY <1>1
  <2>2. CASE \E k \in JobIds : Create(r, k)
    BY <2>2 DEF Create, TypeOK
  <2>3. CASE FailUnpublished(r)
    BY <2>3, FailedRow DEF FailUnpublished, Present, Unfinished, Terminal
  <2>4. CASE UNCHANGED rows
    BY <2>4
  <2>5. QED
    BY <2>1, <2>2, <2>3, <2>4 DEF RequestStep, Admit, AdmitUncounted, Admitted,
       Refuse, Reject, Reuse, Miss, CreateError, Publish, PublishError, Abandon
<1>2. CASE \E k \in JobIds : WorkerStep(k)
  <2>1. PICK k \in JobIds : WorkerStep(k)
    BY <1>2
  <2>2. CASE Take(k) \/ WorkerCrash(k)
    BY <2>2 DEF Take, WorkerCrash
  <2>3. CASE WorkerMarkRunning(k)
    BY <2>3, ZenonT(60) DEF WorkerMarkRunning, TypeOK, Row
  <2>4. CASE WorkerMarkFailed(k)
    BY <2>4 DEF WorkerMarkFailed, Failed, TypeOK, Row
  <2>5. CASE \E t \in {NullStamp} \cup Stamps, u \in {NoBound} \cup Rollovers :
               WorkerMarkSucceeded(k, t, u)
    BY <2>5 DEF WorkerMarkSucceeded, Succeeded, TypeOK, Row
  <2>6. QED
    BY <2>1, <2>2, <2>3, <2>4, <2>5 DEF WorkerStep
<1>3. CASE \E p \in Polls : PollStep(p)
  BY <1>3, PolledRows, FailedRows
<1>4. CASE ApplyRetention
  BY <1>4 DEF ApplyRetention, TypeOK, Row
<1>d. CASE \E T \in Targets : DeleteTarget(T)
  BY <1>d, DeletedRows
<1>5. CASE Tick \/ UNCHANGED vars
  BY <1>5 DEF Tick, vars
<1>6. QED
  BY <1>1, <1>2, <1>3, <1>4, <1>d, <1>5 DEF Next

\* One step keeps WorkHasRow.
LEMMA StepWorkHasRow ==
  ASSUME TypeOK, WorkHasRow, [Next]_vars
  PROVE  WorkHasRow'
<1>0. \A j \in JobIds : rows[j].status # "none" => rows'[j].status # "none"
  BY RowsStep
<1>q. \A j \in JobIds : rows'[j].status = "queued" /\ rows[j].status # "none"
                          => rows[j].status = "queued"
  BY RowsStep
<1>1. CASE \E r \in Requests : RequestStep(r)
  <2>1. PICK r \in Requests : RequestStep(r)
    BY <1>1
  <2>2. CASE \E j \in JobIds : Create(r, j)
    BY <2>2, <1>0, <1>q DEF Create, WorkHasRow, TypeOK, AbsentRow, Request, Row
  <2>3. CASE Publish(r) \/ PublishError(r)
    BY <2>3, <1>0, <1>q DEF Publish, PublishError, Answer, Goto, IdleRequest,
       WorkHasRow, TypeOK, Request
  <2>4. CASE FailUnpublished(r)
    BY <2>4, <1>0, <1>q DEF FailUnpublished, Answer, IdleRequest, WorkHasRow, TypeOK
  <2>5. CASE Refuse(r) \/ Reject(r) \/ CreateError(r) \/ Abandon(r)
    BY <2>5 DEF Refuse, Reject, CreateError, Abandon, Answer, IdleRequest,
       WorkHasRow, TypeOK
  <2>6. CASE Miss(r) \/ Reuse(r)
    <3>1. UNCHANGED <<rows, msg, poll>>
      BY <2>6 DEF Miss, Reuse
    <3>2. req'[r].pc \notin {"created", "unpublished"}
      BY <2>6 DEF Miss, Goto, Reuse, TypeOK, Request
    <3>3. \A q \in Requests : q # r => req'[q] = req[q]
      BY <2>6 DEF Miss, Goto, Reuse, TypeOK
    <3>4. QED
      BY <3>1, <3>2, <3>3 DEF WorkHasRow
  <2>7. CASE \E k \in Keys, o \in Owners : Admit(r, k, o) \/ AdmitUncounted(r, k, o)
    <3>1. PICK k \in Keys, o \in Owners : Admitted(r, k, o)
      BY <2>7 DEF Admit, AdmitUncounted
    <3>2. req'[r].pc = "admitted" /\ \A q \in Requests : q # r => req'[q] = req[q]
      BY <3>1 DEF Admitted, TypeOK, Request
    <3>3. QED
      BY <3>1, <3>2 DEF Admitted, WorkHasRow
  <2>8. QED
    BY <2>1, <2>2, <2>3, <2>4, <2>5, <2>6, <2>7 DEF RequestStep
<1>2. CASE \E k \in JobIds : WorkerStep(k)
  <2>1. PICK k \in JobIds : WorkerStep(k)
    BY <1>2
  <2>2. CASE Take(k) \/ WorkerCrash(k)
    BY <2>2 DEF Take, WorkerCrash, WorkHasRow, TypeOK
  <2>3. CASE WorkerMarkRunning(k)
    <3>1. msg'[k] = "computing" => rows'[k].status = "running"
      BY <2>3, ZenonT(60) DEF WorkerMarkRunning, TypeOK, Row
    <3>2. \A j \in JobIds : j # k => msg'[j] = msg[j]
      BY <2>3 DEF WorkerMarkRunning, TypeOK
    <3>3. msg[k] # "unsent"
      BY <2>3 DEF WorkerMarkRunning
    <3>4. req' = req /\ poll' = poll
      BY <2>3 DEF WorkerMarkRunning
    <3>5. QED
      BY <1>0, <1>q, <3>1, <3>2, <3>3, <3>4 DEF WorkHasRow, TypeOK
  <2>4. CASE WorkerMarkFailed(k)
    BY <2>4, <1>0, <1>q DEF WorkerMarkFailed, WorkHasRow, TypeOK
  <2>5. CASE \E t \in {NullStamp} \cup Stamps, u \in {NoBound} \cup Rollovers :
               WorkerMarkSucceeded(k, t, u)
    BY <2>5, <1>0, <1>q DEF WorkerMarkSucceeded, WorkHasRow, TypeOK
  <2>6. QED
    BY <2>1, <2>2, <2>3, <2>4, <2>5 DEF WorkerStep
<1>3. CASE \E p \in Polls : PollStep(p)
  BY <1>3, <1>0, <1>q DEF PollStep, PollReadsStale, PollFail, PollFailError, Stale,
     Unfinished, WorkHasRow, TypeOK
<1>4. CASE ApplyRetention
  BY <1>4, <1>0, <1>q DEF ApplyRetention, WorkHasRow, TypeOK
<1>d. CASE \E T \in Targets : DeleteTarget(T)
  <2>1. UNCHANGED <<msg, req, poll>>
    BY <1>d DEF DeleteTarget
  <2>2. QED
    BY <2>1, <1>0, <1>q DEF WorkHasRow, TypeOK
<1>5. CASE Tick \/ UNCHANGED vars
  BY <1>5 DEF Tick, vars, WorkHasRow
<1>6. QED
  BY <1>1, <1>2, <1>3, <1>4, <1>d, <1>5 DEF Next

\* TypeOK and WorkHasRow together are inductive.
LEMMA StepInvariant == TypeOK /\ WorkHasRow /\ [Next]_vars => TypeOK' /\ WorkHasRow'
<1> SUFFICES ASSUME TypeOK, WorkHasRow, [Next]_vars PROVE TypeOK'
  BY StepWorkHasRow
<1>1. QED
  BY RequestStepTypeOK, WorkerStepTypeOK, OtherStepTypeOK DEF Next

\* Type correctness, and that no handler, poll or worker ever writes to a row
\* that was not inserted and the worker computes only accepted jobs: the order
\* insert, publish, running call, result holds in every interleaving.
THEOREM RoutingJobsInvariant == Spec => [](TypeOK /\ WorkHasRow)
<1>1. Init => TypeOK /\ WorkHasRow
  <2>1. Init => WorkHasRow
    BY DEF Init, WorkHasRow, IdleRequest
  <2>2. QED
    BY <2>1, InitTypeOK
<1>2. QED
  BY <1>1, StepInvariant, PTL DEF Spec

\* A job failed before its running call was accepted is never turned back into
\* anything else by the worker, and a deleted one never comes back.
THEOREM LateWorker == Spec => LateWorkerCannotRevive
<1> DEFINE Ok(j) ==
      /\ rows[j].status = "failed" /\ msg[j] # "computing"
           => rows'[j].status \in {"failed", "deleted"}
      /\ rows[j].status = "deleted" => rows'[j].status = "deleted"
<1>1. ASSUME TypeOK, WorkHasRow, [Next]_vars, NEW j \in JobIds
      PROVE  Ok(j)
  <2>1. CASE \E r \in Requests : RequestStep(r)
    <3>1. PICK r \in Requests : RequestStep(r)
      BY <2>1
    <3>2. CASE \E k \in JobIds : Create(r, k)
      BY <3>2, <1>1 DEF Create, TypeOK
    <3>3. CASE FailUnpublished(r)
      BY <3>3, <1>1, FailedRow DEF FailUnpublished, Present, Unfinished, Terminal
    <3>4. CASE UNCHANGED rows
      BY <3>4, <1>1
    <3>5. QED
      BY <3>1, <3>2, <3>3, <3>4 DEF RequestStep, Admit, AdmitUncounted, Admitted,
         Refuse, Reject, Reuse, Miss, CreateError, Publish, PublishError, Abandon
  <2>2. CASE \E k \in JobIds : WorkerStep(k)
    <3>1. PICK k \in JobIds : WorkerStep(k)
      BY <2>2
    <3>2. CASE Take(k) \/ WorkerCrash(k)
      BY <3>2, <1>1 DEF Take, WorkerCrash
    <3>3. CASE WorkerMarkRunning(k)
      BY <3>3, <1>1 DEF WorkerMarkRunning, CanStart, Present, Unfinished, Terminal,
         TypeOK
    <3>4. CASE WorkerMarkFailed(k)
      BY <3>4, <1>1 DEF WorkerMarkFailed, Failed, Present, Unfinished, Terminal,
         TypeOK, Row
    <3>5. CASE \E t \in {NullStamp} \cup Stamps, u \in {NoBound} \cup Rollovers :
                 WorkerMarkSucceeded(k, t, u)
      BY <3>5, <1>1 DEF WorkerMarkSucceeded, Succeeded, Present, Unfinished, Terminal,
         TypeOK
    <3>6. QED
      BY <3>1, <3>2, <3>3, <3>4, <3>5 DEF WorkerStep
  <2>3. CASE \E p \in Polls : PollStep(p)
    BY <2>3, <1>1, PolledRows, FailedRows DEF Present, Unfinished, Terminal
  <2>4. CASE ApplyRetention
    BY <2>4, <1>1 DEF ApplyRetention, TypeOK, Row
  <2>5. CASE \E T \in Targets : DeleteTarget(T)
    BY <2>5, <1>1, DeletedRows
  <2>6. CASE Tick \/ UNCHANGED vars
    BY <2>6, <1>1 DEF Tick, vars
  <2>7. QED
    BY <1>1, <2>1, <2>2, <2>3, <2>4, <2>5, <2>6 DEF Next
<1>2. TypeOK /\ WorkHasRow /\ [Next]_vars => [\A j \in JobIds : Ok(j)]_vars
  BY <1>1
<1>3. QED
  BY <1>2, RoutingJobsInvariant, PTL DEF Spec, LateWorkerCannotRevive

----------------------------------------------------------------------------
\* The sets the backlog bound counts are finite.
LEMMA BacklogFinite ==
  /\ IsFiniteSet(InFlight) /\ IsFiniteSet(Uncounted)
  /\ Cardinality(InFlight) \in Nat /\ Cardinality(Uncounted) \in Nat
  /\ Cardinality(Requests) \in Nat
  /\ Cardinality(Uncounted) <= Cardinality(Requests)
<1>1. InFlight \in SUBSET JobIds /\ Uncounted \in SUBSET Requests
  BY DEF InFlight, Uncounted
<1>2. IsFiniteSet(InFlight) /\ IsFiniteSet(Uncounted)
      /\ Cardinality(Uncounted) <= Cardinality(Requests)
  BY <1>1, FS_Subset, RoutingJobsAssumption
<1>3. QED
  BY <1>2, FS_CardinalityType, RoutingJobsAssumption

\* The same of the next state.
LEMMA BacklogFiniteNext ==
  /\ IsFiniteSet(InFlight') /\ IsFiniteSet(Uncounted')
  /\ Cardinality(InFlight') \in Nat /\ Cardinality(Uncounted') \in Nat
  /\ Cardinality(Uncounted') <= Cardinality(Requests)
<1>1. InFlight' \in SUBSET JobIds /\ Uncounted' \in SUBSET Requests
  BY DEF InFlight, Uncounted
<1>2. IsFiniteSet(InFlight') /\ IsFiniteSet(Uncounted')
      /\ Cardinality(Uncounted') <= Cardinality(Requests)
  BY <1>1, FS_Subset, RoutingJobsAssumption
<1>3. QED
  BY <1>2, FS_CardinalityType, RoutingJobsAssumption

\* Adding one element adds at most one.
LEMMA AddAtMostOne ==
  ASSUME NEW S, IsFiniteSet(S), NEW x
  PROVE  /\ IsFiniteSet(S \cup {x}) /\ Cardinality(S \cup {x}) \in Nat
         /\ Cardinality(S \cup {x}) <= Cardinality(S) + 1
<1>1. Cardinality(S) \in Nat
  BY FS_CardinalityType
<1>2. IsFiniteSet(S \cup {x})
  BY FS_AddElement
<1>3. Cardinality(S \cup {x}) = IF x \in S THEN Cardinality(S) ELSE Cardinality(S) + 1
  BY FS_AddElement
<1>4. QED
  BY <1>1, <1>2, <1>3

\* A step that adds to neither set keeps the bound.
LEMMA ShrinkKeepsBound ==
  ASSUME TypeOK, BacklogBounded, InFlight' \subseteq InFlight,
         Uncounted' \subseteq Uncounted, failOpen' = failOpen
  PROVE  BacklogBounded'
<1>1. Cardinality(InFlight') <= Cardinality(InFlight)
      /\ Cardinality(Uncounted') <= Cardinality(Uncounted)
  BY BacklogFinite, FS_Subset
<1>2. QED
  BY <1>1, BacklogFinite, BacklogFiniteNext, RoutingJobsAssumption
  DEF BacklogBounded, TypeOK

\* A row that is failed, given a result or kept as it is, or the clock moving
\* on, never puts a job in flight; nor does starting a row that is in flight.
LEMMA InFlightShrinks ==
  ASSUME TypeOK, WorkHasRow, [Next]_vars,
         ~ \E r \in Requests, j \in JobIds : Create(r, j)
  PROVE  InFlight' \subseteq InFlight
<1> SUFFICES ASSUME NEW j \in JobIds, rows'[j].status \in Unfinished,
                    now' < rows'[j].created + StaleAfter
             PROVE  /\ rows[j].status \in Unfinished
                    /\ now < rows[j].created + StaleAfter
  BY DEF InFlight
<1> USE DEF Unfinished
<1>1. CASE \E r \in Requests : RequestStep(r)
  <2>1. PICK r \in Requests : RequestStep(r)
    BY <1>1
  <2>2. CASE FailUnpublished(r)
    BY <2>2, FailedRow DEF FailUnpublished
  <2>3. CASE UNCHANGED <<rows, now>>
    BY <2>3
  <2>4. QED
    BY <2>1, <2>2, <2>3 DEF RequestStep, Admit, AdmitUncounted, Admitted,
       Refuse, Reject, Reuse, Miss, CreateError, Publish, PublishError, Abandon
<1>2. CASE \E k \in JobIds : WorkerStep(k)
  <2>1. PICK k \in JobIds : WorkerStep(k)
    BY <1>2
  <2>2. CASE Take(k) \/ WorkerCrash(k)
    BY <2>2 DEF Take, WorkerCrash
  <2>3. CASE WorkerMarkRunning(k)
    <3>1. rows[k].status # "none"
      BY <2>3 DEF WorkerMarkRunning, WorkHasRow
    <3>2. rows'[j].created = rows[j].created /\ now' = now
      <4>1. rows[k] \in Row /\ rows[j] \in Row
        BY DEF TypeOK
      <4>2. [rows[k] EXCEPT !.status = "running", !.updated = now].created
              = rows[k].created
        BY <4>1 DEF Row
      <4>3. QED
        BY <2>3, <4>2 DEF WorkerMarkRunning, TypeOK
    <3>3. rows[j].status \in Unfinished
      <4>1. CASE j = k /\ CanStart(k)
        BY <4>1, <3>1 DEF CanStart, Present, Terminal, TypeOK, Row, Statuses
      <4>2. CASE ~ (j = k /\ CanStart(k))
        BY <4>2, <2>3 DEF WorkerMarkRunning, TypeOK, Row
      <4>3. QED
        BY <4>1, <4>2
    <3>4. QED
      BY <3>2, <3>3
  <2>4. CASE WorkerMarkFailed(k)
    BY <2>4 DEF WorkerMarkFailed, Failed, TypeOK, Row
  <2>5. CASE \E t \in {NullStamp} \cup Stamps, u \in {NoBound} \cup Rollovers :
               WorkerMarkSucceeded(k, t, u)
    BY <2>5 DEF WorkerMarkSucceeded, Succeeded, TypeOK, Row
  <2>6. QED
    BY <2>1, <2>2, <2>3, <2>4, <2>5 DEF WorkerStep
<1>3. CASE \E p \in Polls : PollStep(p)
  <2>1. PICK p \in Polls : PollStep(p)
    BY <1>3
  <2>2. CASE PollFail(p)
    BY <2>2 DEF PollFail, Failed, TypeOK, Row
  <2>3. CASE PollFailError(p) \/ \E k \in JobIds : PollReadsStale(p, k)
    BY <2>3 DEF PollFailError, PollReadsStale
  <2>4. QED
    BY <2>1, <2>2, <2>3 DEF PollStep
<1>4. CASE ApplyRetention
  BY <1>4 DEF ApplyRetention, TypeOK, Row
<1>d. CASE \E T \in Targets : DeleteTarget(T)
  <2>1. PICK T \in Targets : DeleteTarget(T)
    BY <1>d
  <2>2. now' = now
    BY <2>1 DEF DeleteTarget
  <2>3. QED
    BY <2>1, <2>2, DeletedRows
<1>5. CASE Tick
  BY <1>5, RoutingJobsAssumption DEF Tick, TypeOK, Row
<1>6. CASE UNCHANGED vars
  BY <1>6 DEF vars
<1>7. QED
  BY <1>1, <1>2, <1>3, <1>4, <1>d, <1>5, <1>6 DEF Next

\* One step keeps the backlog bound.
LEMMA StepBacklogBounded ==
  ASSUME TypeOK, WorkHasRow, BacklogBounded, [Next]_vars
  PROVE  BacklogBounded'
<1>1. ASSUME NEW r \in Requests, NEW k \in Keys, NEW o \in Owners, Admit(r, k, o)
      PROVE  BacklogBounded'
  <2>1. InFlight' = InFlight /\ failOpen' = failOpen
    BY <1>1 DEF Admit, Admitted, InFlight
  <2>2. QED
    BY <1>1, <2>1, BacklogFinite, BacklogFiniteNext, RoutingJobsAssumption
    DEF Admit, BacklogBounded, TypeOK
<1>2. ASSUME NEW r \in Requests, NEW k \in Keys, NEW o \in Owners,
             AdmitUncounted(r, k, o)
      PROVE  BacklogBounded'
  <2>1. InFlight' = InFlight /\ failOpen' = failOpen + 1
    BY <1>2 DEF AdmitUncounted, Admitted, InFlight
  <2>2. Uncounted' \subseteq Uncounted \cup {r}
    BY <1>2 DEF AdmitUncounted, Admitted, Uncounted, TypeOK
  <2>3. /\ IsFiniteSet(Uncounted \cup {r})
        /\ Cardinality(Uncounted \cup {r}) <= Cardinality(Uncounted) + 1
    BY AddAtMostOne, BacklogFinite
  <2>4. Cardinality(Uncounted') <= Cardinality(Uncounted \cup {r})
    BY <2>2, <2>3, FS_Subset
  <2>5. Cardinality(Uncounted \cup {r}) \in Nat
    BY <2>3, FS_CardinalityType
  <2>6. QED
    BY <2>1, <2>3, <2>4, <2>5, BacklogFinite, BacklogFiniteNext,
       RoutingJobsAssumption DEF BacklogBounded, TypeOK
<1>3. ASSUME NEW r \in Requests, NEW j \in JobIds, Create(r, j)
      PROVE  BacklogBounded'
  <2>1. InFlight' \subseteq InFlight \cup {j} /\ failOpen' = failOpen
    BY <1>3 DEF Create, InFlight, TypeOK
  <2>2. Uncounted' \subseteq Uncounted \ {r} /\ r \in Uncounted
    BY <1>3 DEF Create, Uncounted, TypeOK, Request
  <2>3. /\ IsFiniteSet(InFlight \cup {j}) /\ Cardinality(InFlight \cup {j}) \in Nat
        /\ Cardinality(InFlight \cup {j}) <= Cardinality(InFlight) + 1
    BY AddAtMostOne, BacklogFinite
  <2>4. /\ IsFiniteSet(Uncounted \ {r}) /\ Cardinality(Uncounted \ {r}) \in Nat
        /\ Cardinality(Uncounted \ {r}) = Cardinality(Uncounted) - 1
    BY <2>2, FS_RemoveElement, FS_CardinalityType, BacklogFinite
  <2>5. /\ Cardinality(InFlight') <= Cardinality(InFlight \cup {j})
        /\ Cardinality(Uncounted') <= Cardinality(Uncounted \ {r})
    BY <2>1, <2>2, <2>3, <2>4, FS_Subset
  <2>6. QED
    BY <2>1, <2>3, <2>4, <2>5, BacklogFinite, BacklogFiniteNext,
       RoutingJobsAssumption DEF BacklogBounded, TypeOK
<1>4. ASSUME ~ \E r \in Requests, j \in JobIds : Create(r, j),
             ~ \E r \in Requests, k \in Keys, o \in Owners :
                 Admit(r, k, o) \/ AdmitUncounted(r, k, o)
      PROVE  BacklogBounded'
  <2>1. InFlight' \subseteq InFlight
    BY <1>4, InFlightShrinks
  <2>2. Uncounted' \subseteq Uncounted /\ failOpen' = failOpen
    <3>1. CASE \E r \in Requests : RequestStep(r)
      <4>1. PICK r \in Requests : RequestStep(r)
        BY <3>1
      <4>2. CASE Miss(r)
        BY <4>2 DEF Miss, Goto, Uncounted, TypeOK, Request
      <4>3. CASE \/ Refuse(r) \/ Reject(r) \/ CreateError(r) \/ Publish(r)
                 \/ FailUnpublished(r) \/ Abandon(r)
        BY <4>3 DEF Refuse, Reject, CreateError, Publish, FailUnpublished, Abandon,
           Answer, IdleRequest, Uncounted, TypeOK
      <4>4. CASE PublishError(r) \/ Reuse(r)
        BY <4>4 DEF PublishError, Goto, Reuse, Uncounted, TypeOK, Request
      <4>5. QED
        BY <1>4, <4>1, <4>2, <4>3, <4>4 DEF RequestStep
    <3>2. CASE UNCHANGED <<req, failOpen>>
      BY <3>2 DEF Uncounted
    <3>3. QED
      BY <3>1, <3>2 DEF Next, WorkerStep, Take, WorkerMarkRunning, WorkerMarkFailed,
         WorkerCrash, WorkerMarkSucceeded, PollStep, PollReadsStale, PollFail,
         PollFailError, DeleteTarget, ApplyRetention, Tick, vars
  <2>3. QED
    BY <2>1, <2>2, ShrinkKeepsBound
<1>5. QED
  BY <1>1, <1>2, <1>3, <1>4

\* The overshoot of the backlog cap is bounded, for every cap and every number
\* of handlers: requests that race past CapIsochroneBacklog together, and jobs
\* that come and go meanwhile, never add up to more than the bound.
THEOREM BacklogBound == Spec => []BacklogBounded
<1>1. Init => BacklogBounded
  <2>1. SUFFICES ASSUME Init PROVE BacklogBounded
    OBVIOUS
  <2>2. InFlight = {} /\ Uncounted = {} /\ failOpen = 0
    BY <2>1 DEF Init, InFlight, Uncounted, AbsentRow, IdleRequest, Unfinished
  <2>3. QED
    BY <2>2, FS_EmptySet, BacklogFinite, RoutingJobsAssumption DEF BacklogBounded
<1>2. TypeOK /\ WorkHasRow /\ BacklogBounded /\ [Next]_vars => BacklogBounded'
  BY StepBacklogBounded
<1>3. QED
  BY <1>1, <1>2, RoutingJobsInvariant, PTL DEF Spec

----------------------------------------------------------------------------
(* RoutingJobs implements RoutingJobLifecycle.                              *)

StatusOf == [j \in JobIds |-> rows[j].status]
Sent     == {j \in JobIds : msg[j] # "unsent"}

\* Writing one row changes one status.
LEMMA OneStatus ==
  ASSUME TypeOK, NEW k \in JobIds, NEW row, rows' = [rows EXCEPT ![k] = row]
  PROVE  StatusOf' = [StatusOf EXCEPT ![k] = row.status]
  BY DEF StatusOf, TypeOK

\* Failing a row is the abstract Fail, or nothing when it was deleted.
LEMMA FailRefines ==
  ASSUME TypeOK, NEW k \in JobIds, rows' = Failed(k), Sent' = Sent
  PROVE  Lifecycle!LifecycleNext \/ UNCHANGED Lifecycle!lifecycleVars
<1>0. CASE rows[k].status \notin Present
  BY <1>0 DEF Failed, Lifecycle!lifecycleVars, Sent
<1> SUFFICES ASSUME rows[k].status \in Present
             PROVE  Lifecycle!Fail(k)
  BY <1>0 DEF Lifecycle!LifecycleNext
<1>1. [rows[k] EXCEPT !.status = "failed", !.updated = now].status = "failed"
  BY DEF TypeOK, Row
<1>2. StatusOf' = [StatusOf EXCEPT ![k] = "failed"]
  BY <1>1, OneStatus DEF Failed
<1>3. QED
  BY <1>2 DEF Lifecycle!Fail, StatusOf, Sent, Present, Unfinished, Terminal

\* A step of an isochrone handler is Submit, Send, Fail or nothing.
LEMMA RequestStepRefines ==
  ASSUME TypeOK, WorkHasRow, NEW r \in Requests, RequestStep(r)
  PROVE  Lifecycle!LifecycleNext \/ UNCHANGED Lifecycle!lifecycleVars
<1>1. CASE \E j \in JobIds : Create(r, j)
  <2>1. PICK j \in JobIds : Create(r, j)
    BY <1>1
  <2>a. [AbsentRow EXCEPT !.status = "queued", !.key = req[r].key,
           !.owner = req[r].owner, !.created = now, !.updated = now].status
           = "queued"
    BY DEF AbsentRow
  <2>b. rows' = [rows EXCEPT ![j] = [AbsentRow EXCEPT
                  !.status = "queued", !.key = req[r].key, !.owner = req[r].owner,
                  !.created = now, !.updated = now]]
    BY <2>1 DEF Create
  <2>2. StatusOf' = [StatusOf EXCEPT ![j] = "queued"]
    BY <2>a, <2>b, OneStatus
  <2>3. Lifecycle!Submit(j)
    BY <2>1, <2>2 DEF Create, Lifecycle!Submit, StatusOf
  <2>4. QED
    BY <2>3 DEF Lifecycle!LifecycleNext
<1>2. CASE Publish(r) \/ PublishError(r)
  <2>1. rows' = rows /\ StatusOf' = StatusOf
    BY <1>2 DEF Publish, PublishError, StatusOf
  <2>2. CASE msg' = msg
    BY <2>1, <2>2 DEF Lifecycle!lifecycleVars
  <2>3. CASE msg' = [msg EXCEPT ![req[r].job] = "ready"]
    <3>1. PICK k \in JobIds : k = req[r].job /\ rows[k].status # "none"
      BY <1>2 DEF Publish, PublishError, WorkHasRow
    <3>2. Sent' = Sent \cup {k}
      BY <2>3, <3>1 DEF Sent, TypeOK
    <3>3. CASE k \in Sent
      BY <2>1, <3>2, <3>3 DEF Lifecycle!lifecycleVars, Sent, StatusOf
    <3>4. CASE k \notin Sent
      <4>1. Lifecycle!Send(k)
        BY <2>1, <3>1, <3>2, <3>4 DEF Lifecycle!Send, Sent, StatusOf
      <4>2. QED
        BY <4>1 DEF Lifecycle!LifecycleNext
    <3>5. QED
      BY <3>3, <3>4
  <2>4. QED
    BY <1>2, <2>2, <2>3 DEF Publish, PublishError
<1>3. CASE FailUnpublished(r)
  <2>1. req[r].job \in JobIds /\ rows[req[r].job].status # "none" /\ Sent' = Sent
    BY <1>3 DEF FailUnpublished, WorkHasRow, Sent
  <2>2. CASE rows' = Failed(req[r].job)
    BY <2>1, <2>2, FailRefines
  <2>3. CASE rows' = rows
    BY <1>3, <2>3 DEF FailUnpublished, Lifecycle!lifecycleVars
  <2>4. QED
    BY <1>3, <2>2, <2>3 DEF FailUnpublished
<1>4. CASE UNCHANGED <<rows, msg>>
  BY <1>4 DEF Lifecycle!lifecycleVars
<1>5. QED
  BY <1>1, <1>2, <1>3, <1>4 DEF RequestStep, Admit, AdmitUncounted, Admitted,
     Refuse, Reject, Reuse, Miss, CreateError, Abandon

\* A step of the worker is Start, Succeed, Fail or nothing.
LEMMA WorkerStepRefines ==
  ASSUME TypeOK, WorkHasRow, NEW j \in JobIds, WorkerStep(j)
  PROVE  Lifecycle!LifecycleNext \/ UNCHANGED Lifecycle!lifecycleVars
<1>1. msg[j] # "unsent" /\ rows[j].status # "none" /\ j \in Sent
  BY DEF WorkerStep, Take, WorkerMarkRunning, WorkerMarkFailed, WorkerCrash,
     WorkerMarkSucceeded, WorkHasRow, Sent
<1>2. Sent' = Sent
  BY <1>1 DEF WorkerStep, Take, WorkerMarkRunning, WorkerMarkFailed, WorkerCrash,
     WorkerMarkSucceeded, Sent, TypeOK
<1>3. CASE rows' = rows
  BY <1>2, <1>3 DEF Lifecycle!lifecycleVars, Sent
<1>4. CASE WorkerMarkRunning(j) /\ rows' # rows
  <2>1. [rows[j] EXCEPT !.status = "running", !.updated = now].status = "running"
    BY DEF TypeOK, Row
  <2>a. rows' = [rows EXCEPT ![j] = [rows[j] EXCEPT !.status = "running",
                                                   !.updated = now]]
    BY <1>4 DEF WorkerMarkRunning
  <2>2. StatusOf' = [StatusOf EXCEPT ![j] = "running"]
    BY <2>1, <2>a, OneStatus
  <2>3. rows[j].status \in {"queued", "running"}
    BY <1>1, <1>4 DEF WorkerMarkRunning, CanStart, Present, Terminal, Unfinished, TypeOK, Row,
       Statuses
  <2>4. Lifecycle!Start(j)
    BY <1>1, <1>2, <2>2, <2>3 DEF Lifecycle!Start, StatusOf, Sent
  <2>5. QED
    BY <2>4 DEF Lifecycle!LifecycleNext
<1>5. CASE WorkerMarkFailed(j)
  BY <1>2, <1>5, FailRefines DEF WorkerMarkFailed
<1>6. CASE rows' # rows /\ \E t \in {NullStamp} \cup Stamps, u \in {NoBound} \cup Rollovers :
             WorkerMarkSucceeded(j, t, u)
  <2>1. PICK t \in {NullStamp} \cup Stamps, u \in {NoBound} \cup Rollovers :
               WorkerMarkSucceeded(j, t, u)
    BY <1>6
  <2>2. [rows[j] EXCEPT !.status = "succeeded", !.result = "geojson",
           !.updated = now, !.tileset = t, !.until = u].status = "succeeded"
    BY DEF TypeOK, Row
  <2>a. rows' = [rows EXCEPT ![j] = [rows[j] EXCEPT !.status = "succeeded",
                   !.result = "geojson", !.updated = now, !.tileset = t, !.until = u]]
    BY <1>6, <2>1 DEF WorkerMarkSucceeded, Succeeded
  <2>3. StatusOf' = [StatusOf EXCEPT ![j] = "succeeded"]
    BY <2>2, <2>a, OneStatus
  <2>4. rows[j].status \in {"running", "succeeded", "failed"}
    BY <1>1, <1>6, <2>1 DEF WorkerMarkSucceeded, Succeeded, WorkHasRow, TypeOK, Row, Statuses,
       Present, Terminal, Unfinished
  <2>5. Lifecycle!Succeed(j)
    BY <1>1, <1>2, <2>3, <2>4 DEF Lifecycle!Succeed, StatusOf, Sent
  <2>6. QED
    BY <2>5 DEF Lifecycle!LifecycleNext
<1>7. QED
  BY <1>3, <1>4, <1>5, <1>6 DEF WorkerStep, Take, WorkerCrash

\* A step of a poll, the sweep or the clock is Fail or nothing.
LEMMA OtherStepRefines ==
  ASSUME TypeOK, WorkHasRow, \/ \E p \in Polls : PollStep(p)
                             \/ \E T \in Targets : DeleteTarget(T)
                             \/ ApplyRetention
                             \/ Tick
                             \/ UNCHANGED vars
  PROVE  Lifecycle!LifecycleNext \/ UNCHANGED Lifecycle!lifecycleVars
<1>1. CASE \E p \in Polls : PollFail(p)
  <2>1. PICK p \in Polls : PollFail(p)
    BY <1>1
  <2>2. poll[p] \in JobIds /\ rows[poll[p]].status # "none"
    BY <2>1 DEF PollFail, WorkHasRow, TypeOK
  <2>3. Sent' = Sent /\ rows' = Failed(poll[p])
    BY <2>1 DEF PollFail, Sent
  <2>4. QED
    BY <2>2, <2>3, FailRefines
<1>2. CASE ApplyRetention
  <2>1. \A j \in JobIds : rows'[j].status = rows[j].status
    BY <1>2 DEF ApplyRetention, TypeOK, Row
  <2>2. StatusOf' = StatusOf /\ msg' = msg
    BY <1>2, <2>1 DEF StatusOf, ApplyRetention
  <2>3. QED
    BY <2>2 DEF Lifecycle!lifecycleVars, StatusOf
<1>3. CASE \E T \in Targets : DeleteTarget(T)
  <2>1. PICK T \in Targets : DeleteTarget(T)
    BY <1>3
  <2>a. PICK J \in SUBSET JobIds :
          J = {j \in JobIds : rows[j].status \in Present /\ rows[j].key \in T}
    OBVIOUS
  <2>2. \A j \in JobIds : rows'[j].status = IF j \in J THEN "deleted"
                                                      ELSE rows[j].status
    BY <2>1, <2>a, DeletedRows
  <2>3. StatusOf' = [j \in JobIds |-> IF j \in J THEN "deleted" ELSE StatusOf[j]]
    BY <2>2 DEF StatusOf
  <2>4. \A j \in J : StatusOf[j] # "none"
    BY <2>a DEF StatusOf, Present, Unfinished, Terminal
  <2>5. Lifecycle!Delete(J)
    BY <2>1, <2>3, <2>4 DEF DeleteTarget, Lifecycle!Delete, StatusOf
  <2>6. QED
    BY <2>5 DEF Lifecycle!LifecycleNext
<1>4. CASE UNCHANGED <<rows, msg>>
  BY <1>4 DEF Lifecycle!lifecycleVars
<1>5. QED
  BY <1>1, <1>2, <1>3, <1>4 DEF PollStep, PollReadsStale, PollFailError, Tick, vars

\* The handlers, the worker, the polls and the sweep together keep the
\* lifecycle the API promises: a row is inserted once and before its message,
\* only a sent and unfinished job is started, only a started one succeeds, and
\* no terminal row is reopened.
THEOREM LifecycleRefinement == Spec => ImplementsLifecycle
<1>1. Init => Lifecycle!LifecycleInit
  BY DEF Init, Lifecycle!LifecycleInit, AbsentRow
<1>2. TypeOK /\ WorkHasRow /\ [Next]_vars
        => [Lifecycle!LifecycleNext]_(Lifecycle!lifecycleVars)
  BY RequestStepRefines, WorkerStepRefines, OtherStepRefines DEF Next
<1>3. QED
  BY <1>1, <1>2, RoutingJobsInvariant, PTL
  DEF Spec, ImplementsLifecycle, Lifecycle!LifecycleSpec

----------------------------------------------------------------------------
(* Reuse and retention. *)

\* A succeeded job has its result, or the sweep may have cleared it because the
\* job was last written longer than RetainFor ago.
Kept(j) == rows[j].status = "succeeded" =>
             rows[j].result = "geojson" \/ rows[j].updated + RetainFor < now
ResultsKept == \A j \in JobIds : Kept(j)

\* A row that a step leaves alone, or leaves in another status, is kept: the
\* clock does not run backwards.
LEMMA KeptByOthers ==
  ASSUME TypeOK, NEW j \in JobIds, Kept(j), now' \in Nat, now <= now',
         rows'[j] = rows[j] \/ rows'[j].status # "succeeded"
  PROVE  Kept(j)'
<1>1. rows[j].updated \in Nat /\ now \in Nat /\ RetainFor \in Nat
  BY RoutingJobsAssumption DEF TypeOK, Row
<1>2. QED
  BY <1>1 DEF Kept

\* Only the worker's success makes a row succeeded, and it stores the result;
\* only the sweep clears one, of a row that has expired.
LEMMA StepResultsKept ==
  ASSUME TypeOK, WorkHasRow, ResultsKept, [Next]_vars
  PROVE  ResultsKept'
<1>0. SUFFICES ASSUME NEW j \in JobIds PROVE Kept(j)'
  BY DEF ResultsKept
<1>k. Kept(j) /\ rows[j] \in Row /\ now \in Nat
  BY DEF ResultsKept, TypeOK
<1>1. CASE \E r \in Requests : RequestStep(r)
  <2>1. PICK r \in Requests : RequestStep(r)
    BY <1>1
  <2>2. now' = now
    BY <2>1 DEF RequestStep, Admit, AdmitUncounted, Admitted, Refuse, Reject, Reuse,
       Miss, Create, CreateError, Publish, PublishError, FailUnpublished, Abandon
  <2>3. rows'[j] = rows[j] \/ rows'[j].status # "succeeded"
    <3>1. CASE \E k \in JobIds : Create(r, k)
      BY <3>1 DEF Create, TypeOK, AbsentRow
    <3>2. CASE FailUnpublished(r)
      <4>1. req[r].job \in JobIds
        BY <3>2 DEF FailUnpublished, WorkHasRow
      <4>2. QED
        BY <3>2, <4>1, FailedRows DEF FailUnpublished
    <3>3. CASE UNCHANGED rows
      BY <3>3
    <3>4. QED
      BY <2>1, <3>1, <3>2, <3>3 DEF RequestStep, Admit, AdmitUncounted, Admitted,
         Refuse, Reject, Reuse, Miss, CreateError, Publish, PublishError, Abandon
  <2>4. QED
    BY <1>k, <2>2, <2>3, KeptByOthers
<1>2. CASE \E k \in JobIds : WorkerStep(k)
  <2>1. PICK k \in JobIds : WorkerStep(k)
    BY <1>2
  <2>2. now' = now
    BY <2>1 DEF WorkerStep, Take, WorkerMarkRunning, WorkerMarkFailed, WorkerCrash,
       WorkerMarkSucceeded
  <2>3. CASE Take(k) \/ WorkerCrash(k)
    BY <2>2, <2>3, <1>k, KeptByOthers DEF Take, WorkerCrash
  <2>4. CASE WorkerMarkRunning(k)
    <3>1. rows'[j] = rows[j] \/ rows'[j].status # "succeeded"
      BY <2>4 DEF WorkerMarkRunning, TypeOK, Row
    <3>2. QED
      BY <3>1, <2>2, <1>k, KeptByOthers
  <2>5. CASE WorkerMarkFailed(k)
    <3>1. rows'[j] = rows[j] \/ rows'[j].status # "succeeded"
      BY <2>5, FailedRows DEF WorkerMarkFailed
    <3>2. QED
      BY <3>1, <2>2, <1>k, KeptByOthers
  <2>6. CASE \E t \in {NullStamp} \cup Stamps, u \in {NoBound} \cup Rollovers :
               WorkerMarkSucceeded(k, t, u)
    <3>1. rows'[j] = rows[j] \/ rows'[j].result = "geojson"
      BY <2>6 DEF WorkerMarkSucceeded, Succeeded, TypeOK, Row
    <3>2. CASE rows'[j] = rows[j]
      BY <3>2, <2>2, <1>k, KeptByOthers
    <3>3. CASE rows'[j].result = "geojson"
      BY <3>3 DEF Kept
    <3>4. QED
      BY <3>1, <3>2, <3>3
  <2>7. QED
    BY <2>1, <2>3, <2>4, <2>5, <2>6 DEF WorkerStep
<1>3. CASE \E p \in Polls : PollStep(p)
  <2>1. now' = now
    BY <1>3 DEF PollStep, PollReadsStale, PollFail, PollFailError
  <2>2. rows'[j] = rows[j] \/ rows'[j].status # "succeeded"
    BY <1>3, PolledRows, FailedRows
  <2>3. QED
    BY <2>1, <2>2, <1>k, KeptByOthers
<1>4. CASE ApplyRetention
  <2>1. now' = now /\ rows'[j] = IF Expired(j) THEN [rows[j] EXCEPT !.result = "null"]
                                               ELSE rows[j]
    BY <1>4 DEF ApplyRetention
  <2>2. CASE Expired(j)
    <3>1. rows[j].updated + RetainFor < now /\ rows'[j].updated = rows[j].updated
      BY <2>1, <2>2, <1>k DEF Expired, Row
    <3>2. QED
      BY <3>1, <2>1 DEF Kept
  <2>3. CASE ~Expired(j)
    BY <2>1, <2>3, <1>k, KeptByOthers
  <2>4. QED
    BY <2>2, <2>3
<1>5. CASE \E T \in Targets : DeleteTarget(T)
  <2>1. now' = now
    BY <1>5 DEF DeleteTarget
  <2>2. rows'[j] = rows[j] \/ rows'[j].status # "succeeded"
    BY <1>5, <1>k DEF DeleteTarget, Row
  <2>3. QED
    BY <2>1, <2>2, <1>k, KeptByOthers
<1>6. CASE Tick \/ UNCHANGED vars
  <2>1. rows' = rows /\ now' \in Nat /\ now <= now'
    BY <1>6, <1>k DEF Tick, vars
  <2>2. QED
    BY <2>1, <1>k, KeptByOthers
<1>7. QED
  BY <1>1, <1>2, <1>3, <1>4, <1>5, <1>6 DEF Next

\* A handler reuses only a succeeded row, whatever others do meanwhile.
LEMMA ReuseStep ==
  ASSUME TypeOK, [Next]_vars, NEW r \in Requests,
         req[r].pc = "admitted", req'[r].pc = "reused"
  PROVE  req'[r].job \in JobIds /\ rows[req'[r].job].status = "succeeded"
<1>1. req[r] \in Request
  BY DEF TypeOK
<1>2. CASE \E s \in Requests : RequestStep(s)
  <2>1. PICK s \in Requests : RequestStep(s)
    BY <1>2
  <2>2. CASE Reuse(s)
    <3>1. PICK j \in Latest(Reusable(req[s].key, req[s].owner)) :
            req' = [req EXCEPT ![s] = [@ EXCEPT !.pc = "reused", !.job = j]]
      BY <2>2 DEF Reuse
    <3>2. j \in JobIds /\ rows[j].status = "succeeded"
      BY <3>1 DEF Latest, Reusable
    <3>3. s = r
      BY <3>1 DEF TypeOK
    <3>4. req'[r].job = j
      BY <3>1, <3>3, <1>1 DEF TypeOK, Request
    <3>5. QED
      BY <3>2, <3>4
  <2>3. CASE ~Reuse(s)
    <3>1. req'[r] = req[r] \/ req'[r].pc # "reused"
      <4>1. CASE \E k \in Keys, o \in Owners : Admit(s, k, o) \/ AdmitUncounted(s, k, o)
        <5>1. PICK k \in Keys, o \in Owners :
                req' = [req EXCEPT ![s] = [@ EXCEPT !.pc = "admitted", !.key = k,
                                                    !.owner = o, !.job = NoJob]]
          BY <4>1 DEF Admit, AdmitUncounted, Admitted
        <5>2. QED
          BY <5>1, <1>1 DEF TypeOK, Request
      <4>2. CASE Refuse(s) \/ Reject(s) \/ CreateError(s) \/ Publish(s)
                 \/ FailUnpublished(s) \/ Abandon(s)
        BY <4>2 DEF Refuse, Reject, CreateError, Publish, FailUnpublished, Abandon,
           Answer, IdleRequest, TypeOK
      <4>3. CASE Miss(s) \/ PublishError(s)
        BY <4>3, <1>1 DEF Miss, PublishError, Goto, TypeOK, Request
      <4>4. CASE \E j \in JobIds : Create(s, j)
        BY <4>4, <1>1 DEF Create, TypeOK, Request
      <4>5. QED
        BY <2>1, <2>3, <4>1, <4>2, <4>3, <4>4 DEF RequestStep
    <3>2. QED
      BY <3>1
  <2>4. QED
    BY <2>2, <2>3
<1>3. CASE req' = req
  BY <1>3
<1>4. QED
  BY <1>2, <1>3 DEF Next, WorkerStep, Take, WorkerMarkRunning, WorkerMarkFailed,
     WorkerCrash, WorkerMarkSucceeded, PollStep, PollReadsStale, PollFail,
     PollFailError, DeleteTarget, ApplyRetention, Tick, vars

\* A handler that reuses a job written within RetainFor has its result to
\* answer with, although the lookup does not ask whether there is one.
THEOREM FreshReuse == Spec => FreshReuseHasResult
<1>1. Init => ResultsKept
  BY DEF Init, ResultsKept, Kept, AbsentRow
<1>2. TypeOK /\ WorkHasRow /\ ResultsKept /\ [Next]_vars => ResultsKept'
  BY StepResultsKept
<1>3. TypeOK /\ ResultsKept /\ [Next]_vars
        => [\A r \in Requests : req[r].pc = "admitted" /\ req'[r].pc = "reused" =>
              LET row == rows[req'[r].job]
              IN  row.result = "geojson" \/ row.updated + RetainFor < now]_vars
  BY ReuseStep DEF ResultsKept, Kept
<1>4. QED
  BY <1>1, <1>2, <1>3, RoutingJobsInvariant, PTL DEF Spec, FreshReuseHasResult

----------------------------------------------------------------------------
(* The publisher, which enqueueIsochrone calls. *)

\* Where a publish holds the semaphore, and where its message is on its way.
Holds   == {"connect", "dial", "send", "confirm", "drain"}
Waiting == {"confirm", "drain"}

\* The semaphore has one holder, and whoever works on the channel holds it.
SemaphoreExcludes ==
  /\ \A m \in Messages : pc[m] \in Holds <=> lock = m
  /\ ping # "idle" <=> lock = Ping

\* A message that was not written to the channel is nowhere.
UnsentIsNowhere == \A m \in Messages :
  /\ pc[m] \in {"idle", "acquire", "connect", "dial", "send"} => wire[m] = "none"
  /\ wire[m] = "none" => confirm[m] = "pending" /\ m \notin queue

\* The broker is heard about the message of the holder alone, while the channel
\* it was sent on is open.
HeardOnOpenChannel == \A m \in Messages :
  /\ wire[m] \in {"sent", "routed", "bounced"} =>
       pc[m] = "confirm" /\ channel = "open" /\ confirm[m] = "pending"
  /\ wire[m] = "sent" => m \notin queue
  /\ wire[m] = "routed" => m \in queue
  /\ wire[m] = "bounced" => returns = m

\* A buffered return is about the holder's message, which is in no queue as long
\* as the channel lives.
ReturnIsOfTheHolder == \A m \in Messages : returns = m =>
  /\ pc[m] \in Waiting /\ channel # "none"
  /\ channel = "open" => wire[m] \in {"bounced", "answered"} /\ m \notin queue

\* An ack is about a message that was queued, or whose return is buffered.
AckedIsQueuedOrReturned == \A m \in Messages :
  /\ pc[m] = "drain" => confirm[m] # "pending"
  /\ confirm[m] = "ack" => wire[m] = "answered"
  /\ pc[m] \in Waiting /\ confirm[m] = "ack" => m \in queue \/ returns = m

PublisherInv ==
  /\ PublisherTypeOK /\ SemaphoreExcludes /\ UnsentIsNowhere
  /\ HeardOnOpenChannel /\ ReturnIsOfTheHolder /\ AckedIsQueuedOrReturned

----------------------------------------------------------------------------
(* The invariant is kept. *)

LEMMA PublisherInitInv == PublisherInit => PublisherInv
BY AMQPPublisherAssumption
DEF PublisherInit, PublisherInv, PublisherTypeOK, SemaphoreExcludes, UnsentIsNowhere,
    HeardOnOpenChannel, ReturnIsOfTheHolder, AckedIsQueuedOrReturned, Holds, Waiting,
    WireStates, Busy, Outcomes

\* The steps of a publish.
LEMMA PublishStepInv ==
  ASSUME PublisherInv, NEW m \in Messages, PublishStep(m)
  PROVE  PublisherInv'
<1> USE AMQPPublisherAssumption
    DEF PublisherInv, PublisherTypeOK, SemaphoreExcludes, UnsentIsNowhere,
        HeardOnOpenChannel, ReturnIsOfTheHolder, AckedIsQueuedOrReturned, Holds, Waiting,
        WireStates, Busy, Outcomes, Move, broker
<1>1. CASE Call(m)
  BY <1>1 DEF Call
<1>2. CASE Acquire(m)
  BY <1>2 DEF Acquire
<1>3. CASE AcquireCancelled(m)
  BY <1>3 DEF AcquireCancelled
<1>4. CASE Connect(m)
  BY <1>4 DEF Connect, Reset, Unheard
<1>5. CASE Dial(m)
  BY <1>5 DEF Dial
<1>6. CASE DialError(m)
  BY <1>6 DEF DialError, Return
<1>7. CASE Send(m)
  BY <1>7 DEF Send
<1>8. CASE SendError(m)
  BY <1>8 DEF SendError, Return, Unheard
<1>9. CASE WaitConfirm(m)
  BY <1>9 DEF WaitConfirm
<1>10. CASE WaitCancelled(m)
  BY <1>10 DEF WaitCancelled, Reset, Unheard, Return
<1>11. CASE Drain(m)
  BY <1>11 DEF Drain, Return
<1> QED
  BY <1>1, <1>2, <1>3, <1>4, <1>5, <1>6, <1>7, <1>8, <1>9, <1>10, <1>11 DEF PublishStep

\* The steps of the broker about one message.
LEMMA BrokerStepInv ==
  ASSUME PublisherInv, NEW m \in Messages, BrokerStep(m)
  PROVE  PublisherInv'
<1> USE AMQPPublisherAssumption
    DEF PublisherInv, PublisherTypeOK, SemaphoreExcludes, UnsentIsNowhere,
        HeardOnOpenChannel, ReturnIsOfTheHolder, AckedIsQueuedOrReturned, Holds, Waiting,
        WireStates, Busy, Outcomes
<1>1. CASE BrokerQueue(m)
  BY <1>1 DEF BrokerQueue
<1>2. CASE BrokerReturn(m)
  BY <1>2 DEF BrokerReturn
<1>3. CASE BrokerAck(m)
  BY <1>3 DEF BrokerAck
<1>4. CASE BrokerNack(m)
  BY <1>4 DEF BrokerNack
<1> QED
  BY <1>1, <1>2, <1>3, <1>4 DEF BrokerStep

\* The health check, the shutdown and the connection that drops.
LEMMA ChannelStepInv ==
  ASSUME PublisherInv, PingStart \/ PingConnect \/ PingDial \/ Close \/ Drop
  PROVE  PublisherInv'
<1> USE AMQPPublisherAssumption
    DEF PublisherInv, PublisherTypeOK, SemaphoreExcludes, UnsentIsNowhere,
        HeardOnOpenChannel, ReturnIsOfTheHolder, AckedIsQueuedOrReturned, Holds, Waiting,
        WireStates, Busy, Outcomes, broker
<1>1. CASE PingStart
  BY <1>1 DEF PingStart
<1>2. CASE PingConnect
  BY <1>2 DEF PingConnect, Reset, Unheard
<1>3. CASE PingDial
  BY <1>3 DEF PingDial
<1>4. CASE Close
  BY <1>4 DEF Close, Reset, Unheard
<1>5. CASE Drop
  BY <1>5 DEF Drop, Unheard
<1> QED
  BY <1>1, <1>2, <1>3, <1>4, <1>5

LEMMA PublisherStepInv == PublisherInv /\ [PublisherNext]_publisherVars => PublisherInv'
<1> SUFFICES ASSUME PublisherInv, [PublisherNext]_publisherVars PROVE PublisherInv'
  OBVIOUS
<1>1. CASE UNCHANGED publisherVars
  BY <1>1 DEF publisherVars, PublisherInv, PublisherTypeOK, SemaphoreExcludes,
     UnsentIsNowhere, HeardOnOpenChannel, ReturnIsOfTheHolder, AckedIsQueuedOrReturned
<1>2. CASE PublisherNext
  BY <1>2, PublishStepInv, BrokerStepInv, ChannelStepInv DEF PublisherNext
<1> QED
  BY <1>1, <1>2

\* A publish whose message was queued and acked finds no return to drain while
\* its channel lives (Publish drains p.returns on every path out), for any number
\* of publishes.
THEOREM ReturnsAreNotInherited == PublisherSpec => []DeliveredIsNotReturned
<1>1. PublisherInv => DeliveredIsNotReturned
  BY DEF PublisherInv, DeliveredIsNotReturned, PublisherTypeOK, SemaphoreExcludes,
         ReturnIsOfTheHolder, Holds, Waiting
<1> QED
  BY <1>1, PublisherInitInv, PublisherStepInv, PTL DEF PublisherSpec

----------------------------------------------------------------------------
(* The refinement of PublishContract. *)

\* A step that moves a publish between two places where its caller waits.
LEMMA StillOpen ==
  ASSUME PublisherTypeOK, NEW m \in Messages, NEW l \in Busy, pc[m] \in Busy,
         Move(m, l), UNCHANGED queue
  PROVE  UNCHANGED Contract!contractVars
BY DEF PublisherTypeOK, Move, Contract!contractVars, Busy

\* A step that returns an error promises nothing.
LEMMA ErrorImplements ==
  ASSUME PublisherTypeOK, NEW m \in Messages, NEW l \in Outcomes \ {"nil"}, pc[m] \in Busy,
         Move(m, l), UNCHANGED queue
  PROVE  Contract!ContractNext
<1>1. Contract!ReturnError(m)
  BY DEF PublisherTypeOK, Move, Contract!ReturnError, Busy, Outcomes
<1> QED
  BY <1>1 DEF Contract!ContractNext

\* A step that returns nil is one of a publish whose message is in the queue.
LEMMA NilImplements ==
  ASSUME PublisherTypeOK, NEW m \in queue, pc[m] \in Busy, Move(m, "nil"), UNCHANGED queue
  PROVE  Contract!ContractNext
<1>1. m \in Messages
  BY DEF PublisherTypeOK
<1>2. Contract!ReturnNil(m)
  BY <1>1 DEF PublisherTypeOK, Move, Contract!ReturnNil, Busy
<1> QED
  BY <1>1, <1>2 DEF Contract!ContractNext

LEMMA PublishStepImplements ==
  ASSUME PublisherInv, NEW m \in Messages, PublishStep(m)
  PROVE  Contract!ContractNext \/ UNCHANGED Contract!contractVars
<1> USE DEF Busy, Outcomes, PublisherInv
<1>1. CASE Call(m)
  <2>1. Contract!Begin(m)
    BY <1>1 DEF Call, Move, broker, Contract!Begin, PublisherTypeOK
  <2> QED
    BY <2>1 DEF Contract!ContractNext
<1>2. CASE Acquire(m)
  BY <1>2, StillOpen DEF Acquire, broker
<1>3. CASE AcquireCancelled(m)
  BY <1>3, ErrorImplements DEF AcquireCancelled, broker
<1>4. CASE Connect(m)
  BY <1>4, StillOpen DEF Connect
<1>5. CASE Dial(m)
  BY <1>5, StillOpen DEF Dial, broker
<1>6. CASE DialError(m)
  BY <1>6, ErrorImplements DEF DialError, Return, broker
<1>7. CASE Send(m)
  BY <1>7, StillOpen DEF Send
<1>8. CASE SendError(m)
  BY <1>8, ErrorImplements DEF SendError, Return
<1>9. CASE WaitConfirm(m)
  BY <1>9, StillOpen DEF WaitConfirm, broker
<1>10. CASE WaitCancelled(m)
  BY <1>10, ErrorImplements DEF WaitCancelled, Return
<1>11. CASE Drain(m)
  <2>1. pc[m] \in Busy /\ UNCHANGED queue
    BY <1>11 DEF Drain, broker
  <2>2. CASE Move(m, "returned")
    BY <2>1, <2>2, ErrorImplements
  <2>3. CASE Move(m, "nacked")
    BY <2>1, <2>3, ErrorImplements
  <2>4. CASE Move(m, "nil") /\ returns = NoMessage /\ confirm[m] # "nack"
    <3>1. confirm[m] = "ack"
      BY <1>11, <2>4 DEF Drain, AckedIsQueuedOrReturned, PublisherTypeOK
    <3>2. m \in queue
      BY <1>11, <2>4, <3>1, AMQPPublisherAssumption
      DEF Drain, AckedIsQueuedOrReturned, Waiting
    <3> QED
      BY <2>1, <2>4, <3>2, NilImplements
  <2> QED
    BY <1>11, <2>2, <2>3, <2>4 DEF Drain, Return
<1> QED
  BY <1>1, <1>2, <1>3, <1>4, <1>5, <1>6, <1>7, <1>8, <1>9, <1>10, <1>11 DEF PublishStep

\* The broker may queue a message whenever its publish was called, also after
\* the publish has returned an error.
LEMMA BrokerStepImplements ==
  ASSUME PublisherInv, NEW m \in Messages, BrokerStep(m)
  PROVE  Contract!ContractNext \/ UNCHANGED Contract!contractVars
<1>1. CASE BrokerQueue(m)
  <2>1. pc[m] # "idle" /\ m \in Messages
    BY <1>1 DEF BrokerQueue, PublisherInv, UnsentIsNowhere
  <2>2. Contract!Deliver(m)
    BY <1>1, <2>1 DEF BrokerQueue, Contract!Deliver, Busy
  <2> QED
    BY <2>2 DEF Contract!ContractNext
<1>2. CASE BrokerReturn(m) \/ BrokerAck(m) \/ BrokerNack(m)
  BY <1>2 DEF BrokerReturn, BrokerAck, BrokerNack, Contract!contractVars
<1> QED
  BY <1>1, <1>2 DEF BrokerStep

\* The publisher keeps its promise to enqueueIsochrone, whatever the broker, the
\* connection, the health checks and the other publishes do: Publish returns nil
\* only for a message that is in the queue.
THEOREM PublisherKeepsContract == PublisherSpec => ImplementsContract
<1>1. PublisherInit => Contract!ContractInit
  <2> SUFFICES ASSUME PublisherInit PROVE Contract!ContractInit
    OBVIOUS
  <2>1. \A m \in Messages : pc[m] = "idle"
    BY DEF PublisherInit
  <2> QED
    BY <2>1 DEF PublisherInit, Contract!ContractInit, Busy
<1>2. PublisherInv /\ [PublisherNext]_publisherVars
        => [Contract!ContractNext]_(Contract!contractVars)
  <2> SUFFICES ASSUME PublisherInv, [PublisherNext]_publisherVars
               PROVE  Contract!ContractNext \/ UNCHANGED Contract!contractVars
    OBVIOUS
  <2>1. CASE PingStart \/ PingConnect \/ PingDial \/ Close \/ Drop
    BY <2>1
    DEF PingStart, PingConnect, PingDial, Close, Drop, broker, Contract!contractVars
  <2>2. CASE UNCHANGED publisherVars
    BY <2>2 DEF publisherVars, Contract!contractVars
  <2>3. ASSUME NEW m \in Messages, PublishStep(m)
        PROVE  Contract!ContractNext \/ UNCHANGED Contract!contractVars
    BY <2>3, PublishStepImplements
  <2>4. ASSUME NEW m \in Messages, BrokerStep(m)
        PROVE  Contract!ContractNext \/ UNCHANGED Contract!contractVars
    BY <2>4, BrokerStepImplements
  <2> QED
    BY <2>1, <2>2, <2>3, <2>4 DEF PublisherNext
<1> QED
  BY <1>1, <1>2, PublisherInitInv, PublisherStepInv, PTL
  DEF PublisherSpec, ImplementsContract, Contract!ContractSpec

============================================================================
