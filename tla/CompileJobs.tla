---------------------------- MODULE CompileJobs ----------------------------
(***************************************************************************)
(* Compile jobs run inside the API process.  A handler inserts the row and  *)
(* hands the job to the Runner, whose goroutine writes the outcome; boot    *)
(* sweeps the rows that earlier processes left unfinished and compiles the  *)
(* seeded scenarios before it listens; shutdown drains the Runner inside a  *)
(* grace period; a poll fails a row that no boot reached.  Several          *)
(* processes share the jobs table.                                          *)
(*                                                                         *)
(* Every database statement is one step; so is every critical section of    *)
(* the Runner's mutex.                                                      *)
(***************************************************************************)
EXTENDS Naturals, FiniteSets

CONSTANTS
  Procs,             \* API processes: the replicas, or the two of a deploy
  Polls,             \* GET /api/jobs/{id} handlers running at the same time
  JobIds,            \* job ids (ids.NewUUID); bounds the jobs of a run
  NoJob,             \* not a job id
  InterruptedAfter,  \* CompileJobInterruptedAfter, in clock units
  LastInsert,        \* bound: no row is inserted after this time
  MaxTime            \* bound: the clock stops here

ASSUME CompileJobsAssumption ==
  /\ NoJob \notin JobIds /\ Procs # {}
  /\ InterruptedAfter \in Nat /\ LastInsert \in Nat /\ MaxTime \in Nat

VARIABLES
  jobs,    \* the jobs table
  at,      \* who is at each job, and how far
  by,      \* the process that inserted each job
  proc,    \* the life of each process
  late,    \* whether its Shutdown ran into the grace period's deadline
  poll,    \* the poll handlers, each with the old job it is about to fail
  now      \* the clock

vars == <<jobs, at, by, proc, late, poll, now>>

Unfinished == {"queued", "running"}
Terminal   == {"succeeded", "failed"}
Present    == Unfinished \cup Terminal
Statuses   == {"none", "deleted"} \cup Present
Job        == [status : Statuses, created : Nat]

\* Nobody yet; boot's recordCompiled between its two writes; a handler between
\* insert and Enqueue; a goroutine before, while and after it compiles; a job
\* the draining Runner refused; nobody any more.
Places   == {"none", "seeding", "handler", "starting", "compiling", "exiting",
             "refused", "left"}
Attended == {"seeding", "handler", "starting", "compiling"}

\* Runner.inFlight, and what its WaitGroup counts.
Running    == {"starting", "compiling", "exiting"}
InFlight(p) == {j \in JobIds : by[j] = p /\ at[j] \in Running}

\* down, boot after its sweep, listening, in srv.Shutdown, in Drain.
ProcStates == {"down", "booting", "up", "shutdown", "draining"}

Init ==
  /\ jobs = [j \in JobIds |-> [status |-> "none", created |-> 0]]
  /\ at = [j \in JobIds |-> "none"]
  /\ by = [j \in JobIds |-> CHOOSE p \in Procs : TRUE]
  /\ proc = [p \in Procs |-> "down"]
  /\ late = [p \in Procs |-> FALSE]
  /\ poll = [q \in Polls |-> NoJob]
  /\ now = 0

----------------------------------------------------------------------------
(* The statements. *)

\* CreateJob.
Inserted(p, j) ==
  /\ jobs[j].status = "none"
  /\ now <= LastInsert
  /\ jobs' = [jobs EXCEPT ![j] = [status |-> "queued", created |-> now]]
  /\ by' = [by EXCEPT ![j] = p]

\* UpdateJobStatus and CompleteJob match the row whatever its status is.
Written(j, s) ==
  IF jobs[j].status \in Present
  THEN [jobs EXCEPT ![j] = [@ EXCEPT !.status = s]]
  ELSE jobs

\* Mutant of FailedIfUnfinished: the status the poll read is not checked again.
FailedAnyway(J) ==
  [j \in JobIds |-> IF j \in J /\ jobs[j].status \in Present
                    THEN [jobs[j] EXCEPT !.status = "failed"]
                    ELSE jobs[j]]

\* FailInterruptedJobs (every job) and FailInterruptedJob (one) match only
\* unfinished rows.
FailedIfUnfinished(J) ==
  [j \in JobIds |-> IF j \in J /\ jobs[j].status \in Unfinished
                    THEN [jobs[j] EXCEPT !.status = "failed"]
                    ELSE jobs[j]]

----------------------------------------------------------------------------
(* Boot: loadStore. *)

\* The sweep runs before anything of this process is enqueued; an error of it
\* is only logged.
Sweep(p) ==
  /\ proc[p] = "down"
  /\ proc' = [proc EXCEPT ![p] = "booting"]
  /\ late' = [late EXCEPT ![p] = FALSE]
  /\ \/ jobs' = FailedIfUnfinished(JobIds)
     \/ UNCHANGED jobs
  /\ UNCHANGED <<at, by, poll, now>>

\* Mutant of SeedCreate: the seeded compile ahead of the sweep.
SeedBeforeSweep(p, j) ==
  /\ proc[p] \in {"down", "booting"}
  /\ \A k \in JobIds : at[k] = "seeding" => by[k] # p
  /\ Inserted(p, j)
  /\ at' = [at EXCEPT ![j] = "seeding"]
  /\ UNCHANGED <<proc, late, poll, now>>

\* CompileSeededIfNeeded finds a curated scenario with no or an outdated graph.
SeedCreate(p, j) ==
  /\ proc[p] = "booting"
  /\ \A k \in JobIds : at[k] = "seeding" => by[k] # p
  /\ Inserted(p, j)
  /\ at' = [at EXCEPT ![j] = "seeding"]
  /\ UNCHANGED <<proc, late, poll, now>>

SeedComplete(j) ==
  /\ at[j] = "seeding"
  /\ jobs' = Written(j, "succeeded")
  /\ at' = [at EXCEPT ![j] = "left"]
  /\ UNCHANGED <<by, proc, late, poll, now>>

Listen(p) ==
  /\ proc[p] = "booting"
  /\ \A j \in JobIds : at[j] = "seeding" => by[j] # p
  /\ proc' = [proc EXCEPT ![p] = "up"]
  /\ UNCHANGED <<jobs, at, by, late, poll, now>>

----------------------------------------------------------------------------
(* The compile endpoints and the Runner. *)

\* createCompileJob; one that fails inserts nothing and answers 500.  A handler
\* that was running when the signal came still inserts, in srv.Shutdown or, if
\* it outlives the grace period, after it.
CreateCompileJob(p, j) ==
  /\ proc[p] \in {"up", "shutdown"} \/ (proc[p] = "draining" /\ late[p])
  /\ Inserted(p, j)
  /\ at' = [at EXCEPT ![j] = "handler"]
  /\ UNCHANGED <<proc, late, poll, now>>

\* Mutant of Enqueue: admission without looking at draining.
EnqueueAlways(j) ==
  /\ at[j] = "handler"
  /\ at' = [at EXCEPT ![j] = "starting"]
  /\ UNCHANGED <<jobs, by, proc, late, poll, now>>

\* Runner.Enqueue: admission and wg.Add under the Runner's mutex.
Enqueue(j) ==
  /\ at[j] = "handler"
  /\ at' = [at EXCEPT ![j] = IF proc[by[j]] = "draining" THEN "refused" ELSE "starting"]
  /\ UNCHANGED <<jobs, by, proc, late, poll, now>>

\* run's first write; when it fails, the compile is not tried.
MarkRunning(j) ==
  /\ at[j] = "starting"
  /\ \/ /\ jobs[j].status \in Present
        /\ jobs' = Written(j, "running")
        /\ at' = [at EXCEPT ![j] = "compiling"]
     \/ /\ at' = [at EXCEPT ![j] = "exiting"]
        /\ UNCHANGED jobs
  /\ UNCHANGED <<by, proc, late, poll, now>>

\* run's last write: the graph, or why there is none; or the write fails and
\* the row stays as it is.
Finish(j) ==
  /\ at[j] = "compiling"
  /\ \/ \E s \in Terminal : jobs' = Written(j, s)
     \/ UNCHANGED jobs
  /\ at' = [at EXCEPT ![j] = "exiting"]
  /\ UNCHANGED <<by, proc, late, poll, now>>

\* The goroutine's deferred function: out of inFlight, then wg.Done.
Leave(j) ==
  /\ at[j] = "exiting"
  /\ at' = [at EXCEPT ![j] = "left"]
  /\ UNCHANGED <<jobs, by, proc, late, poll, now>>

----------------------------------------------------------------------------
(* Shutdown: main. *)

\* What a process that is gone leaves behind: nobody at its jobs.
Abandoned(p) == [j \in JobIds |-> IF by[j] = p /\ at[j] # "none" THEN "left" ELSE at[j]]

Signal(p) ==
  /\ proc[p] = "up"
  /\ proc' = [proc EXCEPT ![p] = "shutdown"]
  /\ UNCHANGED <<jobs, at, by, late, poll, now>>

\* Mutant of ShutdownDone: the drain does not wait for the handlers.
ShutdownNotAwaited(p) ==
  /\ proc[p] = "shutdown"
  /\ proc' = [proc EXCEPT ![p] = "draining"]
  /\ UNCHANGED <<jobs, at, by, late, poll, now>>

\* srv.Shutdown returns when every handler has answered; Drain then closes
\* admission.
ShutdownDone(p) ==
  /\ proc[p] = "shutdown"
  /\ \A j \in JobIds : at[j] = "handler" => by[j] # p
  /\ proc' = [proc EXCEPT ![p] = "draining"]
  /\ UNCHANGED <<jobs, at, by, late, poll, now>>

\* ... or when the grace period ends, with handlers still running.
ShutdownTimeout(p) ==
  /\ proc[p] = "shutdown"
  /\ proc' = [proc EXCEPT ![p] = "draining"]
  /\ late' = [late EXCEPT ![p] = TRUE]
  /\ UNCHANGED <<jobs, at, by, poll, now>>

\* Drain returns with nothing in flight.
DrainDone(p) ==
  /\ proc[p] = "draining"
  /\ InFlight(p) = {}
  /\ proc' = [proc EXCEPT ![p] = "down"]
  /\ at' = Abandoned(p)
  /\ UNCHANGED <<jobs, by, late, poll, now>>

\* The grace period ends inside Drain, the process is killed, or boot fails
\* and exits: every goroutine and handler of the process is gone, every row
\* stays.
Stop(p) ==
  /\ proc[p] # "down"
  /\ proc' = [proc EXCEPT ![p] = "down"]
  /\ at' = Abandoned(p)
  /\ UNCHANGED <<jobs, by, late, poll, now>>

----------------------------------------------------------------------------
(* JobStatus. *)

\* Mutant of Interrupted: a job that never started is never given up on.
InterruptedRunning(j) == /\ jobs[j].status = "running"
                         /\ now > jobs[j].created + InterruptedAfter

\* The row was read unfinished and old; a younger or finished one is answered
\* as it is.
Interrupted(j) == /\ jobs[j].status \in Unfinished
                  /\ now > jobs[j].created + InterruptedAfter

PollReadsInterrupted(q, j) ==
  /\ poll[q] = NoJob
  /\ Interrupted(j)
  /\ poll' = [poll EXCEPT ![q] = j]
  /\ UNCHANGED <<jobs, at, by, proc, late, now>>

\* failIfCompileInterrupted.  A write that matches nothing is followed by a
\* second read, which answers; it changes nothing.
PollFail(q) ==
  /\ poll[q] # NoJob
  /\ jobs' = FailedIfUnfinished({poll[q]})
  /\ poll' = [poll EXCEPT ![q] = NoJob]
  /\ UNCHANGED <<at, by, proc, late, now>>

PollFailError(q) ==
  /\ poll[q] # NoJob
  /\ poll' = [poll EXCEPT ![q] = NoJob]
  /\ UNCHANGED <<jobs, at, by, proc, late, now>>

----------------------------------------------------------------------------
\* The job's target is deleted and the row goes with it (ON DELETE CASCADE).
DeleteTarget(j) ==
  /\ jobs[j].status \in Present
  /\ jobs' = [jobs EXCEPT ![j] = [@ EXCEPT !.status = "deleted"]]
  /\ UNCHANGED <<at, by, proc, late, poll, now>>

Tick ==
  /\ now < MaxTime
  /\ now' = now + 1
  /\ UNCHANGED <<jobs, at, by, proc, late, poll>>

ProcStep(p) ==
  \/ Sweep(p) \/ Listen(p) \/ Signal(p) \/ ShutdownDone(p) \/ ShutdownTimeout(p)
  \/ DrainDone(p) \/ Stop(p)
  \/ \E j \in JobIds : SeedCreate(p, j) \/ CreateCompileJob(p, j)

JobStep(j) ==
  SeedComplete(j) \/ Enqueue(j) \/ MarkRunning(j) \/ Finish(j) \/ Leave(j)
  \/ DeleteTarget(j)

PollStep(q) ==
  \/ \E j \in JobIds : PollReadsInterrupted(q, j)
  \/ PollFail(q) \/ PollFailError(q)

Next ==
  \/ \E p \in Procs : ProcStep(p)
  \/ \E j \in JobIds : JobStep(j)
  \/ \E q \in Polls : PollStep(q)
  \/ Tick

Spec == Init /\ [][Next]_vars

\* The clock runs, unfinished jobs are polled again and again and the poll's
\* write does not fail every time.  No process owes a boot, no goroutine an
\* outcome.
PolledSpec ==
  /\ Spec
  /\ WF_vars(Tick)
  /\ \A j \in JobIds : SF_vars(\E q \in Polls : PollReadsInterrupted(q, j))
  /\ \A q \in Polls : SF_vars(PollFail(q))

----------------------------------------------------------------------------
(* Properties. *)

\* Every variable has its type.
TypeOK ==
  /\ jobs \in [JobIds -> Job]
  /\ at \in [JobIds -> Places]
  /\ by \in [JobIds -> Procs]
  /\ proc \in [Procs -> ProcStates]
  /\ late \in [Procs -> BOOLEAN]
  /\ poll \in [Polls -> JobIds \cup {NoJob}]
  /\ now \in Nat

\* Whoever is still at a job belongs to a process that runs and inserted the
\* row, and has not written a result yet.  It is what makes the unguarded
\* writes of the goroutine and of boot safe for a result.
AttendedIsOpen ==
  \A j \in JobIds :
    /\ jobs[j].status = "none" <=> at[j] = "none"
    /\ at[j] \in Attended => jobs[j].status # "succeeded" /\ proc[by[j]] # "down"

\* Once succeeded, a compile stays succeeded until it is deleted with its
\* target: no poll, sweep or late writer of any process takes the graph away,
\* so the latest succeeded compile never moves back to an older one.
SucceededIsFinal ==
  [][\A j \in JobIds : jobs[j].status = "succeeded"
                         => jobs'[j].status \in {"succeeded", "deleted"}]_vars

\* Nothing joins the WaitGroup while Drain waits on it (Runner.Enqueue).
DrainOnlyShrinks ==
  [][\A p \in Procs : proc[p] = "draining" => InFlight(p)' \subseteq InFlight(p)]_vars

\* main shuts the server down before it drains, so a job is refused only when
\* the handlers outlived the grace period.
RefusedOnlyWhenLate == \A j \in JobIds : at[j] = "refused" => late[by[j]]

\* The boot sweep fails no job that its own process is at, so with one process
\* only jobs that nobody is at (FailInterruptedJobs has no guard of its own,
\* loadStore's order is what keeps this).
SweepSparesOwn ==
  [][\A p \in Procs : proc[p] = "down" /\ proc'[p] = "booting"
       => \A j \in JobIds : jobs'[j] # jobs[j] /\ at[j] \in Attended => by[j] # p]_vars

\* Every compile job ends, whatever processes crash and never boot again: a
\* poll gives up on it (failIfCompileInterrupted).
EveryCompileEnds ==
  \A j \in JobIds :
    jobs[j].status \in Unfinished ~> jobs[j].status \in Terminal \cup {"deleted"}

============================================================================
