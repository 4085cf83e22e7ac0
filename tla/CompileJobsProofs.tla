------------------------- MODULE CompileJobsProofs -------------------------
(***************************************************************************)
(* Theorems about CompileJobs, for any number of processes, polls and jobs. *)
(*                                                                         *)
(* The goroutine's writes carry no guard on the row's status, so what keeps *)
(* a result is not in the statement: it is that nobody who is still at a    *)
(* job has written one (AttendedIsOpen), and that those who are not at it   *)
(* write under a guard.                                                     *)
(***************************************************************************)
EXTENDS CompileJobs, TLAPS

\* What refusal needs: a refused job belongs to a process in Drain, and a
\* handler still running in Drain means Shutdown was late.
RefusalInv ==
  \A j \in JobIds :
    /\ at[j] = "refused" => proc[by[j]] = "draining" /\ late[by[j]]
    /\ at[j] = "handler" /\ proc[by[j]] = "draining" => late[by[j]]

Inv == TypeOK /\ AttendedIsOpen /\ RefusalInv

\* The statements write well-formed tables.
LEMMA StatementTypes ==
  ASSUME TypeOK
  PROVE  /\ \A j \in JobIds, s \in Statuses : Written(j, s) \in [JobIds -> Job]
         /\ \A J : FailedIfUnfinished(J) \in [JobIds -> Job]
         /\ \A p \in Procs : Abandoned(p) \in [JobIds -> Places]
<1>1. ASSUME NEW j \in JobIds, NEW s \in Statuses
      PROVE  [jobs[j] EXCEPT !.status = s] \in Job
  BY DEF TypeOK, Job
<1>2. "failed" \in Statuses
  BY DEF Statuses, Present, Terminal
<1>3. QED
  BY <1>1, <1>2 DEF TypeOK, Written, FailedIfUnfinished, Abandoned, Places

\* What the statements do to one row.
LEMMA StatementEffects ==
  ASSUME TypeOK, NEW j \in JobIds
  PROVE  /\ \A k \in JobIds, s \in Statuses :
              Written(k, s)[j].status = IF j = k /\ jobs[j].status \in Present
                                        THEN s ELSE jobs[j].status
         /\ \A J : FailedIfUnfinished(J)[j].status =
                     IF j \in J /\ jobs[j].status \in Unfinished
                     THEN "failed" ELSE jobs[j].status
<1>1. ASSUME NEW s PROVE [jobs[j] EXCEPT !.status = s].status = s
  BY DEF TypeOK, Job
<1>2. QED
  BY <1>1 DEF TypeOK, Written, FailedIfUnfinished

\* The initial state satisfies the invariant.
LEMMA InitInv == Init => Inv
<1>1. (CHOOSE p \in Procs : TRUE) \in Procs
  BY CompileJobsAssumption
<1>2. QED
  BY <1>1, CompileJobsAssumption
  DEF Init, Inv, TypeOK, AttendedIsOpen, RefusalInv, Job, Statuses, Places, Attended,
      ProcStates

\* A step of a process keeps the invariant.
LEMMA ProcStepInv ==
  ASSUME Inv, NEW p \in Procs, ProcStep(p)
  PROVE  Inv'
<1> USE DEF Inv
<1>1. CASE Sweep(p)
  <2>1. \A j \in JobIds : /\ jobs'[j].status = "succeeded" => jobs[j].status = "succeeded"
                          /\ jobs'[j].status = "none" <=> jobs[j].status = "none"
    BY <1>1, StatementEffects DEF Sweep, Unfinished
  <2>2. jobs' \in [JobIds -> Job]
    BY <1>1, StatementTypes DEF Sweep, TypeOK
  <2>3. TypeOK'
    BY <1>1, <2>2 DEF Sweep, TypeOK, ProcStates
  <2>4. AttendedIsOpen'
    BY <1>1, <2>1 DEF Sweep, TypeOK, AttendedIsOpen
  <2>5. RefusalInv'
    BY <1>1 DEF Sweep, TypeOK, RefusalInv
  <2>6. QED
    BY <2>3, <2>4, <2>5
<1>2. CASE Listen(p) \/ Signal(p) \/ ShutdownDone(p) \/ ShutdownTimeout(p)
  <2>1. TypeOK'
    BY <1>2 DEF Listen, Signal, ShutdownDone, ShutdownTimeout, TypeOK, ProcStates
  <2>2. AttendedIsOpen'
    BY <1>2 DEF Listen, Signal, ShutdownDone, ShutdownTimeout, TypeOK, AttendedIsOpen
  <2>3. RefusalInv'
    BY <1>2 DEF Listen, Signal, ShutdownDone, ShutdownTimeout, TypeOK, RefusalInv
  <2>4. QED
    BY <2>1, <2>2, <2>3
<1>3. CASE DrainDone(p) \/ Stop(p)
  <2>1. at' = Abandoned(p) /\ proc' = [proc EXCEPT ![p] = "down"]
        /\ UNCHANGED <<jobs, by, late, poll, now>>
    BY <1>3 DEF DrainDone, Stop
  <2>2. TypeOK'
    BY <2>1, StatementTypes DEF TypeOK, ProcStates
  <2>3. \A j \in JobIds : at'[j] = IF by[j] = p /\ at[j] # "none" THEN "left" ELSE at[j]
    BY <2>1 DEF Abandoned
  <2>4. AttendedIsOpen'
    BY <2>1, <2>3 DEF TypeOK, AttendedIsOpen, Attended
  <2>5. RefusalInv'
    BY <2>1, <2>3 DEF TypeOK, RefusalInv
  <2>6. QED
    BY <2>2, <2>4, <2>5
<1>4. CASE \E j \in JobIds : SeedCreate(p, j) \/ CreateCompileJob(p, j)
  <2>1. PICK j \in JobIds, a \in {"seeding", "handler"} :
          /\ Inserted(p, j) /\ proc[p] # "down" /\ (proc[p] = "draining" => late[p])
          /\ at' = [at EXCEPT ![j] = a] /\ UNCHANGED <<proc, late, poll, now>>
    BY <1>4 DEF SeedCreate, CreateCompileJob
  <2>2. [status |-> "queued", created |-> now] \in Job
    BY DEF TypeOK, Job, Statuses, Present, Unfinished
  <2>3. TypeOK'
    BY <2>1, <2>2 DEF Inserted, TypeOK, Places
  <2>4. jobs'[j].status = "queued" /\ \A k \in JobIds : k # j => jobs'[k] = jobs[k]
    BY <2>1 DEF Inserted, TypeOK
  <2>5. AttendedIsOpen'
    BY <2>1, <2>4 DEF Inserted, TypeOK, AttendedIsOpen, Attended
  <2>6. RefusalInv'
    BY <2>1 DEF Inserted, TypeOK, RefusalInv
  <2>7. QED
    BY <2>3, <2>5, <2>6
<1>5. QED
  BY <1>1, <1>2, <1>3, <1>4 DEF ProcStep

\* A step at a job keeps the invariant.
LEMMA JobStepInv ==
  ASSUME Inv, NEW j \in JobIds, JobStep(j)
  PROVE  Inv'
<1> USE DEF Inv
<1>1. CASE Enqueue(j) \/ Leave(j)
  <2>1. TypeOK'
    BY <1>1 DEF Enqueue, Leave, TypeOK, Places
  <2>2. AttendedIsOpen'
    BY <1>1 DEF Enqueue, Leave, TypeOK, AttendedIsOpen, Attended
  <2>3. RefusalInv'
    BY <1>1 DEF Enqueue, Leave, TypeOK, RefusalInv
  <2>4. QED
    BY <2>1, <2>2, <2>3
<1>2. CASE SeedComplete(j) \/ MarkRunning(j) \/ Finish(j)
  <2>1. PICK s \in Terminal \cup {"running"}, a \in {"left", "compiling", "exiting"} :
          /\ jobs' = Written(j, s) \/ jobs' = jobs
          /\ a = "compiling" => s = "running"
          /\ at[j] \in Attended
          /\ at' = [at EXCEPT ![j] = a] /\ UNCHANGED <<by, proc, late, poll, now>>
    <3>1. CASE SeedComplete(j)
      BY <3>1 DEF SeedComplete, Terminal, Attended
    <3>2. CASE MarkRunning(j)
      BY <3>2 DEF MarkRunning, Attended
    <3>3. CASE Finish(j)
      BY <3>3 DEF Finish, Terminal, Attended
    <3>4. QED
      BY <1>2, <3>1, <3>2, <3>3
  <2>2. s \in Statuses
    BY DEF Statuses, Present, Terminal, Unfinished
  <2>3. /\ jobs' \in [JobIds -> Job]
        /\ jobs'[j].status \in {s, jobs[j].status}
        /\ jobs'[j].status = "none" <=> jobs[j].status = "none"
        /\ \A k \in JobIds : k # j => jobs'[k].status = jobs[k].status
    BY <2>1, <2>2, StatementTypes, StatementEffects
    DEF TypeOK, Present, Terminal, Unfinished
  <2>4. TypeOK'
    BY <2>1, <2>3 DEF TypeOK, Places
  <2>5. AttendedIsOpen'
    BY <2>1, <2>3 DEF TypeOK, AttendedIsOpen, Attended
  <2>6. RefusalInv'
    BY <2>1 DEF TypeOK, RefusalInv
  <2>7. QED
    BY <2>4, <2>5, <2>6
<1>3. CASE DeleteTarget(j)
  <2>1. [jobs[j] EXCEPT !.status = "deleted"] \in Job
        /\ [jobs[j] EXCEPT !.status = "deleted"].status = "deleted"
    BY DEF TypeOK, Job, Statuses
  <2>2. TypeOK'
    BY <1>3, <2>1 DEF DeleteTarget, TypeOK
  <2>3. AttendedIsOpen'
    BY <1>3, <2>1 DEF DeleteTarget, TypeOK, AttendedIsOpen, Present, Unfinished, Terminal
  <2>4. RefusalInv'
    BY <1>3 DEF DeleteTarget, RefusalInv
  <2>5. QED
    BY <2>2, <2>3, <2>4
<1>4. QED
  BY <1>1, <1>2, <1>3 DEF JobStep

\* A step of a poll or of the clock keeps the invariant.
LEMMA OtherStepInv ==
  ASSUME Inv, (\E q \in Polls : PollStep(q)) \/ Tick \/ UNCHANGED vars
  PROVE  Inv'
<1> USE DEF Inv
<1>1. CASE \E q \in Polls : PollStep(q)
  <2>1. UNCHANGED <<at, by, proc, late, now>>
    BY <1>1 DEF PollStep, PollReadsInterrupted, PollFail, PollFailError
  <2>2. poll' \in [Polls -> JobIds \cup {NoJob}]
    BY <1>1 DEF PollStep, PollReadsInterrupted, PollFail, PollFailError, TypeOK
  <2>3. jobs' = jobs \/ \E J \in SUBSET JobIds : jobs' = FailedIfUnfinished(J)
    BY <1>1 DEF PollStep, PollReadsInterrupted, PollFail, PollFailError, TypeOK
  <2>4. /\ jobs' \in [JobIds -> Job]
        /\ \A j \in JobIds : /\ jobs'[j].status = "succeeded" => jobs[j].status = "succeeded"
                             /\ jobs'[j].status = "none" <=> jobs[j].status = "none"
    BY <2>3, StatementTypes, StatementEffects DEF TypeOK, Unfinished
  <2>5. QED
    BY <2>1, <2>2, <2>4 DEF TypeOK, AttendedIsOpen, RefusalInv
<1>2. CASE Tick
  BY <1>2 DEF Tick, TypeOK, AttendedIsOpen, RefusalInv
<1>3. CASE UNCHANGED vars
  BY <1>3 DEF vars, TypeOK, AttendedIsOpen, RefusalInv
<1>4. QED
  BY <1>1, <1>2, <1>3

\* The invariant is inductive.
LEMMA StepInv == Inv /\ [Next]_vars => Inv'
  BY ProcStepInv, JobStepInv, OtherStepInv DEF Next

\* Type correctness, and that nobody who is still at a job has written its
\* result or belongs to a process that is gone.
THEOREM CompileJobsInvariant == Spec => [](TypeOK /\ AttendedIsOpen)
  BY InitInv, StepInv, PTL DEF Spec, Inv

\* A job is refused by the Runner only when handlers outlived the grace period.
THEOREM Refusals == Spec => []RefusedOnlyWhenLate
<1>1. Inv => RefusedOnlyWhenLate
  BY DEF Inv, RefusalInv, RefusedOnlyWhenLate
<1>2. QED
  BY <1>1, InitInv, StepInv, PTL DEF Spec

\* A graph once compiled is never taken away by another writer, in any process.
THEOREM ResultsStay == Spec => SucceededIsFinal
<1>1. ASSUME TypeOK, AttendedIsOpen, [Next]_vars, NEW j \in JobIds,
             jobs[j].status = "succeeded"
      PROVE  jobs'[j].status \in {"succeeded", "deleted"}
  <2>1. CASE \E p \in Procs : ProcStep(p)
    <3>1. PICK p \in Procs : ProcStep(p)
      BY <2>1
    <3>2. CASE Sweep(p)
      BY <3>2, <1>1, StatementEffects DEF Sweep, Unfinished
    <3>3. CASE \E k \in JobIds : SeedCreate(p, k) \/ CreateCompileJob(p, k)
      BY <3>3, <1>1 DEF SeedCreate, CreateCompileJob, Inserted, TypeOK
    <3>4. CASE UNCHANGED jobs
      BY <3>4, <1>1
    <3>5. QED
      BY <3>1, <3>2, <3>3, <3>4 DEF ProcStep, Listen, Signal, ShutdownDone,
         ShutdownTimeout, DrainDone, Stop
  <2>2. CASE \E k \in JobIds : JobStep(k)
    <3>1. PICK k \in JobIds : JobStep(k)
      BY <2>2
    <3>2. CASE SeedComplete(k) \/ MarkRunning(k) \/ Finish(k)
      <4>1. at[k] \in Attended /\ (jobs' = jobs
              \/ \E s \in Terminal \cup {"running"} : jobs' = Written(k, s))
        BY <3>2 DEF SeedComplete, MarkRunning, Finish, Attended, Terminal
      <4>2. j # k
        BY <4>1, <1>1 DEF AttendedIsOpen
      <4>3. Terminal \cup {"running"} \subseteq Statuses
        BY DEF Statuses, Present, Terminal, Unfinished
      <4>4. QED
        BY <4>1, <4>2, <4>3, <1>1, StatementEffects
    <3>3. CASE DeleteTarget(k)
      BY <3>3, <1>1 DEF DeleteTarget, TypeOK, Job
    <3>4. CASE Enqueue(k) \/ Leave(k)
      BY <3>4, <1>1 DEF Enqueue, Leave
    <3>5. QED
      BY <3>1, <3>2, <3>3, <3>4 DEF JobStep
  <2>3. CASE \E q \in Polls : PollStep(q)
    <3>1. jobs' = jobs \/ \E J \in SUBSET JobIds : jobs' = FailedIfUnfinished(J)
      BY <2>3, <1>1 DEF PollStep, PollReadsInterrupted, PollFail, PollFailError, TypeOK
    <3>2. QED
      BY <3>1, <1>1, StatementEffects DEF Unfinished
  <2>4. CASE Tick \/ UNCHANGED vars
    BY <2>4, <1>1 DEF Tick, vars
  <2>5. QED
    BY <1>1, <2>1, <2>2, <2>3, <2>4 DEF Next
<1>2. TypeOK /\ AttendedIsOpen /\ [Next]_vars
        => [\A j \in JobIds : jobs[j].status = "succeeded"
                                => jobs'[j].status \in {"succeeded", "deleted"}]_vars
  BY <1>1
<1>3. QED
  BY <1>2, CompileJobsInvariant, PTL DEF Spec, SucceededIsFinal

\* No compile joins the WaitGroup of a process that drains.
THEOREM DrainSealed == Spec => DrainOnlyShrinks
<1>1. ASSUME TypeOK, AttendedIsOpen, [Next]_vars, NEW p \in Procs,
             proc[p] = "draining", NEW j \in JobIds, by'[j] = p, at'[j] \in Running
      PROVE  by[j] = p /\ at[j] \in Running
  <2> USE <1>1 DEF Running
  <2>1. CASE \E r \in Procs : ProcStep(r)
    <3>1. PICK r \in Procs : ProcStep(r)
      BY <2>1
    <3>2. CASE \E k \in JobIds : SeedCreate(r, k) \/ CreateCompileJob(r, k)
      BY <3>2 DEF SeedCreate, CreateCompileJob, Inserted, TypeOK
    <3>3. CASE DrainDone(r) \/ Stop(r)
      BY <3>3 DEF DrainDone, Stop, Abandoned, TypeOK
    <3>4. CASE UNCHANGED <<at, by>>
      BY <3>4
    <3>5. QED
      BY <3>1, <3>2, <3>3, <3>4 DEF ProcStep, Sweep, Listen, Signal, ShutdownDone,
         ShutdownTimeout
  <2>2. CASE \E k \in JobIds : JobStep(k)
    <3>1. PICK k \in JobIds : JobStep(k)
      BY <2>2
    <3>2. CASE Enqueue(k)
      BY <3>2 DEF Enqueue, TypeOK
    <3>3. CASE SeedComplete(k) \/ MarkRunning(k) \/ Finish(k) \/ Leave(k)
      BY <3>3 DEF SeedComplete, MarkRunning, Finish, Leave, TypeOK
    <3>4. CASE DeleteTarget(k)
      BY <3>4 DEF DeleteTarget
    <3>5. QED
      BY <3>1, <3>2, <3>3, <3>4 DEF JobStep
  <2>3. CASE (\E q \in Polls : PollStep(q)) \/ Tick \/ UNCHANGED vars
    BY <2>3 DEF PollStep, PollReadsInterrupted, PollFail, PollFailError, Tick, vars
  <2>4. QED
    BY <2>1, <2>2, <2>3 DEF Next
<1>2. TypeOK /\ AttendedIsOpen /\ [Next]_vars
        => [\A p \in Procs : proc[p] = "draining"
              => InFlight(p)' \subseteq InFlight(p)]_vars
  <2>1. SUFFICES ASSUME TypeOK, AttendedIsOpen, [Next]_vars, NEW p \in Procs,
                        proc[p] = "draining"
                 PROVE  InFlight(p)' \subseteq InFlight(p)
    OBVIOUS
  <2>2. QED
    BY <2>1, <1>1 DEF InFlight
<1>3. QED
  BY <1>2, CompileJobsInvariant, PTL DEF Spec, DrainOnlyShrinks

\* The sweep of a booting process fails no job that this process is at: a
\* process that is down is at none.
THEOREM SweepIsBlameless == Spec => SweepSparesOwn
<1>1. ASSUME TypeOK, AttendedIsOpen, NEW p \in Procs, proc[p] = "down",
             NEW j \in JobIds, at[j] \in Attended
      PROVE  by[j] # p
  BY <1>1 DEF AttendedIsOpen
<1>2. TypeOK /\ AttendedIsOpen /\ [Next]_vars
        => [\A p \in Procs : proc[p] = "down" /\ proc'[p] = "booting"
              => \A j \in JobIds : jobs'[j] # jobs[j] /\ at[j] \in Attended
                                     => by[j] # p]_vars
  BY <1>1
<1>3. QED
  BY <1>2, CompileJobsInvariant, PTL DEF Spec, SweepSparesOwn

============================================================================
