------------------------- MODULE PublicationsProofs -------------------------
(***************************************************************************)
(* Theorems about Publications, what the lock of a publish and the stamps   *)
(* of its transactions give, and about PublishedIndex, for any number of    *)
(* services, requests, readers and compiles and any page sizes.             *)
(***************************************************************************)
EXTENDS Publications, PublishedIndex, TLAPS

Holding == {"locked", "decided"}

\* A job that was created and not deleted is one of a draft that is there; a
\* draft that was never created is blank.
JobsHaveDrafts ==
  /\ \A j \in JobIds : jobs[j].status \notin {"none", "gone"} =>
       jobs[j].svc \in Services /\ There(jobs[j].svc)
  /\ \A s \in Services : draft[s].state = "none" => draft[s] = NoDraft

\* A held draft is there, is what the publish read, and has one holder.
LocksExclude ==
  /\ \A r \in Requests : req[r].pc # "idle" => req[r].svc \in Services
  /\ \A r \in Requests : req[r].pc \in Holding =>
       There(req[r].svc) /\ req[r].version = draft[req[r].svc].version
  /\ \A r, p \in Requests :
       req[r].pc \in Holding /\ req[p].pc \in Holding /\ req[r].svc = req[p].svc => r = p

\* The compile that a publish has chosen is still there, and still no older
\* than the draft.
Current(s, j) == j \in Succeeded(s) /\ draft[s].updated <= jobs[j].created
DecidedStillHolds ==
  \A r \in Requests : req[r].pc = "decided" => Current(req[r].svc, req[r].job)

\* What the public reads is pinned to a compile of its service.
Pinned == \A s \in Published : There(s) /\ pub[s].job \in Succeeded(s)

\* So is what a reader has loaded, until the service is deleted.
ReadersPinned ==
  \A q \in Readers : reader[q] # NotReading =>
    /\ reader[q].svc \in Services /\ reader[q].pub.job \in JobIds
    /\ draft[reader[q].svc].state # "none"
    /\ There(reader[q].svc) => reader[q].pub.job \in Succeeded(reader[q].svc)

\* A stamp names one transaction: no two requests have the same ...
StampsUnique ==
  /\ \A r \in Requests : req[r].pc # "idle" => req[r].stamp <= now
  /\ \A r, p \in Requests : r # p /\ req[r].pc # "idle" /\ req[p].pc # "idle" =>
       req[r].stamp # req[p].stamp

\* ... that of a publication is no longer any request's, and two copies of a
\* publication with one stamp are the same.
StampSpent(at) ==
  /\ at <= now
  /\ \A r \in Requests : req[r].pc # "idle" => at # req[r].stamp
CopiesAgree ==
  /\ \A s \in Published : StampSpent(pub[s].at)
  /\ \A s, t \in Published : pub[s].at = pub[t].at => s = t
  /\ \A q \in Readers : reader[q] # NotReading =>
       /\ StampSpent(reader[q].pub.at)
       /\ \A s \in Published : reader[q].pub.at = pub[s].at => reader[q].pub = pub[s]

Consistent ==
  /\ JobsHaveDrafts /\ LocksExclude /\ DecidedStillHolds
  /\ Pinned /\ ReadersPinned /\ StampsUnique /\ CopiesAgree

Inv == TypeOK /\ Consistent

----------------------------------------------------------------------------
(* Types. *)

\* The records that stand for nothing have their types.
LEMMA BlanksTyped ==
  /\ AnyPolicy \in Policies
  /\ NoDraft \in Draft /\ NotAJob \in Job /\ Unpublished \in Publication
  /\ IdleRequest \in Request
<1>1. AnyPolicy \in Policies
  BY PublicationsAssumption DEF AnyPolicy
<1>2. NoDraft \in Draft /\ Unpublished \in Publication /\ IdleRequest \in Request
  BY DEF NoDraft, Draft, Unpublished, Publication, IdleRequest, Request
<1>3. NotAJob \in Job
  BY <1>1 DEF NotAJob, Job
<1>4. QED
  BY <1>1, <1>2, <1>3

\* The numbers of the rows, one by one.
LEMMA FieldTypes ==
  ASSUME TypeOK
  PROVE  /\ now \in Nat /\ line \in Nat
         /\ \A s \in Services : draft[s].updated \in Nat /\ draft[s].version \in Nat
         /\ \A j \in JobIds : jobs[j].created \in Nat
         /\ \A s \in Services : pub[s].at \in Nat
         /\ \A r \in Requests : req[r].stamp \in Nat
         /\ \A q \in Readers : reader[q].pub.at \in Nat
<1>1. now \in Nat /\ line \in Nat
  BY DEF TypeOK
<1>2. \A s \in Services : draft[s].updated \in Nat /\ draft[s].version \in Nat
  BY DEF TypeOK, Draft
<1>3. \A j \in JobIds : jobs[j].created \in Nat
  BY DEF TypeOK, Job
<1>4. (\A s \in Services : pub[s].at \in Nat) /\ \A q \in Readers : reader[q].pub.at \in Nat
  BY DEF TypeOK, Publication
<1>5. \A r \in Requests : req[r].stamp \in Nat
  BY DEF TypeOK, Request
<1>6. QED
  BY <1>1, <1>2, <1>3, <1>4, <1>5

\* What happens to a service leaves the types.
LEMMA ServiceStepTypeOK ==
  ASSUME Inv, NEW s \in Services, ServiceStep(s)
  PROVE  TypeOK'
<1> USE DEF Inv, TypeOK
<1>1. CASE CreateUserService(s)
  <2>1. draft' \in [Services -> Draft]
    BY <1>1 DEF CreateUserService, Draft
  <2>2. QED
    BY <1>1, <2>1 DEF CreateUserService
<1>2. CASE DeleteUserService(s)
  <2>1. draft' \in [Services -> Draft]
    BY <1>2 DEF DeleteUserService, NoDraft, Draft
  <2>2. [NotAJob EXCEPT !.status = "gone"] \in Job
    BY BlanksTyped DEF Job
  <2>3. jobs' \in [JobIds -> Job]
    BY <1>2, <2>2 DEF DeleteUserService
  <2>4. pub' \in [Services -> Publication]
    BY <1>2, BlanksTyped DEF DeleteUserService
  <2>5. QED
    BY <1>2, <2>1, <2>3, <2>4 DEF DeleteUserService
<1>3. CASE UnpublishUserService(s)
  <2>1. pub' \in [Services -> Publication]
    BY <1>3, BlanksTyped DEF UnpublishUserService
  <2>2. QED
    BY <1>3, <2>1 DEF UnpublishUserService
<1>4. QED
  BY <1>1, <1>2, <1>3 DEF ServiceStep

\* What happens to a compile job leaves the types.
LEMMA JobStepTypeOK ==
  ASSUME Inv, NEW j \in JobIds, JobStep(j)
  PROVE  TypeOK'
<1> USE DEF Inv, TypeOK
<1>1. CASE \E s \in Services : CreateJob(j, s)
  <2>1. PICK s \in Services : CreateJob(j, s)
    BY <1>1
  <2>2. now + 1 \in Nat /\ now' = now + 1
    BY <2>1 DEF CreateJob, Stamped
  <2>3. [jobs[j] EXCEPT !.status = "queued", !.svc = s, !.created = now + 1] \in Job
    BY <2>2 DEF Job
  <2>4. jobs' \in [JobIds -> Job]
    BY <2>1, <2>3 DEF CreateJob
  <2>5. QED
    BY <2>1, <2>2, <2>4 DEF CreateJob
<1>2. CASE LoadService(j)
  <2>1. draft[jobs[j].svc].version \in Nat
    BY <1>2, FieldTypes DEF LoadService, Consistent, JobsHaveDrafts
  <2>2. [jobs[j] EXCEPT !.status = "running", !.line = line,
                        !.version = draft[jobs[j].svc].version, !.policy = policy] \in Job
    BY <2>1 DEF Job
  <2>3. QED
    BY <1>2, <2>2 DEF LoadService
<1>3. CASE CompleteJob(j)
  <2>1. [jobs[j] EXCEPT !.status = "succeeded"] \in Job
    BY DEF Job
  <2>2. QED
    BY <1>3, <2>1 DEF CompleteJob
<1>4. CASE FailJob(j)
  <2>1. [NotAJob EXCEPT !.status = "failed", !.svc = jobs[j].svc,
                        !.created = jobs[j].created] \in Job
    BY BlanksTyped DEF Job
  <2>2. QED
    BY <1>4, <2>1 DEF FailJob
<1>5. QED
  BY <1>1, <1>2, <1>3, <1>4 DEF JobStep

\* What an owner's request does leaves the types.
LEMMA RequestStepTypeOK ==
  ASSUME Inv, NEW r \in Requests, RequestStep(r)
  PROVE  TypeOK'
<1> USE DEF Inv, TypeOK
<1>1. CASE \E s \in Services : EditBegin(r, s) \/ PublishBegin(r, s)
  <2>1. PICK s \in Services : EditBegin(r, s) \/ PublishBegin(r, s)
    BY <1>1
  <2>2. now + 1 \in Nat /\ now' = now + 1
    BY <2>1 DEF EditBegin, PublishBegin, Stamped
  <2>3. \A p \in {"edit", "publish"} :
          [IdleRequest EXCEPT !.pc = p, !.svc = s, !.stamp = now + 1] \in Request
    BY <2>2 DEF IdleRequest, Request
  <2>4. req' \in [Requests -> Request]
    BY <2>1, <2>3 DEF EditBegin, PublishBegin
  <2>5. QED
    BY <2>1, <2>2, <2>4 DEF EditBegin, PublishBegin
<1>2. CASE EditCommit(r)
  <2>1. req' \in [Requests -> Request]
    BY <1>2, BlanksTyped DEF EditCommit, Answer
  <2>2. req[r].svc \in Services /\ req[r].stamp \in Nat
    BY <1>2, FieldTypes DEF EditCommit, Consistent, LocksExclude
  <2>3. [state |-> "there", updated |-> req[r].stamp,
         version |-> draft[req[r].svc].version + 1] \in Draft
    BY <2>2, FieldTypes DEF Draft
  <2>4. draft' \in [Services -> Draft]
    BY <1>2, <2>2, <2>3 DEF EditCommit
  <2>5. QED
    BY <1>2, <2>1, <2>4 DEF EditCommit
<1>3. CASE PublishLock(r)
  <2>1. draft[req[r].svc].version \in Nat
    BY <1>3, FieldTypes DEF PublishLock, Consistent, LocksExclude
  <2>2. [req[r] EXCEPT !.pc = "locked", !.version = draft[req[r].svc].version] \in Request
    BY <2>1 DEF Request
  <2>3. QED
    BY <1>3, <2>2 DEF PublishLock
<1>4. CASE PublishDecide(r)
  <2>1. PICK j \in JobIds :
          req' = [req EXCEPT ![r] = [@ EXCEPT !.pc = "decided", !.job = j, !.line = line]]
    BY <1>4 DEF PublishDecide, LatestSucceeded, Succeeded
  <2>2. [req[r] EXCEPT !.pc = "decided", !.job = j, !.line = line] \in Request
    BY DEF Request
  <2>3. QED
    BY <1>4, <2>1, <2>2 DEF PublishDecide
<1>5. CASE PublishCommit(r)
  <2>1. req' \in [Requests -> Request]
    BY <1>5, BlanksTyped DEF PublishCommit, Answer
  <2>2. Upsert(r, pub[req[r].svc]) \in Publication
    BY DEF Upsert, Request, Publication
  <2>3. pub' \in [Services -> Publication]
    BY <1>5, <2>2 DEF PublishCommit
  <2>4. QED
    BY <1>5, <2>1, <2>3 DEF PublishCommit
<1>6. CASE Abort(r)
  BY <1>6, BlanksTyped DEF Abort, Answer
<1>7. QED
  BY <1>1, <1>2, <1>3, <1>4, <1>5, <1>6 DEF RequestStep

\* A public read leaves the types.
LEMMA ReaderStepTypeOK ==
  ASSUME Inv, NEW q \in Readers, ReaderStep(q)
  PROVE  TypeOK'
<1> USE DEF Inv, TypeOK
<1>1. NotReading \in [svc : Services \cup {None}, pub : Publication]
  BY BlanksTyped DEF NotReading
<1>2. \A s \in Services :
        [svc |-> s, pub |-> pub[s]] \in [svc : Services \cup {None}, pub : Publication]
  OBVIOUS
<1>3. reader' \in [Readers -> [svc : Services \cup {None}, pub : Publication]]
  BY <1>1, <1>2 DEF ReaderStep, LoadPublication, LoadPinnedGraph
<1>4. QED
  BY <1>3 DEF ReaderStep, LoadPublication, LoadPinnedGraph

\* Every step leaves the types.
LEMMA StepTypeOK ==
  ASSUME Inv, [Next]_vars
  PROVE  TypeOK'
<1>1. CASE \E w \in Policies : Redeploy(w)
  BY <1>1 DEF Inv, TypeOK, Redeploy
<1>2. CASE UpdateRoute
  BY <1>2 DEF Inv, TypeOK, UpdateRoute
<1>3. CASE UNCHANGED vars
  BY <1>3 DEF Inv, TypeOK, vars
<1>4. QED
  BY <1>1, <1>2, <1>3, ServiceStepTypeOK, JobStepTypeOK, RequestStepTypeOK, ReaderStepTypeOK
     DEF Next

----------------------------------------------------------------------------
(* One step keeps the rows consistent. *)

\* A draft is created: nothing named it before.
LEMMA CreateUserServiceInv ==
  ASSUME Inv, NEW s \in Services, CreateUserService(s)
  PROVE  Consistent'
<1> USE DEF Inv, Consistent, CreateUserService
<1>1. JobsHaveDrafts'
  BY DEF JobsHaveDrafts, TypeOK, There
<1>2. LocksExclude'
  BY DEF LocksExclude, TypeOK, Holding, There
<1>3. DecidedStillHolds'
  BY FieldTypes DEF DecidedStillHolds, TypeOK, Current, Succeeded, LocksExclude, Holding,
                    There
<1>4. Pinned'
  BY DEF Pinned, TypeOK, Published, There, Succeeded
<1>5. ReadersPinned'
  BY DEF ReadersPinned, TypeOK, There, Succeeded
<1>6. StampsUnique' /\ CopiesAgree'
  BY DEF StampsUnique, CopiesAgree, StampSpent, Published
<1>7. QED
  BY <1>1, <1>2, <1>3, <1>4, <1>5, <1>6

\* An edit begins: its stamp is new.
LEMMA EditBeginInv ==
  ASSUME Inv, NEW r \in Requests, NEW s \in Services, EditBegin(r, s)
  PROVE  Consistent'
<1> USE DEF Inv, Consistent, EditBegin
<1>1. LocksExclude'
  BY DEF LocksExclude, TypeOK, Holding, There, IdleRequest
<1>2. DecidedStillHolds'
  BY FieldTypes DEF DecidedStillHolds, TypeOK, Current, Succeeded, IdleRequest
<1>3. StampsUnique'
  BY FieldTypes DEF StampsUnique, TypeOK, Stamped, IdleRequest
<1>4. CopiesAgree'
  BY FieldTypes DEF CopiesAgree, TypeOK, StampSpent, Published, Stamped, IdleRequest
<1>5. JobsHaveDrafts' /\ Pinned' /\ ReadersPinned'
  BY DEF JobsHaveDrafts, There, Pinned, Published, Succeeded, ReadersPinned
<1>6. QED
  BY <1>1, <1>2, <1>3, <1>4, <1>5

\* An edit commits: nobody holds the draft.
LEMMA EditCommitInv ==
  ASSUME Inv, NEW r \in Requests, EditCommit(r)
  PROVE  Consistent'
<1> USE DEF Inv, Consistent, EditCommit
<1>1. JobsHaveDrafts'
  BY DEF JobsHaveDrafts, TypeOK, There
<1>2. LocksExclude'
  BY DEF LocksExclude, TypeOK, Holding, There, Answer, IdleRequest, Locked
<1>3. DecidedStillHolds'
  BY FieldTypes DEF DecidedStillHolds, TypeOK, Current, Succeeded, LocksExclude, Holding,
                    Answer, IdleRequest, Locked
<1>4. Pinned'
  BY DEF Pinned, TypeOK, Published, There, Succeeded
<1>5. ReadersPinned'
  BY DEF ReadersPinned, TypeOK, There, Succeeded
<1>6. StampsUnique'
  BY FieldTypes DEF StampsUnique, TypeOK, Answer, IdleRequest
<1>7. CopiesAgree'
  BY FieldTypes DEF CopiesAgree, TypeOK, StampSpent, Published, Answer, IdleRequest
<1>8. QED
  BY <1>1, <1>2, <1>3, <1>4, <1>5, <1>6, <1>7

\* A draft goes, with its jobs and its publication: nobody holds it.
LEMMA DeleteUserServiceInv ==
  ASSUME Inv, NEW s \in Services, DeleteUserService(s)
  PROVE  Consistent'
<1> USE DEF Inv, Consistent, DeleteUserService
<1>1. JobsHaveDrafts'
  BY DEF JobsHaveDrafts, TypeOK, There, NoDraft, NotAJob
<1>2. LocksExclude'
  BY DEF LocksExclude, TypeOK, Holding, There, NoDraft, Locked
<1>3. DecidedStillHolds'
  BY FieldTypes DEF DecidedStillHolds, TypeOK, Current, Succeeded, NoDraft, NotAJob, Locked
<1>4. Pinned'
  BY PublicationsAssumption DEF Pinned, TypeOK, Published, There, Succeeded, NoDraft,
                                NotAJob, Unpublished
<1>5. ReadersPinned'
  BY DEF ReadersPinned, TypeOK, There, Succeeded, NoDraft, NotAJob
<1>6. CopiesAgree'
  BY FieldTypes, PublicationsAssumption
     DEF CopiesAgree, TypeOK, StampSpent, Published, Unpublished
<1>7. StampsUnique'
  BY DEF StampsUnique
<1>8. QED
  BY <1>1, <1>2, <1>3, <1>4, <1>5, <1>6, <1>7

\* A correction of the alignment touches no row that is relied on.
LEMMA UpdateRouteInv ==
  ASSUME Inv, UpdateRoute
  PROVE  Consistent'
<1> USE DEF Inv, Consistent, UpdateRoute
<1>1. JobsHaveDrafts' /\ LocksExclude' /\ DecidedStillHolds' /\ Pinned' /\ ReadersPinned' /\
      StampsUnique' /\ CopiesAgree'
  BY DEF JobsHaveDrafts, There, LocksExclude, Holding, DecidedStillHolds, Current,
         Succeeded, Pinned, Published, ReadersPinned, StampsUnique, CopiesAgree, StampSpent
<1>2. QED
  BY <1>1

\* Neither does a deploy.
LEMMA RedeployInv ==
  ASSUME Inv, NEW w \in Policies, Redeploy(w)
  PROVE  Consistent'
<1> USE DEF Inv, Consistent, Redeploy
<1>1. JobsHaveDrafts' /\ LocksExclude' /\ DecidedStillHolds' /\ Pinned' /\ ReadersPinned' /\
      StampsUnique' /\ CopiesAgree'
  BY DEF JobsHaveDrafts, There, LocksExclude, Holding, DecidedStillHolds, Current,
         Succeeded, Pinned, Published, ReadersPinned, StampsUnique, CopiesAgree, StampSpent
<1>2. QED
  BY <1>1

\* A compile is created, of a draft that is there.
LEMMA CreateJobInv ==
  ASSUME Inv, NEW j \in JobIds, NEW s \in Services, CreateJob(j, s)
  PROVE  Consistent'
<1> USE DEF Inv, Consistent, CreateJob
<1>1. JobsHaveDrafts'
  BY DEF JobsHaveDrafts, TypeOK, There
<1>2. DecidedStillHolds'
  BY FieldTypes DEF DecidedStillHolds, TypeOK, Current, Succeeded
<1>3. Pinned'
  BY DEF Pinned, TypeOK, Published, There, Succeeded
<1>4. ReadersPinned'
  BY DEF ReadersPinned, TypeOK, There, Succeeded
<1>5. StampsUnique'
  BY FieldTypes DEF StampsUnique, TypeOK, Stamped
<1>6. CopiesAgree'
  BY FieldTypes DEF CopiesAgree, TypeOK, StampSpent, Published, Stamped
<1>7. LocksExclude'
  BY DEF LocksExclude, Holding, There
<1>8. QED
  BY <1>1, <1>2, <1>3, <1>4, <1>5, <1>6, <1>7

\* A compile starts: it had not succeeded and has not.
LEMMA LoadServiceInv ==
  ASSUME Inv, NEW j \in JobIds, LoadService(j)
  PROVE  Consistent'
<1> USE DEF Inv, Consistent, LoadService
<1>1. JobsHaveDrafts'
  BY DEF JobsHaveDrafts, TypeOK, There
<1>2. DecidedStillHolds'
  BY FieldTypes DEF DecidedStillHolds, TypeOK, Current, Succeeded
<1>3. Pinned'
  BY DEF Pinned, TypeOK, Published, There, Succeeded
<1>4. ReadersPinned'
  BY DEF ReadersPinned, TypeOK, There, Succeeded
<1>5. LocksExclude' /\ StampsUnique' /\ CopiesAgree'
  BY DEF LocksExclude, Holding, There, StampsUnique, CopiesAgree, StampSpent, Published
<1>6. QED
  BY <1>1, <1>2, <1>3, <1>4, <1>5

\* A compile succeeds: nothing was pinned to it.
LEMMA CompleteJobInv ==
  ASSUME Inv, NEW j \in JobIds, CompleteJob(j)
  PROVE  Consistent'
<1> USE DEF Inv, Consistent, CompleteJob
<1>1. JobsHaveDrafts'
  BY DEF JobsHaveDrafts, TypeOK, There
<1>2. DecidedStillHolds'
  BY FieldTypes DEF DecidedStillHolds, TypeOK, Current, Succeeded
<1>3. Pinned'
  BY DEF Pinned, TypeOK, Published, There, Succeeded
<1>4. ReadersPinned'
  BY DEF ReadersPinned, TypeOK, There, Succeeded
<1>5. LocksExclude' /\ StampsUnique' /\ CopiesAgree'
  BY DEF LocksExclude, Holding, There, StampsUnique, CopiesAgree, StampSpent, Published
<1>6. QED
  BY <1>1, <1>2, <1>3, <1>4, <1>5

\* A compile fails: nothing was pinned to it.
LEMMA FailJobInv ==
  ASSUME Inv, NEW j \in JobIds, FailJob(j)
  PROVE  Consistent'
<1> USE DEF Inv, Consistent, FailJob
<1>1. JobsHaveDrafts'
  BY DEF JobsHaveDrafts, TypeOK, There, NotAJob
<1>2. DecidedStillHolds'
  BY FieldTypes DEF DecidedStillHolds, TypeOK, Current, Succeeded, NotAJob
<1>3. Pinned'
  BY DEF Pinned, TypeOK, Published, There, Succeeded, NotAJob
<1>4. ReadersPinned'
  BY DEF ReadersPinned, TypeOK, There, Succeeded, NotAJob
<1>5. LocksExclude' /\ StampsUnique' /\ CopiesAgree'
  BY DEF LocksExclude, Holding, There, StampsUnique, CopiesAgree, StampSpent, Published
<1>6. QED
  BY <1>1, <1>2, <1>3, <1>4, <1>5

\* A publish begins: its stamp is new.
LEMMA PublishBeginInv ==
  ASSUME Inv, NEW r \in Requests, NEW s \in Services, PublishBegin(r, s)
  PROVE  Consistent'
<1> USE DEF Inv, Consistent, PublishBegin
<1>1. LocksExclude'
  BY DEF LocksExclude, TypeOK, Holding, There, IdleRequest
<1>2. DecidedStillHolds'
  BY FieldTypes DEF DecidedStillHolds, TypeOK, Current, Succeeded, IdleRequest
<1>3. StampsUnique'
  BY FieldTypes DEF StampsUnique, TypeOK, Stamped, IdleRequest
<1>4. CopiesAgree'
  BY FieldTypes DEF CopiesAgree, TypeOK, StampSpent, Published, Stamped, IdleRequest
<1>5. JobsHaveDrafts' /\ Pinned' /\ ReadersPinned'
  BY DEF JobsHaveDrafts, There, Pinned, Published, Succeeded, ReadersPinned
<1>6. QED
  BY <1>1, <1>2, <1>3, <1>4, <1>5

\* A publish locks the draft: nobody holds it.
LEMMA PublishLockInv ==
  ASSUME Inv, NEW r \in Requests, PublishLock(r)
  PROVE  Consistent'
<1> USE DEF Inv, Consistent, PublishLock
<1>1. LocksExclude'
  BY DEF LocksExclude, TypeOK, Holding, There, Locked
<1>2. DecidedStillHolds'
  BY FieldTypes DEF DecidedStillHolds, TypeOK, Current, Succeeded, Locked
<1>3. StampsUnique'
  BY FieldTypes DEF StampsUnique, TypeOK
<1>4. CopiesAgree'
  BY FieldTypes DEF CopiesAgree, TypeOK, StampSpent, Published
<1>5. JobsHaveDrafts' /\ Pinned' /\ ReadersPinned'
  BY DEF JobsHaveDrafts, There, Pinned, Published, Succeeded, ReadersPinned
<1>6. QED
  BY <1>1, <1>2, <1>3, <1>4, <1>5

\* A publish chooses a compile, under the lock.
LEMMA PublishDecideInv ==
  ASSUME Inv, NEW r \in Requests, PublishDecide(r)
  PROVE  Consistent'
<1> USE DEF Inv, Consistent, PublishDecide
<1>1. LocksExclude'
  BY DEF LocksExclude, TypeOK, Holding, There
<1>2. DecidedStillHolds'
  BY FieldTypes DEF DecidedStillHolds, TypeOK, Current, Succeeded, LocksExclude, Holding,
                    LatestSucceeded, GraphStale
<1>3. StampsUnique'
  BY FieldTypes DEF StampsUnique, TypeOK
<1>4. CopiesAgree'
  BY FieldTypes DEF CopiesAgree, TypeOK, StampSpent, Published
<1>5. JobsHaveDrafts' /\ Pinned' /\ ReadersPinned'
  BY DEF JobsHaveDrafts, There, Pinned, Published, Succeeded, ReadersPinned
<1>6. QED
  BY <1>1, <1>2, <1>3, <1>4, <1>5

\* A publish commits: what it decided still holds, and its stamp is spent.
LEMMA PublishCommitInv ==
  ASSUME Inv, NEW r \in Requests, PublishCommit(r)
  PROVE  Consistent'
<1> USE DEF Inv, Consistent, PublishCommit
<1>1. LocksExclude'
  BY DEF LocksExclude, TypeOK, Holding, There, Answer, IdleRequest
<1>2. DecidedStillHolds'
  BY FieldTypes DEF DecidedStillHolds, TypeOK, Current, Succeeded, Answer, IdleRequest
<1>3. Pinned'
  BY PublicationsAssumption DEF Pinned, TypeOK, Published, There, Succeeded,
                                DecidedStillHolds, Current, LocksExclude, Holding, Upsert
<1>4. StampsUnique'
  BY FieldTypes DEF StampsUnique, TypeOK, Answer, IdleRequest
<1>5. CopiesAgree'
  BY FieldTypes, PublicationsAssumption
     DEF CopiesAgree, TypeOK, StampSpent, Published, StampsUnique, Answer, IdleRequest,
         Upsert
<1>6. JobsHaveDrafts' /\ ReadersPinned'
  BY DEF JobsHaveDrafts, There, ReadersPinned, Succeeded
<1>7. QED
  BY <1>1, <1>2, <1>3, <1>4, <1>5, <1>6

\* A request gives up.
LEMMA AbortInv ==
  ASSUME Inv, NEW r \in Requests, Abort(r)
  PROVE  Consistent'
<1> USE DEF Inv, Consistent, Abort
<1>1. LocksExclude'
  BY DEF LocksExclude, TypeOK, Holding, There, Answer, IdleRequest
<1>2. DecidedStillHolds'
  BY FieldTypes DEF DecidedStillHolds, TypeOK, Current, Succeeded, Answer, IdleRequest
<1>3. StampsUnique'
  BY FieldTypes DEF StampsUnique, TypeOK, Answer, IdleRequest
<1>4. CopiesAgree'
  BY FieldTypes DEF CopiesAgree, TypeOK, StampSpent, Published, Answer, IdleRequest
<1>5. JobsHaveDrafts' /\ Pinned' /\ ReadersPinned'
  BY DEF JobsHaveDrafts, There, Pinned, Published, Succeeded, ReadersPinned
<1>6. QED
  BY <1>1, <1>2, <1>3, <1>4, <1>5

\* A publication goes; what a reader has loaded stays.
LEMMA UnpublishUserServiceInv ==
  ASSUME Inv, NEW s \in Services, UnpublishUserService(s)
  PROVE  Consistent'
<1> USE DEF Inv, Consistent, UnpublishUserService
<1>1. Pinned'
  BY PublicationsAssumption DEF Pinned, TypeOK, Published, There, Succeeded, Unpublished
<1>2. CopiesAgree'
  BY FieldTypes, PublicationsAssumption
     DEF CopiesAgree, TypeOK, StampSpent, Published, Unpublished
<1>3. JobsHaveDrafts' /\ LocksExclude' /\ DecidedStillHolds' /\ ReadersPinned' /\
      StampsUnique'
  BY DEF JobsHaveDrafts, There, LocksExclude, Holding, DecidedStillHolds, Current,
         Succeeded, ReadersPinned, StampsUnique
<1>4. QED
  BY <1>1, <1>2, <1>3

\* A reader loads what is published.
LEMMA LoadPublicationInv ==
  ASSUME Inv, NEW q \in Readers, NEW s \in Services, LoadPublication(q, s)
  PROVE  Consistent'
<1> USE DEF Inv, Consistent, LoadPublication
<1>1. ReadersPinned'
  BY PublicationsAssumption DEF ReadersPinned, TypeOK, There, Succeeded, Pinned, Published
<1>2. CopiesAgree'
  BY FieldTypes DEF CopiesAgree, TypeOK, StampSpent, Published
<1>3. JobsHaveDrafts' /\ LocksExclude' /\ DecidedStillHolds' /\ Pinned' /\ StampsUnique'
  BY DEF JobsHaveDrafts, There, LocksExclude, Holding, DecidedStillHolds, Current,
         Succeeded, Pinned, Published, StampsUnique
<1>4. QED
  BY <1>1, <1>2, <1>3

\* A reader is answered.
LEMMA LoadPinnedGraphInv ==
  ASSUME Inv, NEW q \in Readers, LoadPinnedGraph(q)
  PROVE  Consistent'
<1> USE DEF Inv, Consistent, LoadPinnedGraph
<1>1. ReadersPinned'
  BY DEF ReadersPinned, TypeOK, There, Succeeded, NotReading
<1>2. CopiesAgree'
  BY FieldTypes DEF CopiesAgree, TypeOK, StampSpent, Published, NotReading
<1>3. JobsHaveDrafts' /\ LocksExclude' /\ DecidedStillHolds' /\ Pinned' /\ StampsUnique'
  BY DEF JobsHaveDrafts, There, LocksExclude, Holding, DecidedStillHolds, Current,
         Succeeded, Pinned, Published, StampsUnique
<1>4. QED
  BY <1>1, <1>2, <1>3

----------------------------------------------------------------------------
(* The invariants. *)

\* Nothing is there at first.
LEMMA InitInv == Init => Inv
<1> SUFFICES ASSUME Init PROVE Inv
  OBVIOUS
<1>1. TypeOK
  BY BlanksTyped DEF Init, TypeOK, NotReading
<1>2. JobsHaveDrafts
  BY DEF Init, JobsHaveDrafts, NotAJob
<1>3. LocksExclude /\ DecidedStillHolds /\ StampsUnique
  BY DEF Init, LocksExclude, DecidedStillHolds, StampsUnique, Holding, IdleRequest
<1>4. Published = {}
  BY DEF Init, Published, Unpublished
<1>5. Pinned /\ ReadersPinned /\ CopiesAgree
  BY <1>4 DEF Init, Pinned, ReadersPinned, CopiesAgree
<1>6. QED
  BY <1>1, <1>2, <1>3, <1>5 DEF Inv, Consistent

\* Every step keeps the rows consistent.
LEMMA StepInv == Inv /\ [Next]_vars => Inv'
<1> SUFFICES ASSUME Inv, [Next]_vars PROVE Inv'
  OBVIOUS
<1>1. ASSUME NEW s \in Services, ServiceStep(s) PROVE Consistent'
  BY <1>1, CreateUserServiceInv, DeleteUserServiceInv, UnpublishUserServiceInv DEF ServiceStep
<1>2. ASSUME NEW j \in JobIds, JobStep(j) PROVE Consistent'
  BY <1>2, CreateJobInv, LoadServiceInv, CompleteJobInv, FailJobInv DEF JobStep
<1>3. ASSUME NEW r \in Requests, RequestStep(r) PROVE Consistent'
  BY <1>3, EditBeginInv, PublishBeginInv, EditCommitInv, PublishLockInv, PublishDecideInv,
     PublishCommitInv, AbortInv DEF RequestStep
<1>4. ASSUME NEW q \in Readers, ReaderStep(q) PROVE Consistent'
  BY <1>4, LoadPublicationInv, LoadPinnedGraphInv DEF ReaderStep
<1>5. ASSUME UNCHANGED vars PROVE Consistent'
  <2>1. JobsHaveDrafts' /\ LocksExclude' /\ DecidedStillHolds' /\ Pinned'
    BY <1>5 DEF Inv, Consistent, vars, JobsHaveDrafts, LocksExclude, DecidedStillHolds, Pinned,
                There, Current, Succeeded, Published
  <2>2. ReadersPinned' /\ StampsUnique' /\ CopiesAgree'
    BY <1>5 DEF Inv, Consistent, vars, ReadersPinned, StampsUnique, CopiesAgree, StampSpent,
                There, Succeeded, Published
  <2>3. QED
    BY <2>1, <2>2 DEF Consistent
<1>6. Consistent'
  BY <1>1, <1>2, <1>3, <1>4, <1>5, RedeployInv, UpdateRouteInv DEF Next
<1>7. QED
  BY <1>6, StepTypeOK DEF Inv

\* The inductive invariant holds of every run.
LEMMA Invariance == Spec => []Inv
<1>1. Init => Inv
  BY InitInv
<1>2. Inv /\ [Next]_vars => Inv'
  BY StepInv
<1>3. QED
  BY <1>1, <1>2, PTL DEF Spec

\* What is published is pinned to a compile of its own service that succeeded
\* and is still there, and every variable has its type: for any number of
\* services, compiles and requests (PublishUserService, DeleteUserService).
THEOREM PinsHold == Spec => []PinHolds
<1>1. Inv => PinHolds
  BY DEF Inv, Consistent, Pinned, PinHolds
<1>2. QED
  BY <1>1, Invariance, PTL

\* A reader finds the graph of the publication it has loaded, unless the
\* service was deleted in between (loadPinnedGraph).
THEOREM ReadersFindGraphs == Spec => []ReaderFindsGraph
<1>1. Inv => ReaderFindsGraph
  BY DEF Inv, Consistent, ReadersPinned, ReaderFindsGraph
<1>2. QED
  BY <1>1, Invariance, PTL

\* An ETag names one snapshot: published_at is the stamp of one transaction,
\* although it is taken before the transaction waits for the draft's lock
\* (GetServicePublication, upsertPublication).
THEOREM ETagsNameSnapshots == Spec => []SameETagSameSnapshot
<1>1. ASSUME Inv, NEW q \in Readers, reader[q] # NotReading,
             reader[q].pub.job = pub[reader[q].svc].job,
             reader[q].pub.at = pub[reader[q].svc].at
      PROVE  reader[q].pub = pub[reader[q].svc]
  <2>1. reader[q].svc \in Services /\ reader[q].pub.job \in JobIds
    BY <1>1 DEF Inv, Consistent, ReadersPinned
  <2>2. reader[q].svc \in Published
    BY <1>1, <2>1, PublicationsAssumption DEF Published
  <2>3. QED
    BY <1>1, <2>2 DEF Inv, Consistent, CopiesAgree
<1>2. Inv => SameETagSameSnapshot
  BY <1>1 DEF SameETagSameSnapshot
<1>3. QED
  BY <1>2, Invariance, PTL

----------------------------------------------------------------------------
(* The refinement. *)

\* The graphs of the register, and what it shows.
Graph(j) == [job |-> j, svc |-> jobs[j].svc, created |-> jobs[j].created]
Graphs   == {Graph(j) : j \in {k \in JobIds : jobs[k].status = "succeeded"}}
Shown    == [s \in Services |-> [job |-> pub[s].job, version |-> pub[s].version]]

\* Nothing is compiled or shown at first.
LEMMA RegisterStarts == Init => Register!RegisterInit
<1> SUFFICES ASSUME Init PROVE Register!RegisterInit
  OBVIOUS
<1>1. Graphs = {}
  BY DEF Init, Graphs, NotAJob
<1>2. Shown = [s \in Services |-> [job |-> None, version |-> 0]]
  BY DEF Init, Shown, Unpublished
<1>3. QED
  BY <1>1, <1>2 DEF Init, NoDraft, Graphs, Graph, Shown,
                    Register!RegisterInit, Register!Nothing

\* A step that leaves the drafts, the publications and the compiles that have
\* succeeded alone is no step of the register.
LEMMA Stutter ==
  ASSUME UNCHANGED <<draft, pub>>,
         \A j \in JobIds : jobs[j].status = "succeeded" <=> jobs'[j].status = "succeeded",
         \A j \in JobIds : jobs[j].status = "succeeded" =>
            jobs'[j].svc = jobs[j].svc /\ jobs'[j].created = jobs[j].created
  PROVE  UNCHANGED <<draft, Graphs, Shown>>
<1>1. Graphs' = Graphs
  BY DEF Graphs, Graph
<1>2. Shown' = Shown
  BY DEF Shown
<1>3. QED
  BY <1>1, <1>2

\* A service step writes, empties or deletes.
LEMMA ServiceStepRegister ==
  ASSUME Inv, NEW s \in Services, ServiceStep(s)
  PROVE  Register!Write(s) \/ Register!Unpublish(s) \/ Register!Delete(s)
<1> USE DEF Inv, TypeOK
<1>1. CASE CreateUserService(s)
  <2>1. UNCHANGED <<Graphs, Shown>>
    BY <1>1 DEF CreateUserService, Graphs, Graph, Shown
  <2>2. draft[s] = NoDraft
    BY <1>1 DEF CreateUserService, Consistent, JobsHaveDrafts
  <2>3. draft'[s] = [state |-> "there", version |-> 1, updated |-> now]
    BY <1>1 DEF CreateUserService
  <2>4. draft' = [draft EXCEPT ![s] = [state |-> "there", version |-> draft[s].version + 1,
                                       updated |-> draft'[s].updated]]
    BY <1>1, <2>2, <2>3 DEF CreateUserService, NoDraft
  <2>5. Register!Write(s)
    BY <2>1, <2>2, <2>3, <2>4 DEF Register!Write, Graphs, Graph, Shown, NoDraft
  <2>6. QED
    BY <2>5
<1>2. CASE DeleteUserService(s)
  <2>1. Graphs' = {g \in Graphs : g.svc # s}
    BY <1>2 DEF DeleteUserService, Graphs, Graph, NotAJob
  <2>2. Shown' = [Shown EXCEPT ![s] = [job |-> None, version |-> 0]]
    BY <1>2 DEF DeleteUserService, Shown, Unpublished
  <2>3. draft' = [draft EXCEPT ![s] = [state |-> "gone", version |-> 0, updated |-> 0]]
    <3>1. [NoDraft EXCEPT !.state = "gone"] = [state |-> "gone", version |-> 0, updated |-> 0]
      BY DEF NoDraft
    <3>2. QED
      BY <1>2, <3>1 DEF DeleteUserService
  <2>4. Register!Delete(s)
    BY <1>2, <2>1, <2>2, <2>3 DEF DeleteUserService, There, Register!Delete, Register!Nothing,
                                  Graphs, Graph, Shown
  <2>5. QED
    BY <2>4
<1>3. CASE UnpublishUserService(s)
  <2>1. UNCHANGED <<draft, Graphs>>
    BY <1>3 DEF UnpublishUserService, Graphs, Graph
  <2>2. Shown' = [Shown EXCEPT ![s] = [job |-> None, version |-> 0]]
    BY <1>3 DEF UnpublishUserService, Shown, Unpublished
  <2>3. Register!Unpublish(s)
    BY <2>1, <2>2 DEF Register!Unpublish, Register!Nothing, Graphs, Graph, Shown
  <2>4. QED
    BY <2>3
<1>4. QED
  BY <1>1, <1>2, <1>3 DEF ServiceStep

\* A job's step that completes it adds its graph; no other one shows.
LEMMA JobStepRegister ==
  ASSUME Inv, NEW j \in JobIds, JobStep(j)
  PROVE  (\E g \in Graphs' : Register!Compiled(g)) \/ UNCHANGED <<draft, Graphs, Shown>>
<1> USE DEF Inv, TypeOK
<1>1. CASE CompleteJob(j)
  <2>1. Graph(j)' = Graph(j) /\ Graph(j) \in Graphs'
    BY <1>1 DEF CompleteJob, Graphs, Graph
  <2>2. Graphs' = Graphs \cup {Graph(j)}
    BY <1>1 DEF CompleteJob, Graphs, Graph
  <2>3. draft[Graph(j).svc].state = "there"
    BY <1>1 DEF CompleteJob, Graph, Consistent, JobsHaveDrafts, There
  <2>4. UNCHANGED <<draft, Shown>>
    BY <1>1 DEF CompleteJob, Shown
  <2>5. \A g : g = Graph(j) => Register!Compiled(g)
    BY <2>2, <2>3, <2>4 DEF Register!Compiled, Graphs, Graph, Shown
  <2>6. QED
    BY <2>1, <2>5
<1>2. CASE ~CompleteJob(j)
  <2>1. UNCHANGED <<draft, pub>>
    BY <1>2 DEF JobStep, CreateJob, LoadService, FailJob
  <2>2. \A k \in JobIds \ {j} : jobs'[k] = jobs[k]
    BY <1>2 DEF JobStep, CreateJob, LoadService, FailJob
  <2>3. jobs[j].status # "succeeded" /\ jobs'[j].status # "succeeded"
    BY ZenonT(60), <1>2 DEF JobStep, CreateJob, LoadService, FailJob, NotAJob, Job
  <2>4. QED
    BY <2>1, <2>2, <2>3, Stutter
<1>3. QED
  BY <1>1, <1>2

\* An owner's request writes, publishes, or does not show.
LEMMA RequestStepRegister ==
  ASSUME Inv, NEW r \in Requests, RequestStep(r)
  PROVE  \/ \E s \in Services : Register!Write(s)
         \/ \E s \in Services, g \in Graphs : Register!Publish(s, g)
         \/ UNCHANGED <<draft, Graphs, Shown>>
<1> USE DEF Inv, TypeOK
<1>1. CASE EditCommit(r) /\ There(req[r].svc)
  <2> DEFINE s == req[r].svc
  <2>1. UNCHANGED <<Graphs, Shown>>
    BY <1>1 DEF EditCommit, Graphs, Graph, Shown
  <2>2. s \in Services /\ draft[s].state = "there"
    BY <1>1 DEF EditCommit, Consistent, LocksExclude, There
  <2>3. draft' = [draft EXCEPT ![s] = [state |-> "there", updated |-> req[r].stamp,
                                       version |-> draft[s].version + 1]]
    BY <1>1 DEF EditCommit
  <2>4. draft'[s].updated = req[r].stamp /\ req[r].stamp \in Nat
    BY <2>2, <2>3, FieldTypes
  <2>5. draft' = [draft EXCEPT ![s] = [state |-> "there", version |-> draft[s].version + 1,
                                       updated |-> draft'[s].updated]]
    BY <2>3, <2>4
  <2>6. Register!Write(s)
    BY <2>1, <2>2, <2>4, <2>5 DEF Register!Write, Graphs, Graph, Shown
  <2>7. QED
    BY <2>2, <2>6
<1>2. CASE PublishCommit(r)
  <2> DEFINE s == req[r].svc
             j == req[r].job
  <2>1. s \in Services /\ There(s) /\ req[r].version = draft[s].version
    BY <1>2 DEF PublishCommit, Consistent, LocksExclude, Holding
  <2>2. j \in Succeeded(s) /\ draft[s].updated <= jobs[j].created
    BY <1>2 DEF PublishCommit, Consistent, DecidedStillHolds, Current
  <2>3. Graph(j) \in Graphs
    BY <2>2 DEF Graphs, Succeeded
  <2>4. Graph(j).svc = s /\ Graph(j).job = j /\ draft[s].updated <= Graph(j).created
    BY <2>2 DEF Graph, Succeeded
  <2>5. Shown' = [Shown EXCEPT ![s] = [job |-> j, version |-> draft[s].version]]
    BY <1>2, <2>1 DEF PublishCommit, Upsert, Shown
  <2>6. UNCHANGED <<draft, Graphs>>
    BY <1>2 DEF PublishCommit, Graphs, Graph
  <2>7. \A g : g = Graph(j) => Register!Publish(s, g)
    BY <2>1, <2>3, <2>4, <2>5, <2>6 DEF Register!Publish, There, Graphs, Graph, Shown
  <2>8. QED
    BY <2>1, <2>3, <2>7
<1>3. CASE ~PublishCommit(r) /\ ~(EditCommit(r) /\ There(req[r].svc))
  <2>1. UNCHANGED <<draft, jobs, pub>>
    BY <1>3 DEF RequestStep, EditBegin, PublishBegin, EditCommit, PublishLock, PublishDecide,
                Abort
  <2>2. QED
    BY <2>1, Stutter
<1>4. QED
  BY <1>1, <1>2, <1>3

\* Every step is a step of the register, or does not show.
LEMMA StepRegister ==
  Inv /\ [Next]_vars => [Register!RegisterNext]_<<draft, Graphs, Shown>>
<1> SUFFICES ASSUME Inv, [Next]_vars
             PROVE  Register!RegisterNext \/ UNCHANGED <<draft, Graphs, Shown>>
  OBVIOUS
<1>1. ASSUME NEW s \in Services, ServiceStep(s) PROVE Register!RegisterNext
  BY <1>1, ServiceStepRegister DEF Register!RegisterNext
<1>2. ASSUME NEW j \in JobIds, JobStep(j)
      PROVE  Register!RegisterNext \/ UNCHANGED <<draft, Graphs, Shown>>
  BY <1>2, JobStepRegister DEF Register!RegisterNext, Graphs, Graph
<1>3. ASSUME NEW r \in Requests, RequestStep(r)
      PROVE  Register!RegisterNext \/ UNCHANGED <<draft, Graphs, Shown>>
  BY <1>3, RequestStepRegister DEF Register!RegisterNext, Graphs, Graph
<1>4. CASE \/ \E q \in Readers : ReaderStep(q)
           \/ \E w \in Policies : Redeploy(w)
           \/ UpdateRoute
           \/ UNCHANGED vars
  <2>1. UNCHANGED <<draft, jobs, pub>>
    BY <1>4 DEF ReaderStep, LoadPublication, LoadPinnedGraph, Redeploy, UpdateRoute, vars
  <2>2. QED
    BY <2>1, Stutter
<1>5. QED
  BY <1>1, <1>2, <1>3, <1>4 DEF Next

\* Publishing is atomic: every run of the drafts, the compiles, the locks and
\* the publishes in between is one of a register that is written in one step
\* from the draft and a compile that is current at that moment
\* (PublishUserService, UnpublishUserService, DeleteUserService).
THEOREM PublishingIsAtomic == Spec => ImplementsRegister
<1>1. Init => Register!RegisterInit
  BY RegisterStarts
<1>2. Inv /\ [Next]_vars => [Register!RegisterNext]_Register!registerVars
  BY StepRegister DEF Register!registerVars, Graphs, Graph, Shown
<1>3. QED
  BY <1>1, <1>2, Invariance, PTL DEF Spec, ImplementsRegister, Register!RegisterSpec

----------------------------------------------------------------------------
(* The published index: its types. *)

\* Every variable has its type in every reachable state.
THEOREM IndexTypeCorrect == IndexSpec => []IndexTypeOK
<1>1. IndexInit => IndexTypeOK
  BY DEF IndexInit, IndexTypeOK, Cursor, NoCursor
<1>2. IndexTypeOK /\ [IndexNext]_indexVars => IndexTypeOK'
  <2> SUFFICES ASSUME IndexTypeOK, [IndexNext]_indexVars PROVE IndexTypeOK'
    OBVIOUS
  <2> USE IndexAssumption DEF IndexTypeOK
  <2>1. CASE Tick
    BY <2>1 DEF Tick, walk
  <2>2. ASSUME NEW s \in Slugs, UpsertBegin(s) PROVE IndexTypeOK'
    BY <2>2 DEF UpsertBegin, walk
  <2>3. ASSUME NEW s \in Slugs, Unpublish(s) PROVE IndexTypeOK'
    BY <2>3 DEF Unpublish
  <2>4. ASSUME NEW s \in Slugs, NEW t \in 1..MaxClock, UpsertCommit(s, t)
        PROVE IndexTypeOK'
    BY <2>4 DEF UpsertCommit, FirstPublishedAt, walk
  <2>5. ASSUME NEW s \in Slugs, NEW t \in 1..MaxClock, UpsertAbort(s, t)
        PROVE IndexTypeOK'
    BY <2>5 DEF UpsertAbort, walk
  <2>6. ASSUME NEW limit \in Limits, LastPage(limit) PROVE IndexTypeOK'
    BY <2>6 DEF LastPage, Give, Rest, Indexed, rows, Cursor, NoCursor
  <2>7. ASSUME NEW limit \in Limits, FullPage(limit) PROVE IndexTypeOK'
    <3>1. PICK page \in SUBSET Rest : Give(page) /\ \E last \in page :
            cursor' = [state |-> "next", at |-> first[last], slug |-> last]
      BY <2>7 DEF FullPage
    <3>2. PICK last \in page :
            cursor' = [state |-> "next", at |-> first[last], slug |-> last]
      BY <3>1
    <3>3. page \subseteq Slugs /\ last \in Slugs
      BY <3>1, <3>2 DEF Rest, Indexed
    <3>4. cursor' \in Cursor
      BY <3>2, <3>3 DEF Cursor
    <3> QED
      BY <2>7, <3>1, <3>3, <3>4 DEF FullPage, Give, Indexed, rows
  <2>8. CASE NewWalk
    BY <2>8 DEF NewWalk, rows, Cursor, NoCursor
  <2>9. CASE UNCHANGED indexVars
    BY <2>9 DEF indexVars
  <2> QED
    BY <2>1, <2>2, <2>3, <2>4, <2>5, <2>6, <2>7, <2>8, <2>9 DEF IndexNext, Page
<1> QED
  BY <1>1, <1>2, PTL DEF IndexSpec

----------------------------------------------------------------------------
(* The published index: a walk never skips or repeats a service that stays   *)
(* published.                                                               *)

\* NeverSkipsOrRepeats is not inductive: it says nothing of a walk under way.
\* There, of the services that stay published, the ones listed are exactly
\* the ones that are not after the cursor.
ListedUpToCursor ==
  /\ cursor.state = "start" => given = {} /\ twice = {} /\ steady = {}
  /\ steady \subseteq Indexed
  /\ cursor.state = "next" => \A s \in steady : s \in given <=> ~AfterCursor(s)

WalkInv == ListedUpToCursor /\ NeverSkipsOrRepeats

\* A change of the rows that leaves the steady ones alone keeps the invariant.
LEMMA RowsOfOthers ==
  ASSUME IndexTypeOK, WalkInv, UNCHANGED walk, first' \in [Slugs -> Nat],
         \A s \in steady : first'[s] = first[s]
  PROVE  WalkInv'
<1>1. \A s \in steady : AfterCursor(s)' <=> AfterCursor(s)
  BY DEF AfterCursor, walk
<1>2. steady \subseteq Indexed'
  BY DEF IndexTypeOK, WalkInv, ListedUpToCursor, Indexed
<1> QED
  BY <1>1, <1>2 DEF WalkInv, ListedUpToCursor, NeverSkipsOrRepeats, walk

\* What a page adds, whether or not it is the first: the services that stay
\* published and were listed before it are the ones not in Rest.
LEMMA ListedAndRest ==
  ASSUME IndexTypeOK, WalkInv, cursor.state # "end",
         NEW page \in SUBSET Rest, Give(page)
  PROVE  /\ steady' \subseteq Indexed
         /\ given' = given \cup page
         /\ twice' \cap steady' = {}
         /\ \A s \in steady' : s \in given <=> s \notin Rest
<1>1. CASE cursor.state = "start"
  BY <1>1 DEF IndexTypeOK, WalkInv, ListedUpToCursor, Give, Rest, AfterCursor
<1>2. CASE cursor.state = "next"
  <2>1. steady' = steady
    BY <1>2 DEF Give
  <2>2. \A s \in steady : s \in given <=> s \notin Rest
    BY <1>2 DEF WalkInv, ListedUpToCursor, Rest
  <2>3. (page \cap given) \cap steady = {}
    BY <2>2
  <2> QED
    BY <2>1, <2>2, <2>3 DEF WalkInv, ListedUpToCursor, NeverSkipsOrRepeats, Give
<1> QED
  BY <1>1, <1>2 DEF IndexTypeOK, Cursor

\* A walk through the index never skips or repeats a service that stays
\* published throughout (ListPublishedServiceSummaries), with any number of
\* services and any page sizes.
THEOREM WalkIsComplete == IndexSpec => []NeverSkipsOrRepeats
<1>1. IndexInit => WalkInv
  BY DEF IndexInit, WalkInv, ListedUpToCursor, NeverSkipsOrRepeats, NoCursor
<1>2. IndexTypeOK /\ IndexTypeOK' /\ WalkInv /\ [IndexNext]_indexVars => WalkInv'
  <2> SUFFICES ASSUME IndexTypeOK, IndexTypeOK', WalkInv, [IndexNext]_indexVars PROVE WalkInv'
    OBVIOUS
  <2> USE IndexAssumption
  <2>1. CASE Tick
    BY <2>1, RowsOfOthers DEF Tick, IndexTypeOK
  <2>2. ASSUME NEW s \in Slugs, UpsertBegin(s) PROVE WalkInv'
    BY <2>2, RowsOfOthers DEF UpsertBegin, IndexTypeOK
  <2>3. ASSUME NEW s \in Slugs, Unpublish(s) PROVE WalkInv'
    <3>1. /\ steady' = steady \ {s}
          /\ UNCHANGED <<cursor, given, twice>>
          /\ \A u \in steady' : first'[u] = first[u]
      BY <2>3 DEF Unpublish, IndexTypeOK
    <3>2. \A u \in steady' : AfterCursor(u)' <=> AfterCursor(u)
      BY <3>1 DEF AfterCursor
    <3>3. steady' \subseteq Indexed'
      BY <3>1 DEF IndexTypeOK, WalkInv, ListedUpToCursor, Indexed
    <3> QED
      BY <3>1, <3>2, <3>3 DEF WalkInv, ListedUpToCursor, NeverSkipsOrRepeats
  <2>4. ASSUME NEW s \in Slugs, NEW t \in 1..MaxClock, UpsertCommit(s, t)
        PROVE WalkInv'
    <3>1. \A u \in steady : first'[u] = first[u]
      BY <2>4 DEF UpsertCommit, FirstPublishedAt, IndexTypeOK, WalkInv,
                  ListedUpToCursor, Indexed
    <3> QED
      BY <2>4, <3>1, RowsOfOthers DEF UpsertCommit, IndexTypeOK
  <2>5. ASSUME NEW s \in Slugs, NEW t \in 1..MaxClock, UpsertAbort(s, t)
        PROVE WalkInv'
    BY <2>5, RowsOfOthers DEF UpsertAbort, IndexTypeOK
  <2>6. ASSUME NEW limit \in Limits, LastPage(limit) PROVE WalkInv'
    <3>1. cursor'.state = "end" /\ cursor.state # "end" /\ Give(Rest) /\ first' = first
      BY <2>6 DEF LastPage, NoCursor, rows
    <3>2. /\ steady' \subseteq Indexed
          /\ given' = given \cup Rest
          /\ twice' \cap steady' = {}
          /\ \A s \in steady' : s \in given <=> s \notin Rest
      BY <3>1, ListedAndRest
    <3> QED
      BY <3>1, <3>2 DEF WalkInv, ListedUpToCursor, NeverSkipsOrRepeats, Indexed
  <2>7. ASSUME NEW limit \in Limits, FullPage(limit) PROVE WalkInv'
    <3>1. PICK page \in SUBSET Rest :
            /\ \A s \in page, t \in Rest \ page : Precedes(s, t)
            /\ Give(page)
            /\ \E last \in page :
                 /\ \A s \in page \ {last} : Precedes(s, last)
                 /\ cursor' = [state |-> "next", at |-> first[last], slug |-> last]
      BY <2>7 DEF FullPage
    <3>2. PICK last \in page :
            /\ \A s \in page \ {last} : Precedes(s, last)
            /\ cursor' = [state |-> "next", at |-> first[last], slug |-> last]
      BY <3>1
    <3>3. cursor.state # "end" /\ first' = first
      BY <2>7 DEF FullPage, rows
    <3>4. /\ steady' \subseteq Indexed
          /\ given' = given \cup page
          /\ twice' \cap steady' = {}
          /\ \A s \in steady' : s \in given <=> s \notin Rest
      BY <3>1, <3>3, ListedAndRest
    <3>5. ASSUME NEW s \in steady' PROVE s \in given' <=> ~AfterCursor(s)'
      <4>1. s \in Slugs /\ last \in Slugs /\ last \in Rest /\ s \in Indexed
        BY <3>4 DEF Rest, Indexed
      <4>2. s \in Nat /\ last \in Nat /\ first[s] \in Nat /\ first[last] \in Nat
        BY <4>1 DEF IndexTypeOK
      <4>3. AfterCursor(s)' <=> \/ first[s] < first[last]
                                \/ first[s] = first[last] /\ s > last
        BY <3>2, <3>3 DEF AfterCursor
      <4>4. CASE s \in page
        BY <3>2, <3>4, <4>2, <4>3, <4>4 DEF Precedes
      <4>5. CASE s \in Rest \ page
        BY <3>1, <3>4, <4>2, <4>3, <4>5 DEF Precedes
      <4>6. CASE s \notin Rest
        <5>1. cursor.state = "next" /\ cursor.at \in Nat /\ cursor.slug \in Nat
          BY <3>3, <4>1, <4>6 DEF IndexTypeOK, Cursor, Rest, AfterCursor
        <5>2. /\ ~(first[s] < cursor.at \/ (first[s] = cursor.at /\ s > cursor.slug))
              /\ \/ first[last] < cursor.at
                 \/ first[last] = cursor.at /\ last > cursor.slug
          BY <4>1, <4>6, <5>1 DEF Rest, AfterCursor
        <5> QED
          BY <3>4, <4>2, <4>3, <4>6, <5>1, <5>2
      <4> QED
        BY <4>4, <4>5, <4>6
    <3>6. cursor'.state = "next"
      BY <3>2
    <3> QED
      BY <3>3, <3>4, <3>5, <3>6
      DEF WalkInv, ListedUpToCursor, NeverSkipsOrRepeats, Indexed
  <2>8. CASE NewWalk
    BY <2>8 DEF NewWalk, NoCursor, WalkInv, ListedUpToCursor, NeverSkipsOrRepeats
  <2>9. CASE UNCHANGED indexVars
    BY <2>9, RowsOfOthers DEF indexVars, walk, IndexTypeOK
  <2> QED
    BY <2>1, <2>2, <2>3, <2>4, <2>5, <2>6, <2>7, <2>8, <2>9 DEF IndexNext, Page
<1>3. WalkInv => NeverSkipsOrRepeats
  BY DEF WalkInv
<1> QED
  BY <1>1, <1>2, <1>3, IndexTypeCorrect, PTL DEF IndexSpec

============================================================================
