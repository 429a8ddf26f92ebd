------------------------ MODULE CoderRunSerialProofs ------------------------
(***************************************************************************)
(* Proofs about CoderRun with one worker, one dashboard request at a time  *)
(* and no other channel, for any number of runs and approvals, any faults  *)
(* and executors: an approval is used once, a refused one never, a run     *)
(* waits for one review at a time, a report is about the latest coding of  *)
(* its run, and a published run stays completed.  Nothing in the code      *)
(* guards any of this; it follows from where an approval can be.           *)
(***************************************************************************)
EXTENDS CoderRunProofs

\* One worker, decisions by one dashboard request at a time.
Serial ==
  /\ Workers # {} /\ \A j, k \in Workers : j = k
  /\ \A p, q \in Requests : p = q
  /\ Channels \subseteq {"hub"}

-----------------------------------------------------------------------------
(* Where an approval is on its way from the review to the stage behind it *)

Waits(a)    == approval[a].status = "pending"
Asks(q, a)  == request[q].step # "idle" /\ request[q].appr = a
Queued(a)   == \E i \in 1..Len(resumeQ) : resumeQ[i].appr = a
Takes(k, a) == pc[k] \in ResumeSteps /\ job[k].appr = a
Early(k, a) == Takes(k, a) /\ pc[k] \notin AfterCheck \ {"resume_context"}

\* Its decision may still move the run.
Live(a) == Waits(a) \/ (\E q \in Requests : Asks(q, a)) \/ Queued(a)
           \/ (\E k \in Workers : Takes(k, a))

\* It is in one place at a time: no second request, event or resume.
PlacesOK ==
  /\ \A a \in Approvals :
       /\ Waits(a) => ~Queued(a)
       /\ \A k \in Workers : Waits(a) \/ Queued(a) => ~Takes(k, a)
       /\ \A q \in Requests : Asks(q, a) =>
            /\ ~Queued(a)
            /\ Waits(a) => request[q].step = "commit"
            /\ \A k \in Workers : ~Takes(k, a)
  /\ \A i, j \in 1..Len(resumeQ) : resumeQ[i].appr = resumeQ[j].appr => i = j

\* It has not been used as long as it is on its way, and stays approved then.
UseOK ==
  /\ \A a \in Approvals :
       /\ Waits(a) \/ Queued(a) => advanced[a] = 0
       /\ \A q \in Requests : Asks(q, a) => advanced[a] = 0
       /\ \A k \in Workers : Early(k, a) \/ a \in stale[k].apprs => advanced[a] = 0
       /\ advanced[a] <= 1
       /\ advanced[a] > 0 => approval[a].status = "approved"
  /\ \A k \in Workers :
       /\ pc[k] \in {"decide", "check_decision"} => seen[k] = approval[job[k].appr].status
       /\ pc[k] \in AfterCheck => approval[job[k].appr].status = "approved"
       /\ pc[k] # "expire" => stale[k] = NothingStale

Before(s, t) == (s = "impact" /\ t # "impact") \/ (s = "plan" /\ t = "publish")

\* Only the newest review of a run is live, and none before the first.
OrderOK ==
  /\ \A a, b \in Approvals :
       Live(a) /\ Exists(b) /\ approval[a].run = approval[b].run /\ a # b
         => Before(approval[b].stage, approval[a].stage)
  /\ \A a \in Approvals : Exists(a) => runStatus[approval[a].run] # "new"
  /\ \A k \in Workers : pc[k] \in StartSteps =>
       /\ runStatus[job[k].run] # "new"
       /\ \A a \in Approvals : Exists(a) => approval[a].run # job[k].run

\* From the report on nothing is coded any more.
BranchOK ==
  /\ \A a \in Approvals :
       Exists(a) /\ approval[a].stage = "publish" => branch[approval[a].run] = "checked"
  /\ \A k \in Workers : pc[k] = "report" => branch[job[k].run] = "checked"

\* A published run has nothing under way that could change it again.
PublishedOK ==
  /\ \A a \in Approvals : Live(a) /\ approval[a].run \in published =>
       \E k \in Workers : pc[k] = "record_publish" /\ job[k].appr = a
  /\ \A k \in Workers :
       /\ pc[k] \in {"finalize", "reply"} /\ job[k].run \in published
            => outcome[k] = "completed" /\ job[k].appr # NoApproval
       /\ stale[k].runs \cap published = {}
       /\ \A a \in stale[k].todo : approval[a].run \notin published

SInv == PlacesOK /\ UseOK /\ OrderOK /\ BranchOK /\ PublishedOK

USE CoderRunAssumption

LEMMA SerialInit == Init => SInv
<1> SUFFICES ASSUME Init PROVE SInv
  OBVIOUS
<1>1. /\ \A a \in Approvals : approval[a].status = "absent" /\ advanced[a] = 0
      /\ \A q \in Requests : request[q].step = "idle"
      /\ \A k \in Workers : pc[k] = "idle" /\ stale[k] = NothingStale
      /\ resumeQ = <<>> /\ published = {}
  BY DEF Init, NoRow, NoRequest
<1>2. \A a \in Approvals :
        /\ ~Exists(a) /\ ~Waits(a) /\ ~Queued(a)
        /\ \A q \in Requests : ~Asks(q, a)
        /\ \A k \in Workers : ~Takes(k, a) /\ ~Early(k, a) /\ a \notin stale[k].apprs
  BY <1>1 DEF Exists, Waits, Queued, Asks, Takes, Early, ResumeSteps, NothingStale
<1>3. PlacesOK
  BY <1>1, <1>2 DEF PlacesOK
<1>4. UseOK
  BY <1>1, <1>2 DEF UseOK, AfterCheck, ResumeSteps
<1>5. OrderOK /\ BranchOK
  BY <1>1, <1>2 DEF OrderOK, BranchOK, StartSteps
<1>6. PublishedOK
  BY <1>1 DEF PublishedOK
<1> QED
  BY <1>3, <1>4, <1>5, <1>6 DEF SInv

-----------------------------------------------------------------------------
(* What follows from it *)

LEMMA LiveExists ==
  ASSUME IInv, NEW a \in Approvals, Live(a)
  PROVE  Exists(a) /\ approval[a].run \in Runs
<1>1. CASE Waits(a)
  BY <1>1 DEF Waits, Exists, IInv, RowsOK
<1>2. ASSUME NEW q \in Requests, Asks(q, a) PROVE Exists(a)
  BY <1>2 DEF Asks, IInv, CarriedOK
<1>3. CASE Queued(a)
  BY <1>3 DEF Queued, IInv, CarriedOK, Genuine, RowsOK
<1>4. ASSUME NEW k \in Workers, Takes(k, a) PROVE Exists(a)
  BY <1>4 DEF Takes, IInv, WorkerOK, Genuine
<1> QED
  BY <1>1, <1>2, <1>3, <1>4 DEF Live, IInv, RowsOK

\* The approval a worker resumes from is a live one of its run.
LEMMA Resuming ==
  ASSUME IInv, NEW k \in Workers, pc[k] \in ResumeSteps
  PROVE  /\ job[k].appr \in Approvals /\ Takes(k, job[k].appr) /\ Live(job[k].appr)
         /\ Exists(job[k].appr) /\ approval[job[k].appr].run = job[k].run /\ job[k].run \in Runs
<1>1. job[k].appr # NoApproval /\ Genuine(job[k])
  BY DEF IInv, WorkerOK
<1>2. job[k].run \in Runs
  BY <1>1 DEF IInv, RowsOK, Genuine
<1> QED
  BY <1>1, <1>2 DEF Genuine, Takes, Live

LEMMA StillUnpublished ==
  ASSUME Serial, IInv, SInv, NEW k \in Workers,
         pc[k] \in StartSteps \/ pc[k] \in ResumeSteps \ {"record_publish"}
  PROVE  job[k].run \notin published
<1>1. CASE pc[k] \in StartSteps
  <2>1. \A a \in Approvals : Exists(a) => approval[a].run # job[k].run
    BY <1>1 DEF SInv, OrderOK
  <2>2. job[k].run \in Runs
    BY <1>1 DEF IInv, WorkerOK, StartSteps
  <2>3. job[k].run \in published => \E a \in approved : approval[a].run = job[k].run
    BY <2>2 DEF IInv, ThreeGates, Granted
  <2>4. \A a \in approved : a \in Approvals /\ Exists(a)
    BY DEF IInv, RowsOK, TypeOK
  <2> QED
    BY <2>1, <2>3, <2>4
<1>2. CASE pc[k] \in ResumeSteps \ {"record_publish"}
  BY <1>2, Resuming DEF SInv, PublishedOK, Serial
<1> QED
  BY <1>1, <1>2

-----------------------------------------------------------------------------
(* Steps of the worker that leave reviews, requests and list alone *)

Walks(k) ==
  /\ UNCHANGED <<approval, resumeQ, request>>
  /\ \A a \in Approvals :
       /\ Takes(k, a)' => Takes(k, a)
       /\ Early(k, a)' => Early(k, a)
       /\ \/ advanced'[a] = advanced[a]
          \/ /\ Early(k, a) /\ ~Early(k, a)'
             /\ approval[a].status = "approved" /\ advanced'[a] = 1
  /\ pc'[k] \in {"decide", "check_decision"} => seen'[k] = approval[job'[k].appr].status
  /\ pc'[k] \in AfterCheck => approval[job'[k].appr].status = "approved"
  /\ pc'[k] # "expire" /\ stale'[k] = NothingStale
  /\ \A r \in Runs : runStatus'[r] = "new" => runStatus[r] = "new"
  /\ pc'[k] \in StartSteps => pc[k] \in StartSteps /\ job'[k] = job[k]
  /\ \A r \in Runs :
       \/ branch'[r] \in {branch[r], "checked"}
       \/ \A a \in Approvals :
            Exists(a) /\ approval[a].run = r => approval[a].stage # "publish"
  /\ pc'[k] = "report" => branch'[job'[k].run] = "checked"
  /\ \A r \in published' :
       \/ r \in published
       \/ pc[k] = "publish" /\ r = job[k].run /\ pc'[k] = "record_publish" /\ job'[k] = job[k]
  /\ pc[k] = "record_publish" => pc'[k] \notin ResumeSteps
  /\ pc'[k] \in {"finalize", "reply"} /\ job'[k].run \in published'
       => outcome'[k] = "completed" /\ job'[k].appr # NoApproval

LEMMA WalkStep ==
  ASSUME Serial, IInv, SInv, NEW k \in Workers, Walks(k)
  PROVE  SInv'
<1>0. Workers = {k}
  BY DEF Serial
<1>1. UNCHANGED <<approval, resumeQ, request>>
  BY DEF Walks
<1>2. \A a \in Approvals :
        /\ Waits(a)' <=> Waits(a)
        /\ Queued(a)' <=> Queued(a)
        /\ \A q \in Requests : Asks(q, a)' <=> Asks(q, a)
        /\ Takes(k, a)' => Takes(k, a)
        /\ Exists(a)' <=> Exists(a)
  BY <1>1 DEF Walks, Waits, Queued, Asks, Exists
<1>3. \A a \in Approvals : Live(a)' => Live(a)
  BY <1>0, <1>2 DEF Live
<1>4. PlacesOK'
  BY <1>0, <1>1, <1>2 DEF SInv, PlacesOK
<1>5. UseOK'
  <2>1. ASSUME NEW a \in Approvals
        PROVE  /\ Waits(a)' \/ Queued(a)' => advanced'[a] = 0
               /\ \A q \in Requests : Asks(q, a)' => advanced'[a] = 0
               /\ Early(k, a)' => advanced'[a] = 0
               /\ advanced'[a] <= 1
               /\ advanced'[a] > 0 => approval[a].status = "approved"
    <3>1. CASE advanced'[a] = advanced[a]
      BY <1>2, <3>1 DEF SInv, UseOK, Walks
    <3>2. CASE advanced'[a] # advanced[a]
      <4>1. /\ Takes(k, a) /\ ~Early(k, a)'
            /\ approval[a].status = "approved" /\ advanced'[a] = 1
        BY <3>2 DEF Walks, Early
      <4>2. ~Waits(a) /\ ~Queued(a) /\ \A q \in Requests : ~Asks(q, a)
        BY <4>1 DEF SInv, PlacesOK
      <4> QED
        BY <1>2, <4>1, <4>2
    <3> QED
      BY <3>1, <3>2
  <2>2. \A a \in Approvals : a \notin stale'[k].apprs
    BY DEF Walks, NothingStale
  <2> QED
    BY <1>0, <1>1, <2>1, <2>2 DEF UseOK, Walks
<1>6. OrderOK'
  <2>1. \A a \in Approvals : Exists(a) => approval[a].run \in Runs
    BY DEF IInv, RowsOK
  <2>2. pc[k] \in StartSteps => job[k].run \in Runs
    BY DEF IInv, WorkerOK, StartSteps
  <2> QED
    BY <1>0, <1>1, <1>2, <1>3, <2>1, <2>2 DEF SInv, OrderOK, Walks
<1>7. BranchOK'
  <2>1. \A a \in Approvals : Exists(a) => approval[a].run \in Runs
    BY DEF IInv, RowsOK
  <2> QED
    BY <1>0, <1>1, <1>2, <2>1 DEF SInv, BranchOK, Walks
<1>8. PublishedOK'
  <2>1. ASSUME NEW a \in Approvals, Live(a)', approval[a].run \in published'
        PROVE  pc'[k] = "record_publish" /\ job'[k].appr = a
    <3>1. Live(a)
      BY <1>3, <2>1
    <3>2. CASE approval[a].run \in published
      <4>1. pc[k] = "record_publish" /\ job[k].appr = a
        BY <1>0, <3>1, <3>2 DEF SInv, PublishedOK
      <4>2. pc'[k] \notin ResumeSteps
        BY <4>1 DEF Walks
      <4>3. Takes(k, a)
        BY <4>1 DEF Takes, ResumeSteps
      <4>4. ~Waits(a) /\ ~Queued(a) /\ \A q \in Requests : ~Asks(q, a)
        BY <4>3 DEF SInv, PlacesOK
      <4>5. ~Takes(k, a)'
        BY <4>2 DEF Takes
      <4> QED
        BY <1>0, <1>2, <2>1, <4>4, <4>5 DEF Live
    <3>3. CASE approval[a].run \notin published
      <4>1. /\ pc[k] = "publish" /\ approval[a].run = job[k].run
            /\ pc'[k] = "record_publish" /\ job'[k] = job[k]
        BY <2>1, <3>3 DEF Walks
      <4>2. /\ job[k].appr \in Approvals /\ Live(job[k].appr) /\ Exists(job[k].appr)
            /\ approval[job[k].appr].run = job[k].run
        BY <4>1, Resuming DEF ResumeSteps
      <4>3. Exists(a)
        BY <3>1, LiveExists
      <4>4. a = job[k].appr
        BY <3>1, <4>1, <4>2, <4>3 DEF SInv, OrderOK, Before
      <4> QED
        BY <4>1, <4>4
    <3> QED
      BY <3>2, <3>3
  <2>2. stale'[k].runs \cap published' = {} /\ stale'[k].todo = {}
    BY DEF Walks, NothingStale
  <2> QED
    BY <1>0, <1>1, <2>1, <2>2 DEF PublishedOK, Walks
<1> QED
  BY <1>4, <1>5, <1>6, <1>7, <1>8 DEF SInv

\* A worker that is done with its payload, or was never on one, has no more of it.
LEMMA Leaves ==
  ASSUME SInv, NEW k \in Workers, k \in DOMAIN pc,
         UNCHANGED <<approval, resumeQ, request, branch, published, advanced>>,
         pc'[k] \in {"idle", "finalize", "reply"},
         stale'[k] = NothingStale,
         \A r \in Runs : runStatus'[r] = "new" => runStatus[r] = "new",
         pc'[k] # "idle" /\ job'[k].run \in published
           => outcome'[k] = "completed" /\ job'[k].appr # NoApproval
  PROVE  Walks(k)
<1>1. /\ pc'[k] \notin ResumeSteps /\ pc'[k] \notin AfterCheck /\ pc'[k] \notin StartSteps
      /\ pc'[k] \notin {"decide", "check_decision", "expire", "report"}
  BY DEF ResumeSteps, AfterCheck, StartSteps
<1>2. \A a \in Approvals : ~Takes(k, a)' /\ ~Early(k, a)'
  BY <1>1 DEF Takes, Early
<1> QED
  BY <1>1, <1>2 DEF Walks

\* A worker that goes on with the same payload.
LEMMA GoesOn ==
  ASSUME IInv, SInv, NEW k \in Workers, pc[k] \in ResumeSteps \ {"record_publish"},
         UNCHANGED <<approval, resumeQ, request, branch, published, advanced>>,
         job'[k] = job[k], stale'[k] = stale[k],
         \A r \in Runs : runStatus'[r] = "new" => runStatus[r] = "new",
         pc'[k] \in ResumeSteps \ {"report"},
         pc'[k] \in {"read_approval", "decide", "check_decision", "resume_context"}
           => pc[k] \in {"read_approval", "decide", "check_decision", "resume_context"},
         pc'[k] \in {"decide", "check_decision"} => seen'[k] = approval[job[k].appr].status,
         pc'[k] \in AfterCheck => approval[job[k].appr].status = "approved"
  PROVE  Walks(k)
<1>1. pc'[k] \notin StartSteps \cup {"expire", "finalize", "reply"} /\ pc[k] # "expire"
  BY DEF ResumeSteps, StartSteps
<1>2. \A a \in Approvals : Takes(k, a)' => Takes(k, a)
  BY DEF Takes
<1>3. \A a \in Approvals : Early(k, a)' => Early(k, a)
  BY <1>2 DEF Early, Takes, AfterCheck, ResumeSteps
<1>4. stale'[k] = NothingStale
  BY <1>1 DEF SInv, UseOK
<1> QED
  BY <1>1, <1>2, <1>3, <1>4 DEF Walks

LEMMA StartWalks ==
  ASSUME Serial, IInv, SInv, NEW k \in Workers, Route(k) \/ LoadContext(k)
  PROVE  Walks(k)
<1> USE DEF tables, worker, history
<1>0. TypeOK
  BY DEF IInv
<1>1. pc[k] \in StartSteps /\ pc[k] \notin ResumeSteps
  BY DEF Route, LoadContext, StartSteps, ResumeSteps
<1>2. /\ UNCHANGED <<approval, resumeQ, request, branch, published, advanced, job, seen, stale, runStatus>>
      /\ pc'[k] \in {"finalize", "load_context", "assess_impact"}
  BY <1>0 DEF Route, LoadContext, Return, Goto, TypeOK
<1>3. job[k].run \notin published
  BY <1>1, StillUnpublished
<1>4. stale[k] = NothingStale
  BY <1>1 DEF SInv, UseOK, StartSteps
<1>5. pc'[k] \notin ResumeSteps \cup {"expire", "report", "reply"}
  BY <1>2 DEF ResumeSteps
<1>6. pc'[k] \notin AfterCheck /\ pc'[k] \notin {"decide", "check_decision"}
  BY <1>5 DEF AfterCheck, ResumeSteps
<1>7. \A a \in Approvals : ~Takes(k, a)' /\ ~Early(k, a)'
  BY <1>5 DEF Takes, Early
<1> QED
  BY <1>1, <1>2, <1>3, <1>4, <1>5, <1>6, <1>7 DEF Walks, StartSteps

LEMMA GraphFailsWalks ==
  ASSUME Serial, IInv, SInv, NEW k \in Workers, GraphFails(k)
  PROVE  Walks(k)
<1> USE DEF tables, worker, history
<1>0. TypeOK
  BY DEF IInv
<1>1. /\ UNCHANGED <<approval, resumeQ, request, branch, published, advanced, stale>>
      /\ pc'[k] = "idle" /\ k \in DOMAIN pc
  BY <1>0 DEF GraphFails, Goto, TypeOK
<1>2. \A r \in Runs : runStatus'[r] \in {runStatus[r], "failed"}
  BY <1>0 DEF GraphFails, SetRun, TypeOK
<1>3. stale[k] = NothingStale
  <2>1. pc[k] # "expire"
    BY DEF GraphFails, StartSteps
  <2> QED
    BY <2>1 DEF SInv, UseOK
<1> QED
  BY <1>1, <1>2, <1>3, Leaves

LEMMA ReadWalks ==
  ASSUME Serial, IInv, SInv, NEW k \in Workers, ReadApproval(k)
  PROVE  Walks(k)
<1> USE DEF tables, worker, history
<1>0. TypeOK
  BY DEF IInv
<1>1. /\ UNCHANGED <<approval, resumeQ, request, branch, published, advanced, job, stale, runStatus>>
      /\ pc[k] = "read_approval" /\ k \in DOMAIN pc
  BY <1>0 DEF ReadApproval, TypeOK
<1>2. CASE pc'[k] = "finalize"
  <2>1. job[k].run \notin published
    BY <1>1, StillUnpublished DEF ResumeSteps
  <2>2. stale[k] = NothingStale
    BY <1>1 DEF SInv, UseOK
  <2> QED
    BY <1>1, <1>2, <2>1, <2>2, Leaves
<1>3. CASE pc'[k] = "decide" /\ seen'[k] = approval[job[k].appr].status
  BY <1>1, <1>3, GoesOn DEF ResumeSteps, AfterCheck
<1> QED
  BY <1>0, <1>2, <1>3 DEF ReadApproval, Return, Goto, TypeOK

\* A review that is taken up is decided already: nothing is written.
LEMMA DecideWalks ==
  ASSUME Serial, IInv, SInv, NEW k \in Workers, Decide(k)
  PROVE  Walks(k)
<1> USE DEF tables, worker, history
<1>0. TypeOK
  BY DEF IInv
<1>1. pc[k] = "decide" /\ pc[k] \in ResumeSteps
  BY DEF Decide, ResumeSteps
<1>2. seen[k] = approval[job[k].appr].status /\ seen[k] # "pending"
  BY <1>1, Resuming DEF SInv, UseOK, PlacesOK, Waits
<1>3. /\ UNCHANGED <<approval, resumeQ, request, branch, published, advanced, job, stale,
                     runStatus, seen>>
      /\ pc'[k] = "check_decision"
  BY <1>0, <1>2 DEF Decide, Goto, TypeOK
<1> QED
  BY <1>1, <1>2, <1>3, GoesOn DEF ResumeSteps, AfterCheck

LEMMA CheckWalks ==
  ASSUME Serial, IInv, SInv, NEW k \in Workers, CheckDecision(k)
  PROVE  Walks(k)
<1> USE DEF tables, worker, history
<1>0. TypeOK
  BY DEF IInv
<1>1. pc[k] = "check_decision" /\ pc[k] \in ResumeSteps
  BY DEF CheckDecision, ResumeSteps
<1>2. StatusSeen(k) = approval[job[k].appr].status
  BY <1>1 DEF SInv, UseOK, StatusSeen
<1>3. UNCHANGED <<approval, resumeQ, request, branch, published, advanced, job, stale>> /\ k \in DOMAIN pc
  BY <1>0 DEF CheckDecision, TypeOK
<1>4. \A r \in Runs : runStatus'[r] \in {runStatus[r], "rejected"}
  BY <1>0 DEF CheckDecision, SetRun, TypeOK
<1>5. CASE pc'[k] = "finalize"
  <2>1. job[k].run \notin published
    BY <1>1, StillUnpublished
  <2>2. stale[k] = NothingStale
    BY <1>1 DEF SInv, UseOK
  <2> QED
    BY <1>3, <1>4, <1>5, <2>1, <2>2, Leaves
<1>6. CASE pc'[k] = "resume_context" /\ approval[job[k].appr].status = "approved"
  BY <1>1, <1>3, <1>4, <1>6, GoesOn DEF ResumeSteps
<1> QED
  BY <1>0, <1>2, <1>5, <1>6 DEF CheckDecision, Return, Goto, TypeOK

LEMMA ContextWalks ==
  ASSUME Serial, IInv, SInv, NEW k \in Workers, ResumeContext(k)
  PROVE  Walks(k)
<1> USE DEF tables, worker, history
<1> DEFINE a == job[k].appr
<1>0. TypeOK
  BY DEF IInv
<1>1. pc[k] = "resume_context" /\ pc[k] \in ResumeSteps /\ pc[k] \in AfterCheck
  BY DEF ResumeContext, ResumeSteps, AfterCheck
<1>2. /\ UNCHANGED <<approval, resumeQ, request, branch, published, job, stale, runStatus>>
      /\ k \in DOMAIN pc
  BY <1>0 DEF ResumeContext, TypeOK
<1>3. a \in Approvals /\ approval[a].status = "approved" /\ Early(k, a) /\ stale[k] = NothingStale
  BY <1>1, Resuming DEF SInv, UseOK, Early
<1>4. CASE pc'[k] = "finalize" /\ UNCHANGED advanced
  <2>1. job[k].run \notin published
    BY <1>1, StillUnpublished
  <2> QED
    BY <1>2, <1>3, <1>4, <2>1, Leaves
<1>5. CASE /\ pc'[k] = NextStep(approval[a].stage)
           /\ advanced' = [advanced EXCEPT ![a] = IF @ = 2 THEN 2 ELSE @ + 1]
  <2>1. approval[a].stage \in Stages
    BY <1>0, <1>3 DEF TypeOK, Row
  <2>2. pc'[k] \in {"generate_plan", "begin_coding", "publish"}
    BY <1>5, <2>1 DEF NextStep, Stages
  <2>3. pc'[k] \notin {"read_approval", "decide", "check_decision", "resume_context", "expire",
                      "report", "record_publish", "finalize", "reply"} \cup StartSteps
    BY <2>2 DEF StartSteps
  <2>4. \A b \in Approvals : Takes(k, b)' => Takes(k, b)
    BY <1>1, <1>2 DEF Takes
  <2>5. \A b \in Approvals : ~Early(k, b)'
    BY <2>2 DEF Early, AfterCheck, ResumeSteps
  <2>6. advanced[a] = 0
    BY <1>3 DEF SInv, UseOK
  <2>7. \A b \in Approvals : advanced'[b] = IF b = a THEN 1 ELSE advanced[b]
    BY <1>0, <1>3, <1>5, <2>6 DEF TypeOK
  <2> QED
    BY <1>1, <1>2, <1>3, <2>3, <2>4, <2>5, <2>7 DEF Walks
<1> QED
  BY <1>0, <1>4, <1>5 DEF ResumeContext, Return, Goto, TypeOK

LEMMA BaselineWalks ==
  ASSUME Serial, IInv, SInv, NEW k \in Workers, BeginCoding(k) \/ SyncBaseline(k)
  PROVE  Walks(k)
<1> USE DEF tables, worker, history
<1>0. TypeOK
  BY DEF IInv
<1>1. pc[k] \in {"begin_coding", "sync_baseline"} /\ pc[k] \in ResumeSteps /\ pc[k] \in AfterCheck
  BY DEF BeginCoding, SyncBaseline, ResumeSteps, AfterCheck
<1>2. /\ UNCHANGED <<approval, resumeQ, request, branch, published, advanced, job, stale>>
      /\ k \in DOMAIN pc
      /\ \A r \in Runs : runStatus'[r] \in {runStatus[r], "coding"}
  BY <1>0 DEF BeginCoding, SyncBaseline, SetRun, TypeOK
<1>3. job[k].run \notin published /\ stale[k] = NothingStale
  BY <1>1, StillUnpublished DEF SInv, UseOK
<1>4. CASE pc'[k] = "finalize"
  BY <1>2, <1>3, <1>4, Leaves
<1>5. CASE pc'[k] \in {"sync_baseline", "run_coding"}
  <2>1. approval[job[k].appr].status = "approved"
    BY <1>1 DEF SInv, UseOK
  <2>2. pc'[k] \in ResumeSteps \ {"report"}
    BY <1>5 DEF ResumeSteps
  <2> QED
    BY <1>1, <1>2, <1>5, <2>1, <2>2, GoesOn
<1> QED
  BY <1>0, <1>4, <1>5 DEF BeginCoding, SyncBaseline, Return, Goto, TypeOK

\* A plan is coded and tested before there is a report: nothing that was tested
\* for a report is coded on again.
LEMMA WorkWalks ==
  ASSUME Serial, IInv, SInv, NEW k \in Workers, RunCoding(k) \/ RunTests(k)
  PROVE  Walks(k)
<1> USE DEF tables, worker, history
<1> DEFINE a == job[k].appr
           r == job[k].run
<1>0. TypeOK
  BY DEF IInv
<1>1. /\ pc[k] \in {"run_coding", "run_tests"}
      /\ pc[k] \in ResumeSteps /\ pc[k] \in AfterCheck /\ pc[k] \in PlanSteps
  BY DEF RunCoding, RunTests, ResumeSteps, AfterCheck, PlanSteps
<1>2. /\ UNCHANGED <<approval, resumeQ, request, published, advanced, job, stale, runStatus>>
      /\ k \in DOMAIN pc /\ r \in Runs
  BY <1>0, <1>1, Resuming DEF RunCoding, RunTests, TypeOK
<1>3. r \notin published /\ stale[k] = NothingStale
  BY <1>1, StillUnpublished DEF SInv, UseOK
<1>4. \A b \in Approvals : Exists(b) /\ approval[b].run = r => approval[b].stage # "publish"
  <2>1. a \in Approvals /\ Live(a) /\ approval[a].run = r /\ approval[a].stage = "plan"
    BY <1>1, Resuming DEF IInv, WorkerOK
  <2> QED
    BY <2>1 DEF SInv, OrderOK, Before
<1>5. CASE pc'[k] = "finalize" /\ UNCHANGED branch
  BY <1>2, <1>3, <1>5, Leaves
<1>6. CASE \/ pc'[k] = "run_tests" /\ branch' = [branch EXCEPT ![r] = "coded"]
           \/ pc'[k] = "report" /\ branch' = [branch EXCEPT ![r] = "checked"]
  <2>1. approval[a].status = "approved"
    BY <1>1 DEF SInv, UseOK
  <2>2. pc'[k] \in ResumeSteps /\ pc'[k] \in AfterCheck \ {"resume_context"}
    BY <1>6 DEF ResumeSteps, AfterCheck
  <2>3. \A b \in Approvals : (Takes(k, b)' => Takes(k, b)) /\ ~Early(k, b)'
    BY <1>1, <1>2, <2>2 DEF Takes, Early
  <2>4. pc'[k] = "report" => branch'[r] = "checked"
    BY <1>0, <1>2, <1>6 DEF TypeOK
  <2>5. \A s \in Runs : s # r => branch'[s] = branch[s]
    BY <1>0, <1>6 DEF TypeOK
  <2> QED
    BY <1>1, <1>2, <1>3, <1>4, <1>6, <2>1, <2>2, <2>3, <2>4, <2>5 DEF Walks, StartSteps
<1> QED
  BY <1>0, <1>5, <1>6 DEF RunCoding, RunTests, Return, Goto, TypeOK

LEMMA PublishWalks ==
  ASSUME Serial, IInv, SInv, NEW k \in Workers, Publish(k) \/ RecordPublish(k)
  PROVE  Walks(k)
<1> USE DEF tables, worker, history
<1> DEFINE r == job[k].run
<1>0. TypeOK
  BY DEF IInv
<1>1. /\ pc[k] \in {"publish", "record_publish"}
      /\ pc[k] \in ResumeSteps /\ pc[k] \in AfterCheck
  BY DEF Publish, RecordPublish, ResumeSteps, AfterCheck
<1>2. /\ UNCHANGED <<approval, resumeQ, request, branch, advanced, job, stale>>
      /\ k \in DOMAIN pc
      /\ \A s \in Runs : runStatus'[s] \in {runStatus[s], "failed", "completed"}
  BY <1>0 DEF Publish, RecordPublish, SetRun, TypeOK
<1>3. stale[k] = NothingStale /\ job[k].appr # NoApproval
  BY <1>1 DEF SInv, UseOK, IInv, WorkerOK
<1>4. CASE /\ pc'[k] = "finalize" /\ UNCHANGED published
           /\ pc[k] = "record_publish" => outcome'[k] = "completed"
  <2>1. pc[k] = "publish" => r \notin published
    BY <1>1, StillUnpublished
  <2> QED
    BY <1>1, <1>2, <1>3, <1>4, <2>1, Leaves
<1>5. CASE pc[k] = "publish" /\ pc'[k] = "record_publish" /\ published' = published \cup {r}
  <2>1. approval[job[k].appr].status = "approved"
    BY <1>1 DEF SInv, UseOK
  <2>2. pc'[k] \in ResumeSteps /\ pc'[k] \in AfterCheck \ {"resume_context"}
    BY <1>5 DEF ResumeSteps, AfterCheck
  <2>3. \A b \in Approvals : (Takes(k, b)' => Takes(k, b)) /\ ~Early(k, b)'
    BY <1>1, <1>2, <2>2 DEF Takes, Early
  <2> QED
    BY <1>2, <1>3, <1>5, <2>1, <2>3 DEF Walks, StartSteps
<1> QED
  BY <1>0, <1>1, <1>4, <1>5 DEF Publish, RecordPublish, Return, Goto, TypeOK

LEMMA EndWalks ==
  ASSUME Serial, IInv, SInv, NEW k \in Workers, Finalize(k) \/ Reply(k) \/ WorkerDies(k)
  PROVE  Walks(k)
<1> USE DEF tables, worker, history
<1>0. TypeOK
  BY DEF IInv
<1>1. /\ UNCHANGED <<approval, resumeQ, request, branch, published, advanced>>
      /\ pc'[k] \in {"idle", "reply"} /\ k \in DOMAIN pc
  BY <1>0 DEF Finalize, Reply, WorkerDies, Goto, TypeOK
<1>2. stale'[k] = NothingStale
  <2>1. CASE Finalize(k) \/ Reply(k)
    BY <2>1 DEF Finalize, Reply, SInv, UseOK
  <2>2. CASE WorkerDies(k)
    BY <1>0, <2>2 DEF WorkerDies, TypeOK
  <2> QED
    BY <2>1, <2>2
<1>3. ASSUME NEW r \in Runs, runStatus'[r] = "new" PROVE runStatus[r] = "new"
  <2>1. outcome[k] # "new"
    BY <1>0 DEF TypeOK, Outcomes
  <2>2. runStatus'[r] \in {runStatus[r], outcome[k]}
    BY <1>0 DEF Finalize, Reply, WorkerDies, SetRun, TypeOK
  <2> QED
    BY <1>3, <2>1, <2>2
<1>4. pc'[k] # "idle" => Finalize(k)
  BY <1>0 DEF Reply, WorkerDies, Goto, TypeOK
<1>5. Finalize(k) => UNCHANGED <<job, outcome>> /\ pc[k] = "finalize"
  BY DEF Finalize
<1>6. pc'[k] # "idle" /\ job'[k].run \in published
        => outcome'[k] = "completed" /\ job'[k].appr # NoApproval
  BY <1>4, <1>5 DEF SInv, PublishedOK
<1> QED
  BY <1>1, <1>2, <1>3, <1>6, Leaves

-----------------------------------------------------------------------------
(* The other steps of the worker *)

\* A stage ends by asking for the next review: the one it resumed from is no
\* longer live, the new one comes after every review of the run.
LEMMA OpenStep ==
  ASSUME Serial, IInv, SInv, NEW k \in Workers, AssessImpact(k) \/ GeneratePlan(k) \/ Report(k)
  PROVE  SInv'
<1> USE DEF tables, worker, history
<1> DEFINE r == job[k].run
           s == IF pc[k] = "assess_impact" THEN "impact"
                ELSE IF pc[k] = "generate_plan" THEN "plan" ELSE "publish"
<1>0. TypeOK /\ Workers = {k}
  BY DEF IInv, Serial
<1>1. /\ pc[k] \in {"assess_impact", "generate_plan", "report"}
      /\ pc'[k] = "finalize" /\ outcome'[k] = "awaiting_approval"
      /\ UNCHANGED <<resumeQ, request, branch, published, advanced, job, stale, seen>>
  BY <1>0 DEF AssessImpact, GeneratePlan, Report, Return, Goto, TypeOK
<1>2. PICK a \in Approvals :
        /\ approval[a].status = "absent"
        /\ approval' = [approval EXCEPT ![a] = [run |-> r, stage |-> s, status |-> "pending"]]
  BY DEF AssessImpact, GeneratePlan, Report, OpenGate
<1>3. r \in Runs /\ r \notin published /\ stale[k] = NothingStale
  <2>1. r \in Runs
    BY <1>1, RunOfJob
  <2>2. pc[k] \in StartSteps \/ pc[k] \in ResumeSteps \ {"record_publish"}
    BY <1>1 DEF StartSteps, ResumeSteps
  <2> QED
    BY <1>1, <2>1, <2>2, StillUnpublished DEF SInv, UseOK
<1>4. /\ approval'[a] = [run |-> r, stage |-> s, status |-> "pending"]
      /\ \A b \in Approvals : b # a => approval'[b] = approval[b]
  BY <1>0, <1>2 DEF TypeOK
<1>5. \A x \in Runs : runStatus'[x] = IF x = r THEN runStatus'[r] ELSE runStatus[x]
  BY <1>0 DEF AssessImpact, GeneratePlan, Report, OpenGate, SetRun, TypeOK
<1>6. runStatus'[r] # "new"
  BY <1>0, <1>3 DEF AssessImpact, GeneratePlan, Report, OpenGate, SetRun, TypeOK
<1>7. ASSUME NEW b \in Approvals, Exists(b), approval[b].run = r
      PROVE  Before(approval[b].stage, s) /\ ~Live(b)'
  <2>1. CASE pc[k] = "assess_impact"
    BY <1>7, <2>1 DEF SInv, OrderOK, StartSteps
  <2>2. CASE pc[k] # "assess_impact"
    <3>0. pc[k] \in ResumeSteps
      BY <1>1, <2>2 DEF ResumeSteps
    <3>1. PICK c \in Approvals :
            c = job[k].appr /\ Takes(k, c) /\ Live(c) /\ approval[c].run = r
      BY <3>0, Resuming
    <3>2. /\ pc[k] = "generate_plan" => approval[c].stage = "impact"
          /\ pc[k] = "report" => approval[c].stage = "plan"
      BY <3>1 DEF IInv, WorkerOK, PlanSteps
    <3>3. Before(approval[c].stage, s)
      BY <1>1, <2>2, <3>2 DEF Before
    <3>4. b # c => Before(approval[b].stage, approval[c].stage)
      BY <1>7, <3>1 DEF SInv, OrderOK
    <3>5. Before(approval[b].stage, s)
      BY <3>2, <3>3, <3>4, <1>1, <2>2 DEF Before
    <3>6. Live(b) => b = c
      BY <3>1, <3>4, <1>7, LiveExists DEF SInv, OrderOK, Before
    <3>7. ~Takes(k, b)'
      BY <1>1 DEF Takes, ResumeSteps
    <3>8. Live(b)' => Live(b)
      <4>1. b # a
        BY <1>2, <1>7 DEF Exists
      <4> QED
        BY <1>0, <1>1, <1>4, <3>7, <4>1 DEF Live, Waits, Asks, Queued
    <3>9. ~Live(c)'
      <4>1. ~Waits(c) /\ ~Queued(c) /\ \A q \in Requests : ~Asks(q, c)
        BY <3>1 DEF SInv, PlacesOK
      <4>2. c # a
        BY <1>2, <3>1, LiveExists DEF Exists
      <4>3. ~Takes(k, c)'
        BY <1>1 DEF Takes, ResumeSteps
      <4> QED
        BY <1>0, <1>1, <1>4, <3>1, <4>1, <4>2, <4>3 DEF Live, Waits, Asks, Queued
    <3> QED
      BY <3>5, <3>6, <3>8, <3>9
  <2> QED
    BY <2>1, <2>2
<1>8. /\ ~Live(a) /\ ~Exists(a) /\ ~Queued(a) /\ ~Waits(a)
      /\ \A q \in Requests : ~Asks(q, a)
  <2>1. ~Exists(a)
    BY <1>2 DEF Exists
  <2>2. ~Live(a)
    BY <2>1, LiveExists
  <2> QED
    BY <2>1, <2>2 DEF Live
<1>9. \A b \in Approvals :
        /\ Queued(b)' <=> Queued(b)
        /\ \A q \in Requests : Asks(q, b)' <=> Asks(q, b)
        /\ ~Takes(k, b)' /\ ~Early(k, b)'
        /\ Waits(b)' <=> Waits(b) \/ b = a
        /\ Exists(b)' <=> Exists(b) \/ b = a
  BY <1>1, <1>4 DEF Queued, Asks, Takes, Early, Waits, Exists, ResumeSteps
<1>10. \A b \in Approvals : b # a /\ Live(b)' => Live(b)
  BY <1>0, <1>9 DEF Live
<1>11. PlacesOK'
  BY <1>0, <1>1, <1>8, <1>9 DEF SInv, PlacesOK
<1>12. UseOK'
  <2>1. advanced[a] = 0
    <3>1. ~(advanced[a] > 0) /\ advanced[a] \in 0..2
      BY <1>0, <1>2 DEF SInv, UseOK, TypeOK
    <3> QED
      BY <3>1
  <2>2. pc'[k] \notin AfterCheck
    BY <1>1 DEF AfterCheck, ResumeSteps
  <2>3. \A b \in Approvals : b \notin stale'[k].apprs
    BY <1>1, <1>3 DEF NothingStale
  <2>4. ASSUME NEW b \in Approvals
        PROVE  /\ Waits(b)' \/ Queued(b)' => advanced'[b] = 0
               /\ \A q \in Requests : Asks(q, b)' => advanced'[b] = 0
               /\ advanced'[b] <= 1
               /\ advanced'[b] > 0 => approval'[b].status = "approved"
    BY <1>1, <1>4, <1>9, <2>1 DEF SInv, UseOK
  <2> QED
    BY <1>0, <1>1, <1>3, <1>9, <2>2, <2>3, <2>4 DEF UseOK
<1>13. OrderOK'
  <2>1. ASSUME NEW b \in Approvals, NEW c \in Approvals, Live(b)', Exists(c)',
               approval'[b].run = approval'[c].run, b # c
        PROVE  Before(approval'[c].stage, approval'[b].stage)
    <3>1. CASE b = a
      BY <1>4, <1>7, <1>9, <2>1, <3>1
    <3>2. CASE b # a
      <4>1. Live(b) /\ Exists(b)
        BY <1>10, <2>1, <3>2, LiveExists
      <4>2. approval[b].run # r
        BY <1>7, <2>1, <4>1
      <4>3. c # a
        BY <1>4, <2>1, <3>2, <4>2
      <4> QED
        BY <1>4, <1>9, <2>1, <3>2, <4>1, <4>3 DEF SInv, OrderOK
    <3> QED
      BY <3>1, <3>2
  <2>2. ASSUME NEW b \in Approvals, Exists(b)' PROVE runStatus'[approval'[b].run] # "new"
    <3>1. CASE b = a
      BY <1>4, <1>6, <3>1
    <3>2. CASE b # a
      <4>1. Exists(b) /\ approval'[b] = approval[b] /\ approval[b].run \in Runs
        BY <1>4, <1>9, <2>2, <3>2 DEF IInv, RowsOK
      <4> QED
        BY <1>5, <1>6, <4>1 DEF SInv, OrderOK
    <3> QED
      BY <3>1, <3>2
  <2>3. pc'[k] \notin StartSteps
    BY <1>1 DEF StartSteps
  <2> QED
    BY <1>0, <2>1, <2>2, <2>3 DEF OrderOK
<1>14. BranchOK'
  <2>1. s = "publish" => branch[r] = "checked"
    BY <1>1 DEF SInv, BranchOK
  <2>2. ASSUME NEW b \in Approvals, Exists(b)', approval'[b].stage = "publish"
        PROVE  branch[approval'[b].run] = "checked"
    <3>1. CASE b = a
      BY <1>4, <2>1, <2>2, <3>1
    <3>2. CASE b # a
      BY <1>4, <1>9, <2>2, <3>2 DEF SInv, BranchOK
    <3> QED
      BY <3>1, <3>2
  <2> QED
    BY <1>0, <1>1, <2>2 DEF BranchOK
<1>15. PublishedOK'
  <2>1. ASSUME NEW b \in Approvals, Live(b)', approval'[b].run \in published PROVE FALSE
    <3>1. b # a
      BY <1>3, <1>4, <2>1
    <3>2. Live(b) /\ approval[b].run \in published
      BY <1>4, <1>10, <2>1, <3>1
    <3>3. pc[k] = "record_publish"
      BY <1>0, <3>2 DEF SInv, PublishedOK
    <3> QED
      BY <1>1, <3>3
  <2> QED
    BY <1>0, <1>1, <1>3, <2>1 DEF PublishedOK, NothingStale
<1> QED
  BY <1>11, <1>12, <1>13, <1>14, <1>15 DEF SInv

LEMMA ReceiveStep ==
  ASSUME Serial, IInv, SInv, NEW k \in Workers, NEW r \in Runs, ReceiveTask(k, r)
  PROVE  SInv'
<1> USE DEF tables, worker, history
<1>0. TypeOK /\ Workers = {k}
  BY DEF IInv, Serial
<1>1. /\ pc[k] = "idle" /\ pc'[k] = "route" /\ job'[k].run = r /\ runStatus[r] = "new"
      /\ UNCHANGED <<approval, resumeQ, request, branch, published, advanced, stale>>
      /\ runStatus'[r] = "running" /\ \A x \in Runs : x # r => runStatus'[x] = runStatus[x]
  BY <1>0 DEF ReceiveTask, SetRun, Goto, TypeOK, NoJob
<1>2. \A a \in Approvals :
        /\ Queued(a)' <=> Queued(a)
        /\ \A q \in Requests : Asks(q, a)' <=> Asks(q, a)
        /\ ~Takes(k, a)' /\ ~Early(k, a)' /\ ~Takes(k, a)
        /\ Waits(a)' <=> Waits(a)
        /\ Exists(a)' <=> Exists(a)
  BY <1>1 DEF Queued, Asks, Takes, Early, Waits, Exists, ResumeSteps
<1>3. \A a \in Approvals : Live(a)' <=> Live(a)
  BY <1>0, <1>2 DEF Live
<1>4. PlacesOK'
  BY <1>0, <1>1, <1>2 DEF SInv, PlacesOK
<1>5. UseOK'
  BY <1>0, <1>1, <1>2 DEF SInv, UseOK, AfterCheck, ResumeSteps
<1>6. OrderOK'
  <2>1. \A a \in Approvals : Exists(a) => approval[a].run # r /\ approval[a].run \in Runs
    BY <1>1 DEF SInv, OrderOK, IInv, RowsOK
  <2> QED
    BY <1>0, <1>1, <1>2, <1>3, <2>1 DEF SInv, OrderOK
<1>7. BranchOK'
  BY <1>0, <1>1, <1>2 DEF SInv, BranchOK
<1>8. PublishedOK'
  BY <1>0, <1>1, <1>3 DEF SInv, PublishedOK
<1> QED
  BY <1>4, <1>5, <1>6, <1>7, <1>8 DEF SInv

\* BRPOP takes the event out of the list: the approval moves from one place to
\* the next.
LEMMA ConsumeStep ==
  ASSUME Serial, IInv, SInv, NEW k \in Workers, ConsumeResume(k)
  PROVE  SInv'
<1> USE DEF tables, worker, history
<1> DEFINE e == resumeQ[1].appr
<1>0. TypeOK /\ Workers = {k}
  BY DEF IInv, Serial
<1>1. /\ pc[k] = "idle" /\ pc'[k] = "read_approval" /\ job'[k] = Head(resumeQ)
      /\ resumeQ # <<>> /\ resumeQ' = Tail(resumeQ)
      /\ UNCHANGED <<approval, request, branch, published, advanced, stale, runStatus>>
  BY <1>0 DEF ConsumeResume, StartResume, Goto, TypeOK
<1>2. /\ resumeQ \in Seq(Event) /\ Len(resumeQ) \in Nat \ {0}
      /\ Head(resumeQ) = resumeQ[1] /\ Len(resumeQ') = Len(resumeQ) - 1
      /\ \A i \in 1..Len(resumeQ') : resumeQ'[i] = resumeQ[i + 1] /\ i + 1 \in 1..Len(resumeQ)
  <2>1. resumeQ \in Seq(Event)
    BY <1>0 DEF TypeOK
  <2> QED
    BY <1>1, <2>1
<1>3. 1 \in 1..Len(resumeQ)
  BY <1>2
<1>4. e \in Approvals /\ Queued(e)
  <2>1. Genuine(resumeQ[1])
    BY <1>3 DEF IInv, CarriedOK
  <2> QED
    BY <1>3, <2>1 DEF Queued, Genuine
<1>5. \A i, j \in 1..Len(resumeQ) : resumeQ[i].appr = resumeQ[j].appr => i = j
  BY DEF SInv, PlacesOK
<1>6. ASSUME NEW a \in Approvals PROVE Queued(a)' <=> Queued(a) /\ a # e
  <2>1. ASSUME Queued(a)' PROVE Queued(a) /\ a # e
    <3>1. PICK i \in 1..Len(resumeQ') : resumeQ'[i].appr = a
      BY <2>1 DEF Queued
    <3>2. i + 1 \in 1..Len(resumeQ) /\ resumeQ[i + 1].appr = a /\ i + 1 # 1
      BY <1>2, <3>1
    <3> QED
      BY <1>3, <1>5, <3>2 DEF Queued
  <2>2. ASSUME Queued(a), a # e PROVE Queued(a)'
    <3>1. PICK i \in 1..Len(resumeQ) : resumeQ[i].appr = a
      BY <2>2 DEF Queued
    <3>2. i # 1
      BY <2>2, <3>1
    <3>3. i - 1 \in 1..Len(resumeQ') /\ (i - 1) + 1 = i
      BY <1>2, <3>1, <3>2
    <3> QED
      BY <1>2, <3>1, <3>3 DEF Queued
  <2> QED
    BY <2>1, <2>2
<1>7. \A a \in Approvals :
        /\ \A q \in Requests : Asks(q, a)' <=> Asks(q, a)
        /\ ~Takes(k, a)
        /\ Takes(k, a)' <=> a = e
        /\ Early(k, a)' <=> a = e
        /\ Waits(a)' <=> Waits(a)
        /\ Exists(a)' <=> Exists(a)
  BY <1>1, <1>2 DEF Asks, Takes, Early, Waits, Exists, ResumeSteps, AfterCheck
<1>8. \A a \in Approvals : Live(a)' <=> Live(a)
  BY <1>0, <1>4, <1>6, <1>7 DEF Live
<1>9. /\ ~Waits(e) /\ advanced[e] = 0 /\ \A q \in Requests : ~Asks(q, e)
      /\ stale[k] = NothingStale
  BY <1>1, <1>4 DEF SInv, PlacesOK, UseOK
<1>10. PlacesOK'
  <2>1. ASSUME NEW i \in 1..Len(resumeQ'), NEW j \in 1..Len(resumeQ'),
               resumeQ'[i].appr = resumeQ'[j].appr
        PROVE  i = j
    <3>1. /\ i + 1 \in 1..Len(resumeQ) /\ j + 1 \in 1..Len(resumeQ)
          /\ resumeQ[i + 1].appr = resumeQ[j + 1].appr
      BY <1>2, <2>1
    <3>2. i + 1 = j + 1
      BY <1>5, <3>1
    <3>3. i \in Nat /\ j \in Nat
      BY <1>2
    <3> QED
      BY <3>2, <3>3
  <2> QED
    BY <1>0, <1>1, <1>6, <1>7, <1>9, <2>1, SMTT(20) DEF SInv, PlacesOK
<1>11. UseOK'
  <2>1. pc'[k] \notin AfterCheck /\ pc'[k] \notin {"decide", "check_decision", "expire"}
    BY <1>1 DEF AfterCheck
  <2>2. \A a \in Approvals : a \notin stale'[k].apprs
    BY <1>1, <1>9 DEF NothingStale
  <2>3. ASSUME NEW a \in Approvals
        PROVE  /\ Waits(a)' \/ Queued(a)' => advanced[a] = 0
               /\ \A q \in Requests : Asks(q, a)' => advanced[a] = 0
               /\ Early(k, a)' => advanced[a] = 0
               /\ advanced[a] <= 1
               /\ advanced[a] > 0 => approval[a].status = "approved"
    BY <1>6, <1>7, <1>9 DEF SInv, UseOK
  <2> QED
    BY <1>0, <1>1, <1>9, <2>1, <2>2, <2>3 DEF UseOK
<1>12. OrderOK'
  BY <1>0, <1>1, <1>7, <1>8 DEF SInv, OrderOK, StartSteps
<1>13. BranchOK'
  BY <1>0, <1>1, <1>7 DEF SInv, BranchOK
<1>14. PublishedOK'
  BY <1>0, <1>1, <1>8 DEF SInv, PublishedOK
<1> QED
  BY <1>10, <1>11, <1>12, <1>13, <1>14 DEF SInv

-----------------------------------------------------------------------------
(* The sweep and the dashboard *)

\* A step that makes no review live, under a worker that goes nowhere.
LEMMA NothingNewLive ==
  ASSUME Serial, IInv, SInv, NEW k \in Workers,
         \A a \in Approvals : /\ Live(a)' => Live(a)
                              /\ Exists(a)' => Exists(a)
                              /\ approval'[a].run = approval[a].run
                              /\ approval'[a].stage = approval[a].stage,
         \A r \in Runs : runStatus'[r] = "new" => runStatus[r] = "new",
         UNCHANGED <<job, outcome, branch, published>>,
         pc'[k] = pc[k] \/ {pc[k], pc'[k]} \subseteq {"idle", "expire"},
         stale'[k].runs \cap published = {},
         \/ stale'[k].todo = stale[k].todo
         \/ \A a \in stale'[k].todo : a \in Approvals /\ approval[a].run \notin published
  PROVE  OrderOK' /\ BranchOK' /\ PublishedOK'
<1>0. Workers = {k}
  BY DEF Serial
<1>1. \A a \in Approvals : Exists(a) => approval[a].run \in Runs
  BY DEF IInv, RowsOK
<1>2. pc'[k] \in StartSteps => pc[k] \in StartSteps /\ job[k].run \in Runs
  BY DEF StartSteps, IInv, WorkerOK
<1>3. OrderOK'
  <2>1. ASSUME NEW a \in Approvals, NEW b \in Approvals, Live(a)', Exists(b)',
               approval'[a].run = approval'[b].run, a # b
        PROVE  Before(approval'[b].stage, approval'[a].stage)
    <3>1. Before(approval[b].stage, approval[a].stage)
      BY <2>1 DEF SInv, OrderOK
    <3> QED
      BY <3>1
  <2>2. \A a \in Approvals : Exists(a)' => runStatus'[approval'[a].run] # "new"
    BY <1>1 DEF SInv, OrderOK
  <2>3. pc'[k] \in StartSteps =>
          /\ runStatus'[job'[k].run] # "new"
          /\ \A a \in Approvals : Exists(a)' => approval'[a].run # job'[k].run
    BY <1>2 DEF SInv, OrderOK
  <2> QED
    BY <1>0, <2>1, <2>2, <2>3 DEF OrderOK
<1>4. BranchOK'
  BY <1>0 DEF SInv, BranchOK
<1>5. PublishedOK'
  <2>1. ASSUME NEW a \in Approvals, Live(a)', approval'[a].run \in published'
        PROVE  pc'[k] = "record_publish" /\ job'[k].appr = a
    BY <1>0, <2>1 DEF SInv, PublishedOK
  <2>2. pc'[k] \in {"finalize", "reply"} /\ job'[k].run \in published'
          => outcome'[k] = "completed" /\ job'[k].appr # NoApproval
    BY DEF SInv, PublishedOK
  <2>3. \A a \in stale'[k].todo : approval'[a].run \notin published
    <3>1. stale[k].todo \subseteq Approvals
      BY DEF IInv, TypeOK, Sweep
    <3> QED
      BY <3>1 DEF SInv, PublishedOK
  <2> QED
    BY <1>0, <2>1, <2>2, <2>3 DEF PublishedOK
<1> QED
  BY <1>3, <1>4, <1>5

\* The sweep reads pending reviews: unused, and of runs that are not published.
LEMMA ScanStep ==
  ASSUME Serial, IInv, SInv, NEW k \in Workers, ExpireScan(k)
  PROVE  SInv'
<1> USE DEF tables, worker, history
<1>0. TypeOK /\ Workers = {k}
  BY DEF IInv, Serial
<1>1. PICK S \in (SUBSET Pending) \ {{}} :
        stale' = [stale EXCEPT ![k] = [apprs |-> S, todo |-> S, runs |-> {}]]
  BY DEF ExpireScan
<1>2. /\ pc[k] = "idle" /\ pc'[k] = "expire"
      /\ stale'[k].apprs = S /\ stale'[k].todo = S /\ stale'[k].runs = {}
      /\ UNCHANGED <<approval, resumeQ, request, branch, published, advanced, job, outcome, runStatus>>
  BY <1>0, <1>1 DEF ExpireScan, Goto, TypeOK
<1>3. \A a \in S : a \in Approvals /\ Waits(a) /\ Live(a)
  BY <1>1 DEF Pending, Waits, Live
<1>4. \A a \in Approvals :
        /\ Waits(a)' <=> Waits(a)
        /\ Queued(a)' <=> Queued(a)
        /\ \A q \in Requests : Asks(q, a)' <=> Asks(q, a)
        /\ ~Takes(k, a)' /\ ~Early(k, a)'
        /\ Exists(a)' <=> Exists(a)
  BY <1>2 DEF Waits, Queued, Asks, Takes, Early, Exists, ResumeSteps
<1>5. \A a \in Approvals : Live(a)' => Live(a)
  BY <1>0, <1>4 DEF Live
<1>6. /\ stale'[k].runs \cap published = {}
      /\ \A a \in stale'[k].todo : a \in Approvals /\ approval[a].run \notin published
  BY <1>0, <1>2, <1>3 DEF SInv, PublishedOK
<1>7. PlacesOK'
  BY <1>0, <1>2, <1>4 DEF SInv, PlacesOK
<1>8. UseOK'
  <2>1. pc'[k] \notin AfterCheck
    BY <1>2 DEF AfterCheck, ResumeSteps
  <2>2. \A a \in S : advanced[a] = 0
    BY <1>3 DEF SInv, UseOK
  <2> QED
    BY <1>0, <1>2, <1>4, <2>1, <2>2 DEF SInv, UseOK
<1>9. OrderOK' /\ BranchOK' /\ PublishedOK'
  BY <1>2, <1>4, <1>5, <1>6, NothingNewLive
<1> QED
  BY <1>7, <1>8, <1>9 DEF SInv

\* Its rows' runs are still not published when their turn comes.
LEMMA RowStep ==
  ASSUME Serial, IInv, SInv, NEW k \in Workers, ExpireRow(k)
  PROVE  SInv'
<1> USE DEF tables, worker, history
<1>0. TypeOK /\ Workers = {k}
  BY DEF IInv, Serial
<1>1. PICK a \in stale[k].todo :
        stale' = [stale EXCEPT ![k] = RowDone(stale[k], a)]
  BY DEF ExpireRow
<1>9. /\ RowDone(stale[k], a).apprs = stale[k].apprs
      /\ RowDone(stale[k], a).todo \subseteq stale[k].todo
      /\ RowDone(stale[k], a).runs \subseteq stale[k].runs \cup {approval[a].run}
  BY <1>0 DEF RowDone, TypeOK, Sweep
<1>2. /\ pc[k] = "expire"
      /\ stale'[k].apprs = stale[k].apprs /\ stale'[k].todo \subseteq stale[k].todo
      /\ stale'[k].runs \subseteq stale[k].runs \cup {approval[a].run}
      /\ stale[k].todo \subseteq Approvals
      /\ UNCHANGED <<approval, resumeQ, request, pc, job, seen, outcome, branch, published, advanced, runStatus>>
  BY <1>0, <1>1, <1>9 DEF ExpireRow, TypeOK, Sweep
<1>3. /\ stale'[k].runs \cap published = {}
      /\ \A b \in stale'[k].todo : b \in Approvals /\ approval[b].run \notin published
  BY <1>1, <1>2 DEF SInv, PublishedOK
<1>4. \A b \in Approvals :
        /\ Waits(b)' <=> Waits(b)
        /\ Queued(b)' <=> Queued(b)
        /\ \A q \in Requests : Asks(q, b)' <=> Asks(q, b)
        /\ Takes(k, b)' <=> Takes(k, b)
        /\ Early(k, b)' <=> Early(k, b)
        /\ Exists(b)' <=> Exists(b)
  BY <1>2 DEF Waits, Queued, Asks, Takes, Early, Exists
<1>5. \A b \in Approvals : Live(b)' => Live(b)
  BY <1>0, <1>4 DEF Live
<1>6. PlacesOK'
  BY <1>0, <1>2, <1>4 DEF SInv, PlacesOK
<1>7. UseOK'
  BY <1>0, <1>2, <1>4 DEF SInv, UseOK
<1>8. OrderOK' /\ BranchOK' /\ PublishedOK'
  BY <1>2, <1>3, <1>4, <1>5, NothingNewLive
<1> QED
  BY <1>6, <1>7, <1>8 DEF SInv

\* What it writes later overtakes a decision, but no stage was passed on it yet.
LEMMA CommitStep ==
  ASSUME Serial, IInv, SInv, NEW k \in Workers, ExpireCommit(k)
  PROVE  SInv'
<1> USE DEF tables, worker, history
<1>0. TypeOK /\ Workers = {k}
  BY DEF IInv, Serial
<1>1. /\ pc[k] = "expire" /\ pc'[k] = "idle" /\ stale'[k] = NothingStale
      /\ UNCHANGED <<resumeQ, request, branch, published, advanced, job, outcome>>
      /\ \A r \in Runs : runStatus'[r] \in {"failed", runStatus[r]}
  BY <1>0 DEF ExpireCommit, Goto, TypeOK
<1>2. \A a \in Approvals :
        approval'[a] = IF a \in stale[k].apprs THEN [approval[a] EXCEPT !.status = "expired"]
                                               ELSE approval[a]
  BY DEF ExpireCommit
<1>3. \A a \in Approvals :
        /\ approval'[a].run = approval[a].run /\ approval'[a].stage = approval[a].stage
        /\ a \in stale[k].apprs => approval'[a].status = "expired" /\ advanced[a] = 0
        /\ a \notin stale[k].apprs => approval'[a].status = approval[a].status
  <2>1. \A a \in Approvals : approval[a] \in Row
    BY <1>0 DEF TypeOK
  <2>2. \A a \in stale[k].apprs : a \in Approvals => advanced[a] = 0
    BY DEF SInv, UseOK
  <2>3. ASSUME NEW a \in Approvals, a \in stale[k].apprs
        PROVE  /\ approval'[a].run = approval[a].run /\ approval'[a].stage = approval[a].stage
               /\ approval'[a].status = "expired"
    <3>1. approval'[a] = [approval[a] EXCEPT !.status = "expired"]
      BY <1>2, <2>3
    <3> QED
      BY <2>1, <3>1 DEF Row
  <2> QED
    BY <1>2, <2>2, <2>3
<1>4. \A a \in stale[k].apprs : Exists(a)
  BY DEF IInv, CarriedOK
<1>5. \A a \in Approvals :
        /\ Waits(a)' => Waits(a)
        /\ Queued(a)' <=> Queued(a)
        /\ \A q \in Requests : Asks(q, a)' <=> Asks(q, a)
        /\ ~Takes(k, a)' /\ ~Early(k, a)'
        /\ Exists(a)' => Exists(a)
  BY <1>1, <1>3, <1>4 DEF Waits, Queued, Asks, Takes, Early, Exists, ResumeSteps
<1>6. \A a \in Approvals : Live(a)' => Live(a)
  BY <1>0, <1>5 DEF Live
<1>7. PlacesOK'
  BY <1>0, <1>1, <1>5 DEF SInv, PlacesOK
<1>8. UseOK'
  <2>1. pc'[k] \notin AfterCheck
    BY <1>1 DEF AfterCheck, ResumeSteps
  <2>2. \A a \in Approvals : a \notin stale'[k].apprs
    BY <1>1 DEF NothingStale
  <2>3. ASSUME NEW a \in Approvals
        PROVE  /\ Waits(a)' \/ Queued(a)' => advanced'[a] = 0
               /\ \A q \in Requests : Asks(q, a)' => advanced'[a] = 0
               /\ advanced'[a] <= 1
               /\ advanced'[a] > 0 => approval'[a].status = "approved"
    <3>1. advanced[a] = 0 => ~(advanced[a] > 0)
      OBVIOUS
    <3> QED
      BY <1>1, <1>3, <1>5, <3>1 DEF SInv, UseOK
  <2> QED
    BY <1>0, <1>1, <1>5, <2>1, <2>2, <2>3 DEF UseOK
<1>9. stale'[k].runs \cap published = {} /\ stale'[k].todo = {}
  BY <1>1 DEF NothingStale
<1>10. OrderOK' /\ BranchOK' /\ PublishedOK'
  BY <1>1, <1>3, <1>5, <1>6, <1>9, NothingNewLive
<1> QED
  BY <1>7, <1>8, <1>10 DEF SInv

\* The dashboard reads a pending review: nobody else has it.
LEMMA HubReadStep ==
  ASSUME Serial, IInv, SInv, NEW k \in Workers, NEW q \in Requests,
         NEW a \in Approvals, NEW d \in Decisions, HubRead(q, a, d)
  PROVE  SInv'
<1> USE DEF tables, worker, history
<1>0. TypeOK /\ Workers = {k} /\ Requests = {q}
  BY DEF IInv, Serial
<1>1. /\ UNCHANGED <<approval, resumeQ, pc, job, seen, outcome, stale, branch, published,
                     advanced, runStatus>>
      /\ request[q].step = "idle"
      /\ request'[q].step = "commit" /\ request'[q].appr = a
      /\ Waits(a)
  BY <1>0 DEF HubRead, TypeOK, Waits
<1>2. \A b \in Approvals :
        /\ Waits(b)' <=> Waits(b)
        /\ Queued(b)' <=> Queued(b)
        /\ Takes(k, b)' <=> Takes(k, b)
        /\ Early(k, b)' <=> Early(k, b)
        /\ Exists(b)' <=> Exists(b)
        /\ Asks(q, b)' <=> b = a
  BY <1>1 DEF Waits, Queued, Asks, Takes, Early, Exists
<1>3. ~Queued(a) /\ ~Takes(k, a) /\ advanced[a] = 0
  BY <1>1 DEF SInv, PlacesOK, UseOK
<1>4. \A b \in Approvals : Live(b)' => Live(b)
  BY <1>0, <1>1, <1>2 DEF Live
<1>5. PlacesOK'
  BY <1>0, <1>1, <1>2, <1>3 DEF SInv, PlacesOK
<1>6. UseOK'
  BY <1>0, <1>1, <1>2, <1>3 DEF SInv, UseOK
<1>7. stale[k].runs \cap published = {}
  BY DEF SInv, PublishedOK
<1>8. OrderOK' /\ BranchOK' /\ PublishedOK'
  BY <1>1, <1>2, <1>4, <1>7, NothingNewLive
<1> QED
  BY <1>5, <1>6, <1>8 DEF SInv

\* The decision is written while the review is only the request's: no worker
\* has read its status.
LEMMA HubCommitStep ==
  ASSUME Serial, IInv, SInv, NEW k \in Workers, NEW q \in Requests, HubCommit(q)
  PROVE  SInv'
<1> USE DEF tables, worker, history
<1>0. TypeOK /\ Workers = {k} /\ Requests = {q}
  BY DEF IInv, Serial
<1>1. PICK a \in Approvals : a = request[q].appr /\ Exists(a) /\ Asks(q, a)
  BY DEF HubCommit, IInv, CarriedOK, Asks
<1>2. /\ UNCHANGED <<resumeQ, pc, job, seen, outcome, stale, branch, published, advanced>>
      /\ request'[q].step = "publish" /\ request'[q].appr = a
      /\ approval' = [approval EXCEPT ![a].status = request[q].decision]
      /\ runStatus' = [runStatus EXCEPT ![approval[a].run] = RunAfter(request[q].decision)]
      /\ request[q].decision \in Decisions
  BY <1>0, <1>1 DEF HubCommit, Decided, SetApproval, SetRun, TypeOK
<1>3. /\ approval'[a].run = approval[a].run /\ approval'[a].stage = approval[a].stage
      /\ approval'[a].status \in {"approved", "rejected"}
      /\ \A b \in Approvals : b # a => approval'[b] = approval[b]
  <2>1. approval[a] \in Row /\ approval \in [Approvals -> Row]
    BY <1>0 DEF TypeOK
  <2> QED
    BY <1>2, <2>1 DEF Row, Decisions
<1>4. \A r \in Runs : runStatus'[r] = "new" => runStatus[r] = "new"
  BY <1>0, <1>2 DEF RunAfter, TypeOK
<1>5. \A b \in Approvals :
        /\ Waits(b)' <=> Waits(b) /\ b # a
        /\ Queued(b)' <=> Queued(b)
        /\ Takes(k, b)' <=> Takes(k, b)
        /\ Early(k, b)' <=> Early(k, b)
        /\ Exists(b)' <=> Exists(b)
        /\ Asks(q, b)' <=> Asks(q, b)
        /\ Asks(q, b)' <=> b = a
  BY <1>1, <1>2, <1>3 DEF Waits, Queued, Asks, Takes, Early, Exists
<1>6. ~Queued(a) /\ ~Takes(k, a) /\ advanced[a] = 0
  BY <1>1 DEF SInv, PlacesOK, UseOK
<1>7. \A b \in Approvals : Live(b)' => Live(b)
  BY <1>0, <1>5 DEF Live
<1>8. PlacesOK'
  BY <1>0, <1>2, <1>5, <1>6 DEF SInv, PlacesOK
<1>9. UseOK'
  <2>1. pc[k] \in ResumeSteps => job[k].appr \in Approvals /\ job[k].appr # a
    BY <1>6, Resuming
  <2>2. pc[k] \in {"decide", "check_decision"} => seen[k] = approval'[job[k].appr].status
    BY <1>3, <2>1 DEF SInv, UseOK, ResumeSteps
  <2>3. pc[k] \in AfterCheck => approval'[job[k].appr].status = "approved"
    BY <1>3, <2>1 DEF SInv, UseOK, AfterCheck
  <2>4. ASSUME NEW b \in Approvals PROVE advanced[b] > 0 => approval'[b].status = "approved"
    <3>1. advanced[b] > 0 => b # a
      BY <1>6
    <3> QED
      BY <1>3, <3>1 DEF SInv, UseOK
  <2> QED
    BY <1>0, <1>2, <1>5, <2>2, <2>3, <2>4 DEF SInv, UseOK
<1>10. stale[k].runs \cap published = {}
  BY DEF SInv, PublishedOK
<1>11. \A b \in Approvals :
         approval'[b].run = approval[b].run /\ approval'[b].stage = approval[b].stage
  BY <1>3
<1>12. OrderOK' /\ BranchOK' /\ PublishedOK'
  BY <1>2, <1>4, <1>5, <1>7, <1>10, <1>11, NothingNewLive
<1> QED
  BY <1>8, <1>9, <1>12 DEF SInv

\* The event takes the place of the request, or is lost.
LEMMA HubPublishStep ==
  ASSUME Serial, IInv, SInv, NEW k \in Workers, NEW q \in Requests, HubPublish(q)
  PROVE  SInv'
<1> USE DEF tables, worker, history
<1>0. TypeOK /\ Workers = {k} /\ Requests = {q}
  BY DEF IInv, Serial
<1>1. PICK a \in Approvals : a = request[q].appr /\ Asks(q, a)
  BY DEF HubPublish, IInv, CarriedOK, Asks
<1>2. /\ UNCHANGED <<approval, pc, job, seen, outcome, stale, branch, published, advanced, runStatus>>
      /\ request'[q].step = "idle"
      /\ request[q].step = "publish"
      /\ \/ resumeQ' = Append(resumeQ, ResumeEvent(a, request[q].decision))
         \/ UNCHANGED resumeQ
  BY <1>0, <1>1 DEF HubPublish, NoRequest, TypeOK
<1>3. /\ ~Queued(a) /\ ~Takes(k, a) /\ ~Waits(a) /\ advanced[a] = 0
      /\ \A i, j \in 1..Len(resumeQ) : resumeQ[i].appr = resumeQ[j].appr => i = j
  BY <1>1, <1>2 DEF SInv, PlacesOK, UseOK
<1>4. /\ \A b \in Approvals : Queued(b)' => Queued(b) \/ b = a
      /\ \A i, j \in 1..Len(resumeQ') : resumeQ'[i].appr = resumeQ'[j].appr => i = j
  <2>1. CASE UNCHANGED resumeQ
    BY <1>3, <2>1 DEF Queued
  <2>2. CASE resumeQ' = Append(resumeQ, ResumeEvent(a, request[q].decision))
    <3> DEFINE n == Len(resumeQ)
    <3>1. resumeQ \in Seq(Event) /\ n \in Nat
      BY <1>0 DEF TypeOK
    <3>2. /\ Len(resumeQ') = n + 1 /\ resumeQ'[n + 1] = ResumeEvent(a, request[q].decision)
          /\ \A i \in 1..n : resumeQ'[i] = resumeQ[i]
      BY <2>2, <3>1
    <3>3. resumeQ'[n + 1].appr = a
      BY <3>2 DEF ResumeEvent
    <3>4. \A i \in 1..Len(resumeQ') : i \in 1..n \/ i = n + 1
      BY <3>1, <3>2
    <3>5. \A i \in 1..n : resumeQ'[i].appr = resumeQ[i].appr /\ resumeQ[i].appr # a
      BY <1>3, <3>2 DEF Queued
    <3>6. \A b \in Approvals : Queued(b)' => Queued(b) \/ b = a
      BY <3>3, <3>4, <3>5 DEF Queued
    <3>7. ASSUME NEW i \in 1..Len(resumeQ'), NEW j \in 1..Len(resumeQ'),
                 resumeQ'[i].appr = resumeQ'[j].appr
          PROVE  i = j
      <4> HIDE DEF n
      <4> QED
        BY <1>3, <3>3, <3>4, <3>5, <3>7 DEF n
    <3> QED
      BY <3>6, <3>7
  <2> QED
    BY <1>2, <2>1, <2>2
<1>5. \A b \in Approvals :
        /\ Waits(b)' <=> Waits(b)
        /\ Takes(k, b)' <=> Takes(k, b)
        /\ Early(k, b)' <=> Early(k, b)
        /\ Exists(b)' <=> Exists(b)
        /\ ~Asks(q, b)'
  BY <1>1, <1>2 DEF Waits, Asks, Takes, Early, Exists
<1>6. \A b \in Approvals : Live(b)' => Live(b)
  BY <1>0, <1>1, <1>4, <1>5 DEF Live
<1>7. PlacesOK'
  BY <1>0, <1>2, <1>3, <1>4, <1>5 DEF SInv, PlacesOK
<1>8. UseOK'
  BY <1>0, <1>2, <1>3, <1>4, <1>5 DEF SInv, UseOK
<1>9. stale[k].runs \cap published = {}
  BY DEF SInv, PublishedOK
<1>10. OrderOK' /\ BranchOK' /\ PublishedOK'
  BY <1>2, <1>5, <1>6, <1>9, NothingNewLive
<1> QED
  BY <1>7, <1>8, <1>10 DEF SInv

\* Nothing of it is about snapshots.
LEMMA SameState ==
  ASSUME SInv, UNCHANGED <<runStatus, approval, resumeQ, worker, request, history>>
  PROVE  SInv'
<1> USE DEF worker, history
<1>1. /\ \A a \in Approvals : /\ Waits(a)' <=> Waits(a)
                              /\ Queued(a)' <=> Queued(a)
                              /\ Exists(a)' <=> Exists(a)
      /\ \A a \in Approvals, k \in Workers : /\ Takes(k, a)' <=> Takes(k, a)
                                             /\ Early(k, a)' <=> Early(k, a)
      /\ \A a \in Approvals, q \in Requests : Asks(q, a)' <=> Asks(q, a)
  BY DEF Waits, Queued, Asks, Takes, Early, Exists
<1>2. \A a \in Approvals : Live(a)' <=> Live(a)
  BY <1>1 DEF Live
<1>3. PlacesOK'
  BY <1>1 DEF SInv, PlacesOK
<1>4. UseOK'
  BY <1>1 DEF SInv, UseOK
<1>5. OrderOK' /\ BranchOK'
  BY <1>1, <1>2 DEF SInv, OrderOK, BranchOK
<1>6. PublishedOK'
  BY <1>2 DEF SInv, PublishedOK
<1> QED
  BY <1>3, <1>4, <1>5, <1>6 DEF SInv

-----------------------------------------------------------------------------
(* The serial invariant *)

LEMMA SerialStep ==
  ASSUME Serial, IInv, SInv, Next
  PROVE  SInv'
<1> USE DEF tables, worker, history
<1>1. ASSUME NEW k \in Workers,
             \/ WorkStep(k)
             \/ \E r \in Runs : ReceiveTask(k, r)
             \/ \E a \in Approvals, d \in Decisions : ChatDecision(k, a, d)
             \/ GraphFails(k) \/ WorkerDies(k) \/ ExpireScan(k)
      PROVE  SInv'
  <2>1. CASE Route(k) \/ LoadContext(k)
    BY <2>1, StartWalks, WalkStep
  <2>2. CASE AssessImpact(k) \/ GeneratePlan(k) \/ Report(k)
    BY <2>2, OpenStep
  <2>3. CASE ConsumeResume(k)
    BY <2>3, ConsumeStep
  <2>4. CASE ReadApproval(k)
    BY <2>4, ReadWalks, WalkStep
  <2>5. CASE Decide(k)
    BY <2>5, DecideWalks, WalkStep
  <2>6. CASE CheckDecision(k)
    BY <2>6, CheckWalks, WalkStep
  <2>7. CASE ResumeContext(k)
    BY <2>7, ContextWalks, WalkStep
  <2>8. CASE BeginCoding(k) \/ SyncBaseline(k)
    BY <2>8, BaselineWalks, WalkStep
  <2>9. CASE RunCoding(k) \/ RunTests(k)
    BY <2>9, WorkWalks, WalkStep
  <2>10. CASE Publish(k) \/ RecordPublish(k)
    BY <2>10, PublishWalks, WalkStep
  <2>11. CASE Finalize(k) \/ Reply(k) \/ WorkerDies(k)
    BY <2>11, EndWalks, WalkStep
  <2>12. CASE ExpireCommit(k)
    BY <2>12, CommitStep
  <2>13. CASE ExpireScan(k)
    BY <2>13, ScanStep
  <2>17. CASE ExpireRow(k)
    BY <2>17, RowStep
  <2>14. CASE GraphFails(k)
    BY <2>14, GraphFailsWalks, WalkStep
  <2>15. ASSUME NEW r \in Runs, ReceiveTask(k, r) PROVE SInv'
    BY <2>15, ReceiveStep
  <2>16. ASSUME NEW a \in Approvals, NEW d \in Decisions, ChatDecision(k, a, d) PROVE SInv'
    BY <2>16 DEF Serial, ChatDecision
  <2> QED
    BY <1>1, <2>1, <2>2, <2>3, <2>4, <2>5, <2>6, <2>7, <2>8, <2>9, <2>10, <2>11, <2>12, <2>13,
       <2>14, <2>15, <2>16, <2>17 DEF WorkStep
<1>2. ASSUME NEW q \in Requests, Workers # {},
             \/ \E a \in Approvals, d \in Decisions : HubRead(q, a, d)
             \/ HubCommit(q) \/ HubPublish(q)
      PROVE  SInv'
  <2>1. PICK k \in Workers : TRUE
    BY <1>2
  <2> QED
    BY <1>2, <2>1, HubReadStep, HubCommitStep, HubPublishStep
<1>3. ASSUME NEW a \in Approvals, NEW d \in Decisions, SlackClick(a, d) PROVE SInv'
  BY <1>3 DEF Serial, SlackClick
<1>4. CASE PushReindex
  BY <1>4, SameState DEF PushReindex
<1> QED
  BY <1>1, <1>2, <1>3, <1>4 DEF Next, Serial

LEMMA SerialInvariant == Serial => (Spec => [](IInv /\ SInv))
<1> SUFFICES ASSUME Serial PROVE Spec => [](IInv /\ SInv)
  OBVIOUS
<1>1. Init => SInv
  BY SerialInit
<1>2. IInv /\ SInv /\ [Next]_vars => SInv'
  <2>1. ASSUME IInv, SInv, Next PROVE SInv'
    BY <2>1, SerialStep
  <2>2. ASSUME SInv, UNCHANGED vars PROVE SInv'
    BY <2>2, SameState DEF vars, tables
  <2> QED
    BY <2>1, <2>2
<1> QED
  BY <1>1, <1>2, Invariant, PTL DEF Spec

\* With one worker and one reviewer at a time an approval takes its run past
\* its stage at most once (coder_pipeline.resume does not refuse a second use).
THEOREM ApprovalUsedOnce == Serial => (Spec => []AdvancedOnce)
<1>1. SInv => AdvancedOnce
  BY DEF SInv, UseOK, AdvancedOnce
<1> QED
  BY <1>1, SerialInvariant, PTL

\* ... a run waits for one review at a time: assess_impact, generate_plan and
\* report open the next one only when the one before is used up.
THEOREM OneReviewAtATime == Serial => (Spec => []OneOpenGate)
<1>1. ASSUME IInv, SInv PROVE OneOpenGate
  <2>1. ASSUME NEW a \in Pending, NEW b \in Pending, approval[a].run = approval[b].run, a # b
        PROVE  FALSE
    <3>1. /\ a \in Approvals /\ Live(a) /\ Exists(a)
          /\ b \in Approvals /\ Live(b) /\ Exists(b)
      BY DEF Pending, Live, Waits, Exists
    <3>2. Before(approval[b].stage, approval[a].stage) /\ Before(approval[a].stage, approval[b].stage)
      BY <1>1, <2>1, <3>1 DEF SInv, OrderOK
    <3> QED
      BY <3>2 DEF Before
  <2> QED
    BY <2>1 DEF OneOpenGate
<1>2. IInv /\ SInv => OneOpenGate
  BY <1>1
<1> QED
  BY <1>2, SerialInvariant, PTL

\* ... a report stays about the latest coding of its run, open or decided: no
\* second use of the plan's approval codes again behind it (run_coding,
\* run_tests, report).
THEOREM ReportsAreCurrent == Serial => (Spec => []ReportIsCurrent)
<1>1. SInv => ReportIsCurrent
  BY DEF SInv, BranchOK, ReportIsCurrent
<1> QED
  BY <1>1, SerialInvariant, PTL

\* ... and no stage is passed on an approval that was refused or has expired,
\* even when the sweep and the reviewer decide at the same time (expire_stale
\* writes what it read before its awaits).
THEOREM RefusedIsNotUsed == Serial => (Spec => []RefusedNotAdvanced)
<1>1. ASSUME IInv, SInv, NEW a \in Approvals, approval[a].status \in {"rejected", "expired"}
      PROVE  advanced[a] = 0
  <2>1. ~(advanced[a] > 0)
    BY <1>1 DEF SInv, UseOK
  <2>2. advanced[a] \in 0..2
    BY <1>1 DEF IInv, TypeOK
  <2> QED
    BY <2>1, <2>2
<1>2. IInv /\ SInv => RefusedNotAdvanced
  BY <1>1 DEF RefusedNotAdvanced
<1> QED
  BY <1>2, SerialInvariant, PTL

-----------------------------------------------------------------------------
(* Published runs stay completed *)

LEMMA OtherRun ==
  ASSUME TypeOK, NEW r \in Runs, NEW x, x # r, NEW status, SetRun(x, status)
  PROVE  runStatus'[r] = runStatus[r]
BY DEF TypeOK, SetRun

LEMMA CompletedKept ==
  ASSUME Serial, IInv, SInv, Next, NEW r \in published, runStatus[r] = "completed"
  PROVE  runStatus'[r] = "completed"
<1> USE DEF tables, worker, history
<1>0. TypeOK /\ r \in Runs
  BY DEF IInv, TypeOK
<1>1. ASSUME NEW k \in Workers, NEW x, x \in Runs, ReceiveTask(k, x)
      PROVE  runStatus'[r] = "completed"
  <2>1. x # r /\ SetRun(x, "running")
    BY <1>1 DEF ReceiveTask
  <2> QED
    BY <1>0, <2>1, OtherRun
<1>2. ASSUME NEW k \in Workers,
             \/ AssessImpact(k) \/ GeneratePlan(k) \/ Report(k)
             \/ BeginCoding(k) \/ CheckDecision(k) \/ Publish(k)
      PROVE  runStatus'[r] = "completed"
  <2>1. pc[k] \in {"assess_impact", "generate_plan", "report", "begin_coding",
                   "check_decision", "publish"}
    BY <1>2 DEF AssessImpact, GeneratePlan, Report, BeginCoding, CheckDecision, Publish
  <2>2. job[k].run # r
    BY <2>1, StillUnpublished DEF StartSteps, ResumeSteps
  <2>3. UNCHANGED runStatus \/ \E status : SetRun(job[k].run, status)
    BY <1>2 DEF AssessImpact, GeneratePlan, Report, BeginCoding, CheckDecision, Publish, OpenGate
  <2> QED
    BY <1>0, <2>2, <2>3, OtherRun
<1>3. ASSUME NEW k \in Workers, RecordPublish(k) PROVE runStatus'[r] = "completed"
  BY <1>0, <1>3 DEF RecordPublish, SetRun, TypeOK
<1>4. ASSUME NEW k \in Workers, Finalize(k) PROVE runStatus'[r] = "completed"
  <2>1. pc[k] = "finalize" /\ SetRun(job[k].run, outcome[k])
    BY <1>4 DEF Finalize
  <2>2. job[k].run = r => outcome[k] = "completed"
    BY <2>1 DEF SInv, PublishedOK
  <2> QED
    BY <1>0, <2>1, <2>2 DEF SetRun, TypeOK
<1>5. ASSUME NEW k \in Workers, GraphFails(k) PROVE runStatus'[r] = "completed"
  <2>1. /\ pc[k] \in StartSteps \/ pc[k] \in {"finalize", "reply"}
        /\ job[k].appr = NoApproval /\ SetRun(job[k].run, "failed")
    BY <1>5 DEF GraphFails, StartSteps
  <2>2. job[k].run # r
    BY <2>1, StillUnpublished DEF SInv, PublishedOK
  <2> QED
    BY <1>0, <2>1, <2>2, OtherRun
<1>6. ASSUME NEW k \in Workers, ExpireCommit(k) PROVE runStatus'[r] = "completed"
  <2>1. r \notin stale[k].runs
    BY DEF SInv, PublishedOK
  <2> QED
    BY <1>0, <1>6, <2>1 DEF ExpireCommit
<1>7. ASSUME NEW q \in Requests, HubCommit(q) PROVE runStatus'[r] = "completed"
  <2> DEFINE a == request[q].appr
  <2>1. a \in Approvals /\ Asks(q, a) /\ Live(a)
    BY <1>7 DEF HubCommit, IInv, CarriedOK, Asks, Live
  <2>2. \A k \in Workers : ~Takes(k, a)
    BY <2>1 DEF SInv, PlacesOK
  <2>3. approval[a].run \notin published
    BY <2>1, <2>2 DEF SInv, PublishedOK, Takes, ResumeSteps
  <2> QED
    BY <1>0, <1>7, <2>3, OtherRun DEF HubCommit
<1>8. ASSUME NEW k \in Workers,
             \/ Route(k) \/ LoadContext(k) \/ ConsumeResume(k) \/ ReadApproval(k) \/ Decide(k)
             \/ ResumeContext(k) \/ SyncBaseline(k) \/ RunCoding(k) \/ RunTests(k)
             \/ Reply(k) \/ WorkerDies(k) \/ ExpireScan(k) \/ ExpireRow(k)
      PROVE  UNCHANGED runStatus
  BY <1>8 DEF Route, LoadContext, ConsumeResume, StartResume, ReadApproval, Decide, ResumeContext,
              SyncBaseline, RunCoding, RunTests, Reply, WorkerDies, ExpireScan, ExpireRow
<1>9. ASSUME NEW q \in Requests,
             (\E a \in Approvals, d \in Decisions : HubRead(q, a, d)) \/ HubPublish(q)
      PROVE  UNCHANGED runStatus
  BY <1>9 DEF HubRead, HubPublish
<1>10. PushReindex => UNCHANGED runStatus
  BY DEF PushReindex
<1>11. /\ ~ \E k \in Workers, a \in Approvals, d \in Decisions : ChatDecision(k, a, d)
       /\ ~ \E a \in Approvals, d \in Decisions : SlackClick(a, d)
  BY DEF Serial, ChatDecision, SlackClick
<1> QED
  BY <1>1, <1>2, <1>3, <1>4, <1>5, <1>6, <1>7, <1>8, <1>9, <1>10, <1>11 DEF Next, WorkStep

\* ... and no late reply, sweep or decision takes a published run back from
\* completed (_finalize_run, expire_stale and the dashboard write blindly).
THEOREM PublishedKept == Serial => (Spec => PublishedStaysCompleted)
<1> SUFFICES ASSUME Serial PROVE Spec => PublishedStaysCompleted
  OBVIOUS
<1>1. IInv /\ SInv /\ [Next]_vars
        => [\A r \in published : runStatus[r] = "completed" => runStatus'[r] = "completed"]_vars
  BY CompletedKept
<1>2. Spec => [](IInv /\ SInv)
  BY SerialInvariant
<1> QED
  BY <1>1, <1>2, PTL DEF Spec, PublishedStaysCompleted

=============================================================================
