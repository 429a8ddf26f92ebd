--------------------------- MODULE CoderRunProofs ---------------------------
(***************************************************************************)
(* Proofs about CoderRun, for any number of runs, workers, requests and    *)
(* approvals, any channels, faults and executors: the types, the three     *)
(* gates, and that the pipeline implements the review protocol.            *)
(***************************************************************************)
EXTENDS CoderRun, TLAPS

-----------------------------------------------------------------------------
(* The inductive invariant.  What a worker does next is justified by what it *)
(* carries: the payload it popped, which some decision produced, and the     *)
(* approval it has compared.                                                 *)

\* An event names an approval that exists and the run of that approval.
Genuine(e) ==
  /\ e.appr \in Approvals
  /\ Exists(e.appr)
  /\ e.run = approval[e.appr].run

\* Approvals belong to runs, and a status "approved" was put there by a decision.
RowsOK ==
  /\ \A a \in Approvals : Exists(a) => approval[a].run \in Runs
  /\ \A a \in Approvals : approval[a].status = "approved" => a \in approved
  /\ \A a \in approved : Exists(a)

\* Whoever is about to write or to act names approvals that exist.
CarriedOK ==
  /\ \A i \in 1..Len(resumeQ) : Genuine(resumeQ[i])
  /\ \A q \in Requests : request[q].step # "idle" =>
       request[q].appr \in Approvals /\ Exists(request[q].appr)
  /\ \A k \in Workers : \A a \in stale[k].apprs : Exists(a)

AfterCheck == ResumeSteps \ {"read_approval", "decide", "check_decision"}
PlanSteps  == {"begin_coding", "sync_baseline", "run_coding", "run_tests", "report"}

\* Worker k has what its next step takes for granted.
WorkerOK(k) ==
  LET a == job[k].appr
      r == job[k].run
  IN
  /\ a # NoApproval => Genuine(job[k])
  /\ pc[k] \notin {"idle", "expire"} => r \in Runs
  /\ pc[k] \in ResumeSteps => a # NoApproval
  /\ pc[k] \in {"decide", "check_decision"} /\ seen[k] = "approved" => a \in approved
  /\ pc[k] \in AfterCheck => a \in approved
  /\ pc[k] = "generate_plan" => approval[a].stage = "impact"
  /\ pc[k] \in PlanSteps => approval[a].stage = "plan"
  /\ pc[k] \in {"publish", "record_publish"} => approval[a].stage = "publish"
  /\ pc[k] \in {"run_tests", "report"} => branch[r] # "none"
  /\ pc[k] = "report" => r \in passed
  /\ pc[k] = "finalize" => outcome[k] # "none"

IInv ==
  /\ TypeOK
  /\ RowsOK
  /\ CarriedOK
  /\ \A k \in Workers : WorkerOK(k)
  /\ ThreeGates

-----------------------------------------------------------------------------
(* What the helpers write has the right type. *)

LEMMA SetRunType ==
  ASSUME TypeOK, NEW r \in Runs, NEW status \in RunStatus, SetRun(r, status)
  PROVE  runStatus' \in [Runs -> RunStatus]
BY DEF TypeOK, SetRun

LEMMA SetApprovalType ==
  ASSUME TypeOK, NEW a \in Approvals, NEW status \in ApprovalStatus, SetApproval(a, status)
  PROVE  approval' \in [Approvals -> Row]
BY ZenonT(40) DEF TypeOK, SetApproval, Row

LEMMA DecidedType ==
  ASSUME TypeOK, NEW a \in Approvals, NEW d \in Decisions, Decided(a, d)
  PROVE  approval' \in [Approvals -> Row] /\ approved' \subseteq Approvals
<1>1. SetApproval(a, d) /\ d \in ApprovalStatus
  BY DEF Decided, Decisions, ApprovalStatus
<1>2. approval' \in [Approvals -> Row]
  BY <1>1, SetApprovalType
<1> QED
  BY <1>2 DEF Decided, TypeOK

LEMMA OpenGateType ==
  ASSUME TypeOK, NEW r \in Runs, NEW stage \in Stages, NEW status \in RunStatus,
         OpenGate(r, stage, status)
  PROVE  approval' \in [Approvals -> Row] /\ runStatus' \in [Runs -> RunStatus]
<1>1. runStatus' \in [Runs -> RunStatus]
  BY SetRunType DEF OpenGate
<1>2. [run |-> r, stage |-> stage, status |-> "pending"] \in Row
  BY DEF Row, ApprovalStatus
<1>3. approval' \in [Approvals -> Row]
  BY <1>2 DEF OpenGate, TypeOK
<1> QED
  BY <1>1, <1>3

\* A worker that is neither idle nor sweeping has a run.
LEMMA RunOfJob ==
  ASSUME IInv, NEW k \in Workers, pc[k] \notin {"idle", "expire"}
  PROVE  job[k].run \in Runs
BY DEF IInv, WorkerOK

-----------------------------------------------------------------------------
(* Every step preserves the types. *)

LEMMA TypeStep == ASSUME IInv, Next PROVE TypeOK'
<1> USE DEF tables, worker, history
<1>0. TypeOK
  BY DEF IInv
<1>1. ASSUME NEW k \in Workers, NEW r \in Runs, ReceiveTask(k, r) PROVE TypeOK'
  <2>1. runStatus' \in [Runs -> RunStatus]
    BY <1>0, <1>1 DEF ReceiveTask, TypeOK, SetRun, RunStatus
  <2>2. job' \in [Workers -> Job]
    BY <1>0, <1>1 DEF ReceiveTask, TypeOK, Job, NoJob, Decisions
  <2>3. pc' \in [Workers -> Steps]
    BY <1>0, <1>1 DEF ReceiveTask, TypeOK, Goto, Steps, StartSteps
  <2> QED
    BY <1>0, <1>1, <2>1, <2>2, <2>3 DEF ReceiveTask, TypeOK
<1>2. ASSUME NEW k \in Workers, Route(k) PROVE TypeOK'
  BY <1>0, <1>2 DEF Route, TypeOK, Goto, Return, Steps, StartSteps, Outcomes
<1>3. ASSUME NEW k \in Workers, LoadContext(k) PROVE TypeOK'
  BY <1>0, <1>3, ZenonT(40) DEF LoadContext, TypeOK, Goto, Steps, StartSteps, DropSnapshots
<1>4. ASSUME NEW k \in Workers, AssessImpact(k) PROVE TypeOK'
  <2>1. job[k].run \in Runs
    BY <1>4, RunOfJob DEF AssessImpact
  <2>2. OpenGate(job[k].run, "impact", "awaiting_approval")
    BY <1>4 DEF AssessImpact
  <2>3. "awaiting_approval" \in RunStatus /\ "impact" \in Stages
    BY DEF RunStatus, Stages
  <2>4. approval' \in [Approvals -> Row] /\ runStatus' \in [Runs -> RunStatus]
    BY <1>0, <2>1, <2>2, <2>3, OpenGateType
  <2> QED
    BY <1>0, <1>4, <2>4 DEF AssessImpact, TypeOK, Return, Goto, Steps, StartSteps, Outcomes
<1>5. ASSUME NEW k \in Workers, GraphFails(k) PROVE TypeOK'
  <2>1. runStatus' \in [Runs -> RunStatus]
    BY <1>0, <1>5 DEF GraphFails, TypeOK, SetRun, RunStatus
  <2>2. job' \in [Workers -> Job]
    BY <1>0, <1>5 DEF GraphFails, TypeOK, Job, NoJob, Decisions
  <2>3. pc' \in [Workers -> Steps] /\ outcome' \in [Workers -> Outcomes]
    BY <1>0, <1>5 DEF GraphFails, TypeOK, Goto, Steps, Outcomes
  <2> QED
    BY <1>0, <1>5, <2>1, <2>2, <2>3 DEF GraphFails, TypeOK
<1>6. ASSUME NEW k \in Workers, ConsumeResume(k) PROVE TypeOK'
  <2>1. Head(resumeQ) \in Event /\ Tail(resumeQ) \in Seq(Event)
    BY <1>0, <1>6 DEF ConsumeResume, TypeOK
  <2>2. Head(resumeQ) \in Job
    BY <2>1 DEF Event, Job
  <2> QED
    BY <1>0, <1>6, <2>1, <2>2 DEF ConsumeResume, StartResume, TypeOK, Goto, Steps, ResumeSteps
<1>7. ASSUME NEW k \in Workers, NEW a \in Approvals, NEW d \in Decisions, ChatDecision(k, a, d) PROVE TypeOK'
  <2>1. ResumeEvent(a, d) \in Job
    BY <1>0, <1>7 DEF TypeOK, ResumeEvent, Job, Row
  <2>2. pc' \in [Workers -> Steps] /\ job' \in [Workers -> Job]
    BY <1>0, <1>7, <2>1 DEF ChatDecision, TypeOK, StartResume, Goto, Steps, ResumeSteps
  <2> QED
    BY <1>0, <1>7, <2>2 DEF ChatDecision, StartResume, TypeOK
<1>8. ASSUME NEW k \in Workers, ReadApproval(k) PROVE TypeOK'
  <2>1. pc' \in [Workers -> Steps] /\ outcome' \in [Workers -> Outcomes]
    BY <1>0, <1>8 DEF ReadApproval, TypeOK, Goto, Return, Steps, ResumeSteps, Outcomes
  <2>2. job[k].appr \in Approvals
    BY <1>8 DEF ReadApproval, IInv, WorkerOK, Genuine, ResumeSteps
  <2>3. approval[job[k].appr].status \in ApprovalStatus
    BY <1>0, <2>2 DEF TypeOK, Row
  <2>4. seen' \in [Workers -> ApprovalStatus]
    BY <1>0, <1>8, <2>3 DEF ReadApproval, TypeOK
  <2> QED
    BY <1>0, <1>8, <2>1, <2>4 DEF ReadApproval, TypeOK
<1>9. ASSUME NEW k \in Workers, Decide(k) PROVE TypeOK'
  <2>1. job[k].appr \in Approvals /\ job[k].decision \in Decisions
    BY <1>0, <1>9 DEF Decide, IInv, WorkerOK, TypeOK, Job, Genuine, ResumeSteps
  <2>2. approval' \in [Approvals -> Row] /\ approved' \subseteq Approvals
    BY <1>0, <1>9, <2>1, DecidedType DEF Decide, TypeOK
  <2> QED
    BY <1>0, <1>9, <2>2 DEF Decide, TypeOK, Goto, Steps, ResumeSteps
<1>10. ASSUME NEW k \in Workers, CheckDecision(k) PROVE TypeOK'
  <2>1. job[k].run \in Runs
    BY <1>10, RunOfJob DEF CheckDecision
  <2>2. "rejected" \in RunStatus
    BY DEF RunStatus
  <2>3. runStatus' \in [Runs -> RunStatus]
    BY <1>0, <1>10, <2>1, <2>2, SetRunType DEF CheckDecision, TypeOK
  <2> QED
    BY <1>0, <1>10, <2>3 DEF CheckDecision, TypeOK, Return, Goto, Steps, ResumeSteps, Outcomes, ApprovalStatus
<1>11. ASSUME NEW k \in Workers, ResumeContext(k) PROVE TypeOK'
  <2>1. job[k].appr \in Approvals
    BY <1>11 DEF ResumeContext, IInv, WorkerOK, Genuine, ResumeSteps
  <2>2. approval[job[k].appr].stage \in Stages
    BY <1>0, <2>1 DEF TypeOK, Row
  <2>3. NextStep(approval[job[k].appr].stage) \in Steps /\ "finalize" \in Steps
    BY <2>2 DEF NextStep, Stages, Steps, ResumeSteps
  <2>4. pc' \in [Workers -> Steps]
    BY <1>0, <1>11, <2>3 DEF ResumeContext, TypeOK, Goto, Return
  <2>5. outcome' \in [Workers -> Outcomes]
    BY <1>0, <1>11 DEF ResumeContext, TypeOK, Return, Outcomes
  <2>6. advanced' \in [Approvals -> 0..2]
    BY <1>0, <1>11, <2>1, SMTT(20) DEF ResumeContext, TypeOK
  <2> QED
    BY <1>0, <1>11, <2>4, <2>5, <2>6 DEF ResumeContext, TypeOK
<1>12. ASSUME NEW k \in Workers, GeneratePlan(k) PROVE TypeOK'
  <2>1. job[k].run \in Runs
    BY <1>12, RunOfJob DEF GeneratePlan
  <2>2. "awaiting_approval" \in RunStatus /\ "plan" \in Stages
    BY DEF RunStatus, Stages
  <2>3. approval' \in [Approvals -> Row] /\ runStatus' \in [Runs -> RunStatus]
    BY <1>0, <1>12, <2>1, <2>2, OpenGateType DEF GeneratePlan
  <2> QED
    BY <1>0, <1>12, <2>3 DEF GeneratePlan, TypeOK, Return, Goto, Steps, ResumeSteps, Outcomes
<1>13. ASSUME NEW k \in Workers, BeginCoding(k) PROVE TypeOK'
  <2>1. job[k].run \in Runs
    BY <1>13, RunOfJob DEF BeginCoding
  <2>2. "coding" \in RunStatus
    BY DEF RunStatus
  <2>3. runStatus' \in [Runs -> RunStatus]
    BY <1>0, <1>13, <2>1, <2>2, SetRunType DEF BeginCoding, TypeOK
  <2> QED
    BY <1>0, <1>13, <2>3 DEF BeginCoding, TypeOK, Return, Goto, Steps, ResumeSteps, Outcomes
<1>14. ASSUME NEW k \in Workers, SyncBaseline(k) PROVE TypeOK'
  BY <1>0, <1>14, SMTT(20) DEF SyncBaseline, TypeOK, Goto, Return, Steps, ResumeSteps, Outcomes, DropSnapshots
<1>15. ASSUME NEW k \in Workers, RunCoding(k) PROVE TypeOK'
  BY <1>0, <1>15, ZenonT(40) DEF RunCoding, TypeOK, Goto, Return, Steps, ResumeSteps, Outcomes
<1>16. ASSUME NEW k \in Workers, RunTests(k) PROVE TypeOK'
  <2>1. pc' \in [Workers -> Steps] /\ outcome' \in [Workers -> Outcomes]
    BY <1>0, <1>16 DEF RunTests, TypeOK, Goto, Return, Steps, ResumeSteps, Outcomes
  <2>2. job[k].run \in Runs
    BY <1>16, RunOfJob DEF RunTests
  <2>3. branch' \in [Runs -> {"none", "coded", "checked"}] /\ passed' \subseteq Runs
    BY <1>0, <1>16, <2>2 DEF RunTests, TypeOK
  <2> QED
    BY <1>0, <1>16, <2>1, <2>3 DEF RunTests, TypeOK
<1>17. ASSUME NEW k \in Workers, Report(k) PROVE TypeOK'
  <2>1. job[k].run \in Runs
    BY <1>17, RunOfJob DEF Report
  <2>2. "report_ready" \in RunStatus /\ "publish" \in Stages
    BY DEF RunStatus, Stages
  <2>3. approval' \in [Approvals -> Row] /\ runStatus' \in [Runs -> RunStatus]
    BY <1>0, <1>17, <2>1, <2>2, OpenGateType DEF Report
  <2> QED
    BY <1>0, <1>17, <2>3 DEF Report, TypeOK, Return, Goto, Steps, ResumeSteps, Outcomes
<1>18. ASSUME NEW k \in Workers, Publish(k) PROVE TypeOK'
  <2>1. job[k].run \in Runs
    BY <1>18, RunOfJob DEF Publish
  <2>2. "failed" \in RunStatus
    BY DEF RunStatus
  <2>3. runStatus' \in [Runs -> RunStatus]
    BY <1>0, <1>18, <2>1, <2>2, SetRunType DEF Publish, TypeOK
  <2>4. pc' \in [Workers -> Steps] /\ outcome' \in [Workers -> Outcomes]
    BY <1>0, <1>18 DEF Publish, TypeOK, Goto, Return, Steps, ResumeSteps, Outcomes
  <2>5. published' \subseteq Runs
    BY <1>0, <1>18, <2>1 DEF Publish, TypeOK
  <2> QED
    BY <1>0, <1>18, <2>3, <2>4, <2>5 DEF Publish, TypeOK
<1>19. ASSUME NEW k \in Workers, RecordPublish(k) PROVE TypeOK'
  <2>1. job[k].run \in Runs
    BY <1>19, RunOfJob DEF RecordPublish
  <2>2. "completed" \in RunStatus
    BY DEF RunStatus
  <2>3. runStatus' \in [Runs -> RunStatus]
    BY <1>0, <1>19, <2>1, <2>2, SetRunType DEF RecordPublish, TypeOK
  <2> QED
    BY <1>0, <1>19, <2>3 DEF RecordPublish, TypeOK, Return, Goto, Steps, ResumeSteps, Outcomes
<1>20. ASSUME NEW k \in Workers, Finalize(k) PROVE TypeOK'
  <2>1. job[k].run \in Runs
    BY <1>20, RunOfJob DEF Finalize
  <2>2. outcome[k] \in RunStatus
    BY <1>0, <1>20 DEF Finalize, IInv, WorkerOK, TypeOK, Outcomes, RunStatus
  <2>3. runStatus' \in [Runs -> RunStatus]
    BY <1>0, <1>20, <2>1, <2>2, SetRunType DEF Finalize, TypeOK
  <2> QED
    BY <1>0, <1>20, <2>3 DEF Finalize, TypeOK, Return, Goto, Steps, ResumeSteps, Outcomes
<1>21. ASSUME NEW k \in Workers, Reply(k) PROVE TypeOK'
  <2>1. job' \in [Workers -> Job]
    BY <1>0, <1>21 DEF Reply, TypeOK, Job, NoJob, Decisions
  <2>2. pc' \in [Workers -> Steps] /\ outcome' \in [Workers -> Outcomes]
    BY <1>0, <1>21 DEF Reply, TypeOK, Goto, Steps, Outcomes
  <2> QED
    BY <1>0, <1>21, <2>1, <2>2 DEF Reply, TypeOK
<1>22. ASSUME NEW k \in Workers, WorkerDies(k) PROVE TypeOK'
  <2>1. job' \in [Workers -> Job]
    BY <1>0, <1>22 DEF WorkerDies, TypeOK, Job, NoJob, Decisions
  <2>2. pc' \in [Workers -> Steps] /\ outcome' \in [Workers -> Outcomes]
    BY <1>0, <1>22 DEF WorkerDies, TypeOK, Goto, Steps, Outcomes
  <2>3. seen' \in [Workers -> ApprovalStatus]
    BY <1>0, <1>22 DEF WorkerDies, TypeOK, ApprovalStatus
  <2>4. stale' \in [Workers -> Sweep]
    BY <1>0, <1>22 DEF WorkerDies, TypeOK, NothingStale, Sweep
  <2> QED
    BY <1>0, <1>22, <2>1, <2>2, <2>3, <2>4 DEF WorkerDies, TypeOK
<1>23. ASSUME NEW k \in Workers, ExpireScan(k) PROVE TypeOK'
  <2>1. stale' \in [Workers -> Sweep]
    <3>1. PICK S \in SUBSET Pending :
            stale' = [stale EXCEPT ![k] = [apprs |-> S, todo |-> S, runs |-> {}]]
      BY <1>23 DEF ExpireScan
    <3>2. [apprs |-> S, todo |-> S, runs |-> {}] \in Sweep
      BY DEF Sweep, Pending
    <3> QED
      BY <1>0, <3>1, <3>2 DEF TypeOK
  <2> QED
    BY <1>0, <1>23, <2>1 DEF ExpireScan, TypeOK, Goto, Steps
<1>24. ASSUME NEW k \in Workers, ExpireCommit(k) PROVE TypeOK'
  <2>1. approval' \in [Approvals -> Row]
    <3>1. ASSUME NEW a \in Approvals
          PROVE  approval[a] \in Row /\ [approval[a] EXCEPT !.status = "expired"] \in Row
      BY <1>0 DEF TypeOK, Row, ApprovalStatus
    <3> QED
      BY <1>24, <3>1 DEF ExpireCommit
  <2>2. runStatus' \in [Runs -> RunStatus]
    BY <1>0, <1>24 DEF ExpireCommit, TypeOK, RunStatus
  <2>3. stale' \in [Workers -> Sweep]
    BY <1>0, <1>24 DEF ExpireCommit, TypeOK, NothingStale, Sweep
  <2>4. pc' \in [Workers -> Steps]
    BY <1>0, <1>24 DEF ExpireCommit, TypeOK, Goto, Steps
  <2> QED
    BY <1>0, <1>24, <2>1, <2>2, <2>3, <2>4 DEF ExpireCommit, TypeOK
<1>25. ASSUME NEW q \in Requests, NEW a \in Approvals, NEW d \in Decisions, HubRead(q, a, d) PROVE TypeOK'
  BY <1>0, <1>25 DEF HubRead, TypeOK, Decisions
<1>26. ASSUME NEW q \in Requests, HubCommit(q) PROVE TypeOK'
  <2>1. request[q].appr \in Approvals /\ request[q].decision \in Decisions
    BY <1>0, <1>26 DEF HubCommit, IInv, CarriedOK, TypeOK
  <2>2. approval' \in [Approvals -> Row] /\ approved' \subseteq Approvals
    BY <1>0, <1>26, <2>1, DecidedType DEF HubCommit
  <2>3. approval[request[q].appr].run \in Runs /\ RunAfter(request[q].decision) \in RunStatus
    BY <1>26, <2>1 DEF HubCommit, IInv, CarriedOK, RowsOK, RunAfter, RunStatus
  <2>4. runStatus' \in [Runs -> RunStatus]
    BY <1>0, <1>26, <2>3, SetRunType DEF HubCommit
  <2> QED
    BY <1>0, <1>26, <2>2, <2>4 DEF HubCommit, TypeOK
<1>27. ASSUME NEW q \in Requests, HubPublish(q) PROVE TypeOK'
  <2>1. request[q].appr \in Approvals /\ request[q].decision \in Decisions
    BY <1>0, <1>27 DEF HubPublish, IInv, CarriedOK, TypeOK
  <2>2. ResumeEvent(request[q].appr, request[q].decision) \in Event
    BY <1>27, <2>1 DEF HubPublish, IInv, CarriedOK, RowsOK, ResumeEvent, Event
  <2>3. resumeQ' \in Seq(Event)
    <3>1. resumeQ \in Seq(Event)
      BY <1>0 DEF TypeOK
    <3>2. \/ resumeQ' = Append(resumeQ, ResumeEvent(request[q].appr, request[q].decision))
          \/ resumeQ' = resumeQ
      BY <1>27 DEF HubPublish
    <3> QED
      BY <2>2, <3>1, <3>2
  <2>4. request' \in [Requests -> [step: {"idle", "commit", "publish"},
                              appr: Approvals \cup {NoApproval}, decision: Decisions]]
    BY <1>0, <1>27 DEF HubPublish, TypeOK, NoRequest, Decisions
  <2> QED
    BY <1>0, <1>27, <2>3, <2>4 DEF HubPublish, TypeOK
<1>28. ASSUME NEW a \in Approvals, NEW d \in Decisions, SlackClick(a, d) PROVE TypeOK'
  <2>1. approval' \in [Approvals -> Row] /\ approved' \subseteq Approvals
    BY <1>0, <1>28, DecidedType DEF SlackClick
  <2>2. approval[a].run \in Runs /\ RunAfter(d) \in RunStatus
    BY <1>28 DEF SlackClick, IInv, RowsOK, Exists, RunAfter, RunStatus
  <2>3. runStatus' \in [Runs -> RunStatus]
    BY <1>0, <1>28, <2>2, SetRunType DEF SlackClick
  <2> QED
    BY <1>0, <1>28, <2>1, <2>3 DEF SlackClick, TypeOK
<1>29. ASSUME PushReindex PROVE TypeOK'
  BY <1>0, <1>29 DEF PushReindex, TypeOK, DropSnapshots
<1>30. ASSUME NEW k \in Workers, ExpireRow(k) PROVE TypeOK'
  <2>1. stale' \in [Workers -> Sweep]
    <3>1. PICK a \in stale[k].todo :
            stale' = [stale EXCEPT ![k] = RowDone(stale[k], a)]
      BY <1>30 DEF ExpireRow
    <3>2. stale[k] \in Sweep
      BY <1>0 DEF TypeOK
    <3>3. RowDone(stale[k], a) \in Sweep
      BY <3>2 DEF RowDone, Sweep, AwaitingRuns
    <3> QED
      BY <1>0, <3>1, <3>3 DEF TypeOK
  <2> QED
    BY <1>0, <1>30, <2>1 DEF ExpireRow, TypeOK
<1> QED
  BY <1>1, <1>2, <1>3, <1>4, <1>5, <1>6, <1>7, <1>8, <1>9, <1>10, <1>11, <1>12, <1>13, <1>14, <1>15, <1>16, <1>17, <1>18, <1>19, <1>20, <1>21, <1>22, <1>23, <1>24, <1>25, <1>26, <1>27, <1>28, <1>29, <1>30 DEF Next, WorkStep

-----------------------------------------------------------------------------
(* What a step may do to the reviews and to the work behind them.  All that  *)
(* follows uses a step only through its kind.                                *)

MayOpen(r, stage) ==
  \/ stage = "impact"
  \/ stage = "plan" /\ Granted(r, "impact")
  \/ stage = "publish" /\ Granted(r, "plan") /\ r \in passed

Quiet == UNCHANGED <<approval, approved, branch, passed, published>>

Opens(r, stage) ==
  /\ MayOpen(r, stage)
  /\ \E a \in Approvals :
       /\ approval[a].status = "absent"
       /\ approval' = [approval EXCEPT ![a] = [run |-> r, stage |-> stage, status |-> "pending"]]
  /\ UNCHANGED <<approved, branch, passed, published>>

Decides(a, d) ==
  /\ Exists(a)
  /\ Decided(a, d)
  /\ UNCHANGED <<branch, passed, published>>

Expires(S) ==
  /\ \A a \in S : Exists(a)
  /\ approval' = [a \in Approvals |->
                    IF a \in S THEN [approval[a] EXCEPT !.status = "expired"] ELSE approval[a]]
  /\ UNCHANGED <<approved, branch, passed, published>>

Codes(r) ==
  /\ Granted(r, "plan")
  /\ branch' = [branch EXCEPT ![r] = "coded"]
  /\ UNCHANGED <<approval, approved, passed, published>>

Tests(r) ==
  /\ branch[r] # "none"
  /\ branch' = [branch EXCEPT ![r] = "checked"]
  /\ passed' = passed \cup {r}
  /\ UNCHANGED <<approval, approved, published>>

Publishes(r) ==
  /\ Granted(r, "publish")
  /\ published' = published \cup {r}
  /\ UNCHANGED <<approval, approved, branch, passed>>

StepKind ==
  \/ Quiet
  \/ \E r \in Runs, stage \in Stages : Opens(r, stage)
  \/ \E a \in Approvals, d \in Decisions : Decides(a, d)
  \/ \E S \in SUBSET Approvals : Expires(S)
  \/ \E r \in Runs : Codes(r) \/ Tests(r) \/ Publishes(r)

\* A worker past the comparison of a decision holds an approval of its run
\* that was granted.
LEMMA HeldApproval ==
  ASSUME IInv, NEW k \in Workers, pc[k] \in AfterCheck
  PROVE  /\ job[k].appr \in approved
         /\ job[k].run = approval[job[k].appr].run
         /\ Granted(job[k].run, approval[job[k].appr].stage)
<1>1. pc[k] \in ResumeSteps
  BY DEF AfterCheck
<1>2. job[k].appr \in approved /\ job[k].run = approval[job[k].appr].run
  BY <1>1 DEF IInv, WorkerOK, Genuine
<1> QED
  BY <1>2 DEF Granted

LEMMA StepKinds == ASSUME IInv, Next PROVE StepKind
<1> USE DEF tables, worker, history
<1>0. TypeOK
  BY DEF IInv
<1>1. ASSUME NEW k \in Workers, NEW r \in Runs, ReceiveTask(k, r) PROVE StepKind
  BY <1>1 DEF ReceiveTask, StepKind, Quiet
<1>2. ASSUME NEW k \in Workers, Route(k) PROVE StepKind
  BY <1>2 DEF Route, StepKind, Quiet
<1>3. ASSUME NEW k \in Workers, LoadContext(k) PROVE StepKind
  BY <1>3 DEF LoadContext, StepKind, Quiet
<1>4. ASSUME NEW k \in Workers, GraphFails(k) PROVE StepKind
  BY <1>4 DEF GraphFails, StepKind, Quiet
<1>5. ASSUME NEW k \in Workers, ConsumeResume(k) PROVE StepKind
  BY <1>5 DEF ConsumeResume, StartResume, StepKind, Quiet
<1>6. ASSUME NEW k \in Workers, NEW a \in Approvals, NEW d \in Decisions, ChatDecision(k, a, d) PROVE StepKind
  BY <1>6 DEF ChatDecision, StartResume, StepKind, Quiet
<1>7. ASSUME NEW k \in Workers, ReadApproval(k) PROVE StepKind
  BY <1>7 DEF ReadApproval, StepKind, Quiet
<1>8. ASSUME NEW k \in Workers, CheckDecision(k) PROVE StepKind
  BY <1>8 DEF CheckDecision, StepKind, Quiet
<1>9. ASSUME NEW k \in Workers, ResumeContext(k) PROVE StepKind
  BY <1>9 DEF ResumeContext, StepKind, Quiet
<1>10. ASSUME NEW k \in Workers, BeginCoding(k) PROVE StepKind
  BY <1>10 DEF BeginCoding, StepKind, Quiet
<1>11. ASSUME NEW k \in Workers, SyncBaseline(k) PROVE StepKind
  BY <1>11 DEF SyncBaseline, StepKind, Quiet
<1>12. ASSUME NEW k \in Workers, RecordPublish(k) PROVE StepKind
  BY <1>12 DEF RecordPublish, StepKind, Quiet
<1>13. ASSUME NEW k \in Workers, Finalize(k) PROVE StepKind
  BY <1>13 DEF Finalize, StepKind, Quiet
<1>14. ASSUME NEW k \in Workers, Reply(k) PROVE StepKind
  BY <1>14 DEF Reply, StepKind, Quiet
<1>15. ASSUME NEW k \in Workers, WorkerDies(k) PROVE StepKind
  BY <1>15 DEF WorkerDies, StepKind, Quiet
<1>16. ASSUME NEW k \in Workers, ExpireScan(k) PROVE StepKind
  BY <1>16 DEF ExpireScan, StepKind, Quiet
<1>17. ASSUME NEW q \in Requests, NEW a \in Approvals, NEW d \in Decisions, HubRead(q, a, d) PROVE StepKind
  BY <1>17 DEF HubRead, StepKind, Quiet
<1>18. ASSUME NEW q \in Requests, HubPublish(q) PROVE StepKind
  BY <1>18 DEF HubPublish, StepKind, Quiet
<1>19. ASSUME PushReindex PROVE StepKind
  BY <1>19 DEF PushReindex, StepKind, Quiet
<1>20. ASSUME NEW k \in Workers, AssessImpact(k) PROVE StepKind
  <2>1. job[k].run \in Runs
    BY <1>20, RunOfJob DEF AssessImpact
  <2>2. MayOpen(job[k].run, "impact")
    BY DEF MayOpen
  <2>3. OpenGate(job[k].run, "impact", "awaiting_approval")
    BY <1>20 DEF AssessImpact
  <2>4. Opens(job[k].run, "impact")
    BY <1>20, <2>2, <2>3 DEF AssessImpact, OpenGate, Opens
  <2> QED
    BY <2>1, <2>4 DEF StepKind, Stages
<1>21. ASSUME NEW k \in Workers, GeneratePlan(k) PROVE StepKind
  <2>1. job[k].run \in Runs
    BY <1>21, RunOfJob DEF GeneratePlan
  <2>2. MayOpen(job[k].run, "plan")
    <3>1. pc[k] \in AfterCheck /\ approval[job[k].appr].stage = "impact"
      BY <1>21 DEF GeneratePlan, AfterCheck, ResumeSteps, IInv, WorkerOK
    <3> QED
      BY <3>1, HeldApproval DEF MayOpen
  <2>3. OpenGate(job[k].run, "plan", "awaiting_approval")
    BY <1>21 DEF GeneratePlan
  <2>4. Opens(job[k].run, "plan")
    BY <1>21, <2>2, <2>3 DEF GeneratePlan, OpenGate, Opens
  <2> QED
    BY <2>1, <2>4 DEF StepKind, Stages
<1>22. ASSUME NEW k \in Workers, Report(k) PROVE StepKind
  <2>1. job[k].run \in Runs
    BY <1>22, RunOfJob DEF Report
  <2>2. MayOpen(job[k].run, "publish")
    <3>1. pc[k] \in AfterCheck /\ approval[job[k].appr].stage = "plan" /\ job[k].run \in passed
      BY <1>22 DEF Report, AfterCheck, ResumeSteps, PlanSteps, IInv, WorkerOK
    <3> QED
      BY <3>1, HeldApproval DEF MayOpen
  <2>3. OpenGate(job[k].run, "publish", "report_ready")
    BY <1>22 DEF Report
  <2>4. Opens(job[k].run, "publish")
    BY <1>22, <2>2, <2>3 DEF Report, OpenGate, Opens
  <2> QED
    BY <2>1, <2>4 DEF StepKind, Stages
<1>23. ASSUME NEW k \in Workers, Decide(k) PROVE StepKind
  <2>1. job[k].appr \in Approvals /\ job[k].decision \in Decisions /\ Exists(job[k].appr)
    BY <1>0, <1>23 DEF Decide, IInv, WorkerOK, TypeOK, Job, Genuine, ResumeSteps
  <2>2. CASE seen[k] = "pending"
    <3>1. Decides(job[k].appr, job[k].decision)
      BY <1>23, <2>1, <2>2 DEF Decide, Decides
    <3> QED
      BY <2>1, <3>1 DEF StepKind
  <2>3. CASE seen[k] # "pending"
    BY <1>23, <2>3 DEF Decide, StepKind, Quiet
  <2> QED
    BY <2>2, <2>3
<1>24. ASSUME NEW k \in Workers, RunCoding(k) PROVE StepKind
  <2>1. job[k].run \in Runs
    BY <1>24, RunOfJob DEF RunCoding
  <2>2. pc[k] \in AfterCheck /\ approval[job[k].appr].stage = "plan"
    BY <1>24 DEF RunCoding, AfterCheck, ResumeSteps, PlanSteps, IInv, WorkerOK
  <2>3. Codes(job[k].run)
    BY <1>24, <2>2, HeldApproval DEF RunCoding, Codes
  <2> QED
    BY <2>1, <2>3 DEF StepKind
<1>25. ASSUME NEW k \in Workers, RunTests(k) PROVE StepKind
  <2>1. job[k].run \in Runs
    BY <1>25, RunOfJob DEF RunTests
  <2>2. branch[job[k].run] # "none"
    BY <1>25 DEF RunTests, IInv, WorkerOK
  <2>3. Quiet \/ Tests(job[k].run)
    BY <1>25, <2>2 DEF RunTests, Tests, Quiet
  <2> QED
    BY <2>1, <2>3 DEF StepKind
<1>26. ASSUME NEW k \in Workers, Publish(k) PROVE StepKind
  <2>1. job[k].run \in Runs
    BY <1>26, RunOfJob DEF Publish
  <2>2. pc[k] \in AfterCheck /\ approval[job[k].appr].stage = "publish"
    BY <1>26 DEF Publish, AfterCheck, ResumeSteps, IInv, WorkerOK
  <2>3. Quiet \/ Publishes(job[k].run)
    BY <1>26, <2>2, HeldApproval DEF Publish, Publishes, Quiet
  <2> QED
    BY <2>1, <2>3 DEF StepKind
<1>27. ASSUME NEW k \in Workers, ExpireCommit(k) PROVE StepKind
  <2>1. stale[k].apprs \in SUBSET Approvals /\ \A a \in stale[k].apprs : Exists(a)
    BY <1>0 DEF TypeOK, Sweep, IInv, CarriedOK
  <2>2. Expires(stale[k].apprs)
    BY <1>27, <2>1 DEF ExpireCommit, Expires
  <2> QED
    BY <2>1, <2>2 DEF StepKind
<1>28. ASSUME NEW q \in Requests, HubCommit(q) PROVE StepKind
  <2>1. request[q].appr \in Approvals /\ request[q].decision \in Decisions /\ Exists(request[q].appr)
    BY <1>0, <1>28 DEF HubCommit, IInv, CarriedOK, TypeOK
  <2>2. Decides(request[q].appr, request[q].decision)
    BY <1>28, <2>1 DEF HubCommit, Decides
  <2> QED
    BY <2>1, <2>2 DEF StepKind
<1>29. ASSUME NEW a \in Approvals, NEW d \in Decisions, SlackClick(a, d) PROVE StepKind
  <2>1. Decides(a, d)
    BY <1>29 DEF SlackClick, Decides, Exists
  <2> QED
    BY <2>1 DEF StepKind
<1>30. ASSUME NEW k \in Workers, ExpireRow(k) PROVE StepKind
  BY <1>30 DEF ExpireRow, StepKind, Quiet
<1> QED
  BY <1>1, <1>2, <1>3, <1>4, <1>5, <1>6, <1>7, <1>8, <1>9, <1>10, <1>11, <1>12, <1>13, <1>14, <1>15, <1>16, <1>17, <1>18, <1>19, <1>20, <1>21, <1>22, <1>23, <1>24, <1>25, <1>26, <1>27, <1>28, <1>29, <1>30 DEF Next, WorkStep

-----------------------------------------------------------------------------
(* Rows keep their run and stage; approvals given and work done stay so.     *)

Stable ==
  /\ \A a \in Approvals : Exists(a) =>
       /\ Exists(a)'
       /\ approval'[a].run = approval[a].run
       /\ approval'[a].stage = approval[a].stage
  /\ approved \subseteq approved'
  /\ passed \subseteq passed'
  /\ \A r \in Runs : branch[r] # "none" => branch'[r] # "none"

LEMMA StepStable == ASSUME TypeOK, StepKind PROVE Stable
<1> USE DEF TypeOK
<1>1. ASSUME Quiet PROVE Stable
  BY <1>1 DEF Quiet, Stable, Exists
<1>2. ASSUME NEW r \in Runs, NEW stage \in Stages, Opens(r, stage) PROVE Stable
  BY <1>2 DEF Opens, Stable, Exists
<1>3. ASSUME NEW a \in Approvals, NEW d \in Decisions, Decides(a, d) PROVE Stable
  BY <1>3 DEF Decides, Decided, SetApproval, Decisions, Stable, Exists, Row
<1>4. ASSUME NEW S \in SUBSET Approvals, Expires(S) PROVE Stable
  BY <1>4 DEF Expires, Stable, Exists, Row
<1>5. ASSUME NEW r \in Runs, Codes(r) PROVE Stable
  BY <1>5 DEF Codes, Stable, Exists
<1>6. ASSUME NEW r \in Runs, Tests(r) PROVE Stable
  BY <1>6 DEF Tests, Stable, Exists
<1>7. ASSUME NEW r \in Runs, Publishes(r) PROVE Stable
  BY <1>7 DEF Publishes, Stable, Exists
<1> QED
  BY <1>1, <1>2, <1>3, <1>4, <1>5, <1>6, <1>7 DEF StepKind

\* A review once granted stays granted.
LEMMA GrantedStays ==
  ASSUME RowsOK, TypeOK, Stable, NEW r \in Runs, NEW stage, Granted(r, stage)
  PROVE  Granted(r, stage)'
BY DEF RowsOK, TypeOK, Stable, Granted

-----------------------------------------------------------------------------
(* The parts of the invariant that speak of tables and history only.         *)

LEMMA RowsStep == ASSUME IInv, StepKind PROVE RowsOK'
<1> USE DEF TypeOK, RowsOK, Exists
<1>0. TypeOK /\ RowsOK
  BY DEF IInv
<1>1. ASSUME Quiet PROVE RowsOK'
  BY <1>0, <1>1 DEF Quiet
<1>2. ASSUME NEW r \in Runs, NEW stage \in Stages, Opens(r, stage) PROVE RowsOK'
  BY <1>0, <1>2 DEF Opens
<1>3. ASSUME NEW a \in Approvals, NEW d \in Decisions, Decides(a, d) PROVE RowsOK'
  BY <1>0, <1>3 DEF Decides, Decided, SetApproval, Decisions, Row
<1>4. ASSUME NEW S \in SUBSET Approvals, Expires(S) PROVE RowsOK'
  BY <1>0, <1>4 DEF Expires, Row
<1>5. ASSUME NEW r \in Runs, Codes(r) \/ Tests(r) \/ Publishes(r) PROVE RowsOK'
  BY <1>0, <1>5 DEF Codes, Tests, Publishes
<1> QED
  BY <1>1, <1>2, <1>3, <1>4, <1>5 DEF StepKind

LEMMA ThreeGatesStep == ASSUME IInv, StepKind PROVE ThreeGates'
<1>0. TypeOK /\ RowsOK /\ ThreeGates
  BY DEF IInv
<1>1. Stable
  BY <1>0, StepStable
<1>2. ASSUME NEW r \in Runs, NEW stage, Granted(r, stage) PROVE Granted(r, stage)'
  BY <1>0, <1>1, <1>2, GrantedStays
<1> DEFINE RowBehindGate(a) ==
             /\ approval[a].stage = "plan" => Granted(approval[a].run, "impact")
             /\ approval[a].stage = "publish" => /\ Granted(approval[a].run, "plan")
                                                 /\ approval[a].run \in passed
           WorkBehindGate(r) ==
             /\ branch[r] # "none" => Granted(r, "plan")
             /\ r \in passed => branch[r] # "none"
             /\ r \in published => Granted(r, "publish")
<1>3. ASSUME NEW a \in Approvals, Exists(a) PROVE RowBehindGate(a)'
  <2>1. RowBehindGate(a) /\ approval[a].run \in Runs
    BY <1>0, <1>3 DEF ThreeGates, RowsOK
  <2>2. approval'[a].run = approval[a].run /\ approval'[a].stage = approval[a].stage
        /\ passed \subseteq passed'
    BY <1>1, <1>3 DEF Stable
  <2> QED
    BY <1>2, <2>1, <2>2
<1>4. ASSUME NEW r \in Runs, NEW stage \in Stages, Opens(r, stage),
             NEW a \in Approvals, ~Exists(a), Exists(a)'
      PROVE  RowBehindGate(a)'
  <2>1. approval'[a].run = r /\ approval'[a].stage = stage
    BY <1>0, <1>4 DEF Opens, TypeOK, Exists
  <2>2. MayOpen(r, stage) /\ passed' = passed
    BY <1>4 DEF Opens
  <2> QED
    BY <1>2, <2>1, <2>2 DEF MayOpen
<1>5. ASSUME NEW a \in Approvals, ~Exists(a), Exists(a)'
      PROVE  \E r \in Runs, stage \in Stages : Opens(r, stage)
  <2>1. CASE Quiet
    BY <1>5, <2>1 DEF Quiet, Exists
  <2>2. ASSUME NEW b \in Approvals, NEW d \in Decisions, Decides(b, d) PROVE FALSE
    BY <1>0, <1>5, <2>2 DEF Decides, Decided, SetApproval, TypeOK, Exists
  <2>3. ASSUME NEW S \in SUBSET Approvals, Expires(S) PROVE FALSE
    BY <1>0, <1>5, <2>3 DEF Expires, TypeOK, Exists
  <2>4. ASSUME NEW r \in Runs, Codes(r) \/ Tests(r) \/ Publishes(r) PROVE FALSE
    BY <1>5, <2>4 DEF Codes, Tests, Publishes, Exists
  <2> QED
    BY <2>1, <2>2, <2>3, <2>4 DEF StepKind
<1>6. \A a \in Approvals : Exists(a)' => RowBehindGate(a)'
  BY <1>3, <1>4, <1>5
<1>7. ASSUME NEW r \in Runs PROVE WorkBehindGate(r)'
  <2> USE <1>0 DEF TypeOK
  <2>0. WorkBehindGate(r)
    BY DEF ThreeGates
  <2>1. ASSUME UNCHANGED <<branch, passed, published>> PROVE WorkBehindGate(r)'
    BY <1>2, <2>0, <2>1
  <2>2. ASSUME NEW c \in Runs, Codes(c) PROVE WorkBehindGate(r)'
    BY <1>2, <2>0, <2>2 DEF Codes
  <2>3. ASSUME NEW c \in Runs, Tests(c) PROVE WorkBehindGate(r)'
    BY <1>2, <2>0, <2>3 DEF Tests
  <2>4. ASSUME NEW c \in Runs, Publishes(c) PROVE WorkBehindGate(r)'
    BY <1>2, <2>0, <2>4 DEF Publishes
  <2> QED
    BY <2>1, <2>2, <2>3, <2>4 DEF StepKind, Quiet, Opens, Decides, Expires
<1> QED
  BY <1>6, <1>7 DEF ThreeGates

-----------------------------------------------------------------------------
(* What is under way: events, requests and sweeps.                           *)

ExistsAfter(a) == approval'[a].status # "absent"

GenuineAfter(e) ==
  /\ e.appr \in Approvals
  /\ ExistsAfter(e.appr)
  /\ e.run = approval'[e.appr].run

LEMMA GenuineStays ==
  ASSUME Stable
  PROVE  /\ \A a \in Approvals : Exists(a) => ExistsAfter(a)
         /\ \A e : Genuine(e) => GenuineAfter(e)
BY DEF Stable, Genuine, GenuineAfter, Exists, ExistsAfter

LEMMA CarriedAfter ==
  ASSUME \A i \in 1..Len(resumeQ') : GenuineAfter(resumeQ'[i]),
         \A q \in Requests : request'[q].step # "idle" =>
           request'[q].appr \in Approvals /\ ExistsAfter(request'[q].appr),
         \A k \in Workers : \A a \in stale'[k].apprs : ExistsAfter(a)
  PROVE  CarriedOK'
BY DEF CarriedOK, Genuine, GenuineAfter, Exists, ExistsAfter

LEMMA CarriedStep == ASSUME IInv, Next, Stable PROVE CarriedOK'
<1> USE DEF tables, worker, history
<1>0. TypeOK /\ CarriedOK /\ RowsOK
  BY DEF IInv
<1>1. ASSUME UNCHANGED <<resumeQ, request>>,
             \A k \in Workers : \A a \in stale'[k].apprs : Exists(a) /\ a \in Approvals
      PROVE  CarriedOK'
  <2>1. \A i \in 1..Len(resumeQ') : GenuineAfter(resumeQ'[i])
    BY <1>0, <1>1, GenuineStays DEF CarriedOK
  <2>2. \A q \in Requests : request'[q].step # "idle" =>
          request'[q].appr \in Approvals /\ ExistsAfter(request'[q].appr)
    BY <1>0, <1>1, GenuineStays DEF CarriedOK
  <2>3. \A k \in Workers : \A a \in stale'[k].apprs : ExistsAfter(a)
    BY <1>1, GenuineStays
  <2> QED
    BY <2>1, <2>2, <2>3, CarriedAfter
<1>2. \A k \in Workers : \A a \in stale[k].apprs : Exists(a) /\ a \in Approvals
  BY <1>0 DEF CarriedOK, TypeOK, Sweep
<1>3. ASSUME NEW k \in Workers, NEW r \in Runs, ReceiveTask(k, r) PROVE CarriedOK'
  BY <1>1, <1>2, <1>3 DEF ReceiveTask
<1>4. ASSUME NEW k \in Workers, ConsumeResume(k) PROVE CarriedOK'
  <2>1. resumeQ # <<>> /\ resumeQ' = Tail(resumeQ) /\ resumeQ \in Seq(Event)
        /\ UNCHANGED <<request, stale>>
    BY <1>0, <1>4 DEF ConsumeResume, StartResume, TypeOK
  <2>2. ASSUME NEW i \in 1..Len(resumeQ') PROVE GenuineAfter(resumeQ'[i])
    <3>1. resumeQ'[i] = resumeQ[i + 1] /\ i + 1 \in 1..Len(resumeQ)
      BY <2>1, <2>2
    <3> QED
      BY <1>0, <3>1, GenuineStays DEF CarriedOK
  <2> QED
    BY <1>0, <1>2, <2>1, <2>2, GenuineStays, CarriedAfter DEF CarriedOK
<1>5. ASSUME NEW k \in Workers, NEW a \in Approvals, NEW d \in Decisions, ChatDecision(k, a, d)
      PROVE  CarriedOK'
  BY <1>1, <1>2, <1>5 DEF ChatDecision, StartResume
<1>6. ASSUME NEW k \in Workers,
             \/ ReadApproval(k) \/ Decide(k) \/ CheckDecision(k) \/ ResumeContext(k)
             \/ GeneratePlan(k) \/ BeginCoding(k) \/ SyncBaseline(k) \/ RunCoding(k)
      PROVE  CarriedOK'
  BY <1>1, <1>2, <1>6 DEF ReadApproval, Decide, CheckDecision, ResumeContext, GeneratePlan,
     BeginCoding, SyncBaseline, RunCoding
<1>7. ASSUME NEW k \in Workers,
             RunTests(k) \/ Report(k) \/ Publish(k) \/ RecordPublish(k) \/ Finalize(k) \/ Reply(k)
      PROVE  CarriedOK'
  BY <1>1, <1>2, <1>7 DEF RunTests, Report, Publish, RecordPublish, Finalize, Reply
<1>8. ASSUME NEW k \in Workers, WorkerDies(k) \/ ExpireCommit(k) PROVE CarriedOK'
  <2>1. stale' = [stale EXCEPT ![k] = NothingStale] /\ UNCHANGED <<resumeQ, request>>
    BY <1>8 DEF WorkerDies, ExpireCommit
  <2>2. \A j \in Workers : stale'[j] = stale[j] \/ stale'[j].apprs = {}
    BY <1>0, <2>1 DEF TypeOK, NothingStale
  <2> QED
    BY <1>1, <1>2, <2>1, <2>2
<1>9. ASSUME NEW k \in Workers, ExpireScan(k) PROVE CarriedOK'
  <2>1. UNCHANGED <<resumeQ, request>>
    BY <1>9 DEF ExpireScan
  <2>2. \A j \in Workers : stale'[j] = stale[j] \/ stale'[j].apprs \subseteq Pending
    BY <1>0, <1>9 DEF ExpireScan, TypeOK, NothingStale, Sweep
  <2> QED
    BY <1>1, <1>2, <2>1, <2>2 DEF Pending, Exists
<1>10. ASSUME NEW q \in Requests, NEW a \in Approvals, NEW d \in Decisions, HubRead(q, a, d)
       PROVE  CarriedOK'
  <2>1. UNCHANGED <<resumeQ, stale>> /\ Exists(a)
    BY <1>10 DEF HubRead, Exists
  <2>2. \A p \in Requests : request'[p] = request[p] \/ request'[p].appr = a
    BY <1>0, <1>10 DEF HubRead, TypeOK
  <2>3. \A i \in 1..Len(resumeQ') : GenuineAfter(resumeQ'[i])
    BY <1>0, <2>1, GenuineStays DEF CarriedOK
  <2> QED
    BY <1>0, <1>2, <2>1, <2>2, <2>3, GenuineStays, CarriedAfter DEF CarriedOK
<1>11. ASSUME NEW q \in Requests, HubCommit(q) PROVE CarriedOK'
  <2>1. UNCHANGED <<resumeQ, stale>> /\ request[q].step # "idle"
    BY <1>11 DEF HubCommit
  <2>2. \A p \in Requests : request'[p].appr = request[p].appr
                           /\ (request'[p].step # "idle" => request[p].step # "idle")
    BY <1>0, <1>11, <2>1 DEF HubCommit, TypeOK
  <2>3. \A i \in 1..Len(resumeQ') : GenuineAfter(resumeQ'[i])
    BY <1>0, <2>1, GenuineStays DEF CarriedOK
  <2> QED
    BY <1>0, <1>2, <2>1, <2>2, <2>3, GenuineStays, CarriedAfter DEF CarriedOK
<1>12. ASSUME NEW q \in Requests, HubPublish(q) PROVE CarriedOK'
  <2>1. request[q].appr \in Approvals /\ Exists(request[q].appr)
    BY <1>0, <1>12 DEF HubPublish, CarriedOK
  <2> DEFINE e == ResumeEvent(request[q].appr, request[q].decision)
  <2>2. Genuine(e)
    BY <2>1 DEF Genuine, ResumeEvent
  <2>3. \A i \in 1..Len(resumeQ') : GenuineAfter(resumeQ'[i])
    <3>1. CASE resumeQ' = resumeQ
      BY <1>0, <3>1, GenuineStays DEF CarriedOK
    <3>2. CASE resumeQ' = Append(resumeQ, e)
      <4>1. resumeQ \in Seq(Event)
        BY <1>0 DEF TypeOK
      <4>2. ASSUME NEW i \in 1..Len(resumeQ')
            PROVE  resumeQ'[i] = e \/ (i \in 1..Len(resumeQ) /\ resumeQ'[i] = resumeQ[i])
        BY <3>2, <4>1, <4>2
      <4> QED
        BY <1>0, <2>2, <4>2, GenuineStays DEF CarriedOK
    <3> QED
      BY <1>12, <3>1, <3>2 DEF HubPublish
  <2>4. UNCHANGED stale
    BY <1>12 DEF HubPublish
  <2>5. \A p \in Requests : request'[p] = request[p] \/ request'[p].step = "idle"
    BY <1>0, <1>12 DEF HubPublish, TypeOK, NoRequest
  <2> QED
    BY <1>0, <1>2, <2>3, <2>4, <2>5, GenuineStays, CarriedAfter DEF CarriedOK
<1>13. ASSUME NEW a \in Approvals, NEW d \in Decisions, SlackClick(a, d) PROVE CarriedOK'
  BY <1>1, <1>2, <1>13 DEF SlackClick
<1>14. ASSUME PushReindex PROVE CarriedOK'
  BY <1>1, <1>2, <1>14 DEF PushReindex
<1>15. ASSUME NEW k \in Workers,
              Route(k) \/ LoadContext(k) \/ AssessImpact(k) \/ GraphFails(k)
       PROVE  CarriedOK'
  BY <1>1, <1>2, <1>15 DEF Route, LoadContext, AssessImpact, GraphFails
<1>16. ASSUME NEW k \in Workers, ExpireRow(k) PROVE CarriedOK'
  <2>1. UNCHANGED <<resumeQ, request>>
    BY <1>16 DEF ExpireRow
  <2>2. \A j \in Workers : stale'[j].apprs = stale[j].apprs
    BY <1>0, <1>16 DEF ExpireRow, RowDone, TypeOK, Sweep
  <2> QED
    BY <1>1, <1>2, <2>1, <2>2
<1> QED
  BY <1>3, <1>4, <1>5, <1>6, <1>7, <1>8, <1>9, <1>10, <1>11, <1>12, <1>13, <1>14, <1>15, <1>16
     DEF Next, WorkStep

-----------------------------------------------------------------------------
(* What the workers carry.                                                   *)

Unmoved(j) ==
  /\ pc'[j] = pc[j]
  /\ job'[j] = job[j]
  /\ seen'[j] = seen[j]
  /\ outcome'[j] = outcome[j]

LEMMA OtherWorkers ==
  ASSUME IInv, Stable, NEW j \in Workers, Unmoved(j)
  PROVE  WorkerOK(j)'
<1>1. WorkerOK(j)
  BY DEF IInv
<1>2. CASE job[j].appr # NoApproval
  <2>1. Genuine(job[j])
    BY <1>1, <1>2 DEF WorkerOK
  <2>2. /\ approval'[job[j].appr].run = approval[job[j].appr].run
        /\ approval'[job[j].appr].stage = approval[job[j].appr].stage
        /\ GenuineAfter(job[j])
    BY <2>1, GenuineStays DEF Stable, Genuine
  <2> QED
    BY <1>1, <2>1, <2>2 DEF WorkerOK, Unmoved, Stable, GenuineAfter, Genuine, Exists, ExistsAfter,
       ResumeSteps
<1>3. CASE job[j].appr = NoApproval
  <2>1. pc[j] \notin ResumeSteps
    BY <1>1, <1>3 DEF WorkerOK
  <2> QED
    BY <1>1, <1>3, <2>1 DEF WorkerOK, Unmoved, ResumeSteps, AfterCheck, PlanSteps
<1> QED
  BY <1>2, <1>3

\* The acting worker keeps its payload, and the payload stays genuine.
LEMMA SameJob ==
  ASSUME IInv, Stable, NEW k \in Workers, job'[k] = job[k], pc[k] \notin {"idle", "expire"}
  PROVE  /\ job'[k].run \in Runs
         /\ job'[k].appr # NoApproval => GenuineAfter(job'[k])
         /\ pc[k] \in ResumeSteps =>
              /\ job'[k].appr # NoApproval
              /\ approval'[job[k].appr].stage = approval[job[k].appr].stage
         /\ pc[k] \in AfterCheck => job'[k].appr \in approved'
<1>1. WorkerOK(k)
  BY DEF IInv
<1>2. job[k].run \in Runs
  BY RunOfJob
<1>3. job[k].appr # NoApproval => Genuine(job[k])
  BY <1>1 DEF WorkerOK
<1>4. pc[k] \in ResumeSteps => job[k].appr # NoApproval
  BY <1>1 DEF WorkerOK
<1>5. pc[k] \in AfterCheck => job[k].appr \in approved
  BY <1>1 DEF WorkerOK
<1> QED
  BY <1>2, <1>3, <1>4, <1>5, GenuineStays DEF Stable, Genuine

LEMMA WorkerAfter ==
  ASSUME NEW k \in Workers,
         job'[k].appr # NoApproval => GenuineAfter(job'[k]),
         pc'[k] \notin {"idle", "expire"} => job'[k].run \in Runs,
         pc'[k] \in ResumeSteps => job'[k].appr # NoApproval,
         pc'[k] \in {"decide", "check_decision"} /\ seen'[k] = "approved" =>
           job'[k].appr \in approved',
         pc'[k] \in AfterCheck => job'[k].appr \in approved',
         pc'[k] = "generate_plan" => approval'[job'[k].appr].stage = "impact",
         pc'[k] \in PlanSteps => approval'[job'[k].appr].stage = "plan",
         pc'[k] \in {"publish", "record_publish"} => approval'[job'[k].appr].stage = "publish",
         pc'[k] \in {"run_tests", "report"} => branch'[job'[k].run] # "none",
         pc'[k] = "report" => job'[k].run \in passed',
         pc'[k] = "finalize" => outcome'[k] # "none"
  PROVE  WorkerOK(k)'
BY DEF WorkerOK, Genuine, GenuineAfter, Exists, ExistsAfter

LEMMA WorkerStep == ASSUME IInv, Next, Stable PROVE \A j \in Workers : WorkerOK(j)'
<1> USE DEF tables, worker, history
<1>0. TypeOK /\ \A j \in Workers : WorkerOK(j)
  BY DEF IInv
<1>1. ASSUME NEW k \in Workers, NEW r \in Runs, ReceiveTask(k, r)
      PROVE  \A j \in Workers : WorkerOK(j)'
  <2>1. \A j \in Workers : j # k => Unmoved(j)
    BY <1>0, <1>1 DEF ReceiveTask, TypeOK, Unmoved, Goto
  <2>2. WorkerOK(k)'
    BY <1>0, <1>1, WorkerAfter DEF ReceiveTask, TypeOK, Goto, NoJob, StartSteps, ResumeSteps, AfterCheck, PlanSteps
  <2> QED
    BY <2>1, <2>2, OtherWorkers
<1>2. ASSUME NEW k \in Workers, Route(k)
      PROVE  \A j \in Workers : WorkerOK(j)'
  <2>1. \A j \in Workers : j # k => Unmoved(j)
    BY <1>0, <1>2 DEF Route, TypeOK, Unmoved, Goto, Return
  <2>2. job'[k] = job[k] /\ pc[k] \notin {"idle", "expire"}
    BY <1>2 DEF Route
  <2>3. WorkerOK(k)'
    BY <1>0, <1>2, <2>2, SameJob, WorkerAfter
       DEF Route, TypeOK, Goto, Return, StartSteps, ResumeSteps, AfterCheck, PlanSteps
  <2> QED
    BY <2>1, <2>3, OtherWorkers
<1>3. ASSUME NEW k \in Workers, LoadContext(k)
      PROVE  \A j \in Workers : WorkerOK(j)'
  <2>1. \A j \in Workers : j # k => Unmoved(j)
    BY <1>0, <1>3 DEF LoadContext, TypeOK, Unmoved, Goto
  <2>2. job'[k] = job[k] /\ pc[k] \notin {"idle", "expire"}
    BY <1>3 DEF LoadContext
  <2>3. WorkerOK(k)'
    BY <1>0, <1>3, <2>2, SameJob, WorkerAfter
       DEF LoadContext, TypeOK, Goto, StartSteps, ResumeSteps, AfterCheck, PlanSteps
  <2> QED
    BY <2>1, <2>3, OtherWorkers
<1>4. ASSUME NEW k \in Workers, AssessImpact(k)
      PROVE  \A j \in Workers : WorkerOK(j)'
  <2>1. \A j \in Workers : j # k => Unmoved(j)
    BY <1>0, <1>4 DEF AssessImpact, TypeOK, Unmoved, Goto, Return
  <2>2. job'[k] = job[k] /\ pc[k] \notin {"idle", "expire"}
    BY <1>4 DEF AssessImpact
  <2>3. WorkerOK(k)'
    BY <1>0, <1>4, <2>2, SameJob, WorkerAfter
       DEF AssessImpact, TypeOK, Goto, Return, StartSteps, ResumeSteps, AfterCheck, PlanSteps
  <2> QED
    BY <2>1, <2>3, OtherWorkers
<1>5. ASSUME NEW k \in Workers, GraphFails(k)
      PROVE  \A j \in Workers : WorkerOK(j)'
  <2>1. \A j \in Workers : j # k => Unmoved(j)
    BY <1>0, <1>5 DEF GraphFails, TypeOK, Unmoved, Goto
  <2>2. pc'[k] = "idle" /\ job'[k] = NoJob
    BY <1>0, <1>5 DEF GraphFails, TypeOK, Goto
  <2>3. WorkerOK(k)'
    BY <2>2, WorkerAfter DEF NoJob, StartSteps, ResumeSteps, AfterCheck, PlanSteps
  <2> QED
    BY <2>1, <2>3, OtherWorkers
<1>6. ASSUME NEW k \in Workers, Reply(k)
      PROVE  \A j \in Workers : WorkerOK(j)'
  <2>1. \A j \in Workers : j # k => Unmoved(j)
    BY <1>0, <1>6 DEF Reply, TypeOK, Unmoved, Goto
  <2>2. pc'[k] = "idle" /\ job'[k] = NoJob
    BY <1>0, <1>6 DEF Reply, TypeOK, Goto
  <2>3. WorkerOK(k)'
    BY <2>2, WorkerAfter DEF NoJob, StartSteps, ResumeSteps, AfterCheck, PlanSteps
  <2> QED
    BY <2>1, <2>3, OtherWorkers
<1>7. ASSUME NEW k \in Workers, WorkerDies(k)
      PROVE  \A j \in Workers : WorkerOK(j)'
  <2>1. \A j \in Workers : j # k => Unmoved(j)
    BY <1>0, <1>7 DEF WorkerDies, TypeOK, Unmoved, Goto
  <2>2. pc'[k] = "idle" /\ job'[k] = NoJob
    BY <1>0, <1>7 DEF WorkerDies, TypeOK, Goto
  <2>3. WorkerOK(k)'
    BY <2>2, WorkerAfter DEF NoJob, StartSteps, ResumeSteps, AfterCheck, PlanSteps
  <2> QED
    BY <2>1, <2>3, OtherWorkers
<1>8. ASSUME NEW k \in Workers, ConsumeResume(k)
      PROVE  \A j \in Workers : WorkerOK(j)'
  <2>1. \A j \in Workers : j # k => Unmoved(j)
    BY <1>0, <1>8 DEF ConsumeResume, TypeOK, Unmoved, StartResume, Goto
  <2>2. Genuine(resumeQ[1]) /\ resumeQ[1] \in Event /\ job'[k] = resumeQ[1]
    BY <1>0, <1>8 DEF ConsumeResume, StartResume, TypeOK, IInv, CarriedOK
  <2>3. GenuineAfter(job'[k]) /\ job'[k].appr # NoApproval /\ job'[k].run \in Runs
    BY <2>2, GenuineStays, CoderRunAssumption DEF Event, Genuine
  <2>4. pc'[k] = "read_approval"
    BY <1>0, <1>8 DEF ConsumeResume, StartResume, TypeOK, Goto
  <2>5. WorkerOK(k)'
    BY <2>3, <2>4, WorkerAfter DEF StartSteps, ResumeSteps, AfterCheck, PlanSteps
  <2> QED
    BY <2>1, <2>5, OtherWorkers
<1>9. ASSUME NEW k \in Workers, NEW a \in Approvals, NEW d \in Decisions, ChatDecision(k, a, d)
      PROVE  \A j \in Workers : WorkerOK(j)'
  <2>1. \A j \in Workers : j # k => Unmoved(j)
    BY <1>0, <1>9 DEF ChatDecision, TypeOK, Unmoved, StartResume, Goto
  <2>2. Exists(a) /\ job'[k] = ResumeEvent(a, d)
    BY <1>0, <1>9 DEF ChatDecision, StartResume, TypeOK, Exists
  <2>3. Genuine(job'[k]) /\ job'[k].appr # NoApproval /\ job'[k].run \in Runs
    BY <2>2, CoderRunAssumption DEF Genuine, ResumeEvent, IInv, RowsOK
  <2>4. pc'[k] = "read_approval"
    BY <1>0, <1>9 DEF ChatDecision, StartResume, TypeOK, Goto
  <2>5. WorkerOK(k)'
    BY <2>3, <2>4, GenuineStays, WorkerAfter DEF StartSteps, ResumeSteps, AfterCheck, PlanSteps
  <2> QED
    BY <2>1, <2>5, OtherWorkers
<1>10. ASSUME NEW k \in Workers, ReadApproval(k)
      PROVE  \A j \in Workers : WorkerOK(j)'
  <2>1. \A j \in Workers : j # k => Unmoved(j)
    BY <1>0, <1>10 DEF ReadApproval, TypeOK, Unmoved, Goto, Return
  <2>2. job'[k] = job[k] /\ pc[k] = "read_approval" /\ approved' = approved
    BY <1>10 DEF ReadApproval
  <2>3. job[k].appr \in Approvals
    BY <1>0, <2>2 DEF WorkerOK, Genuine, ResumeSteps
  <2>4. approval[job[k].appr].status = "approved" => job[k].appr \in approved
    BY <2>3 DEF IInv, RowsOK
  <2>5. WorkerOK(k)'
    BY <1>0, <1>10, <2>2, <2>4, SameJob, WorkerAfter DEF ReadApproval, TypeOK, Goto, Return, StartSteps, ResumeSteps, AfterCheck, PlanSteps
  <2> QED
    BY <2>1, <2>5, OtherWorkers
<1>11. ASSUME NEW k \in Workers, Decide(k)
      PROVE  \A j \in Workers : WorkerOK(j)'
  <2>1. \A j \in Workers : j # k => Unmoved(j)
    BY <1>0, <1>11 DEF Decide, TypeOK, Unmoved, Goto
  <2>2. job'[k] = job[k] /\ pc[k] \notin {"idle", "expire"}
    BY <1>11 DEF Decide
  <2>3. WorkerOK(k)'
    BY <1>0, <1>11, <2>2, SameJob, WorkerAfter
       DEF Decide, TypeOK, Goto, StartSteps, ResumeSteps, AfterCheck, PlanSteps, Stable, WorkerOK
  <2> QED
    BY <2>1, <2>3, OtherWorkers
<1>12. ASSUME NEW k \in Workers, CheckDecision(k)
      PROVE  \A j \in Workers : WorkerOK(j)'
  <2>1. \A j \in Workers : j # k => Unmoved(j)
    BY <1>0, <1>12 DEF CheckDecision, TypeOK, Unmoved, Goto, Return
  <2>2. job'[k] = job[k] /\ pc[k] = "check_decision" /\ approved' = approved
    BY <1>12 DEF CheckDecision
  <2>3. job[k].appr \in Approvals
    BY <1>0, <2>2 DEF WorkerOK, Genuine, ResumeSteps
  <2>4. StatusSeen(k) = "approved" => job[k].appr \in approved
    BY <1>0, <2>2, <2>3 DEF StatusSeen, WorkerOK, IInv, RowsOK
  <2>5. WorkerOK(k)'
    BY <1>0, <1>12, <2>2, <2>4, SameJob, WorkerAfter DEF CheckDecision, TypeOK, Goto, Return, StartSteps, ResumeSteps, AfterCheck, PlanSteps
  <2> QED
    BY <2>1, <2>5, OtherWorkers
<1>13. ASSUME NEW k \in Workers, ResumeContext(k)
      PROVE  \A j \in Workers : WorkerOK(j)'
  <2>1. \A j \in Workers : j # k => Unmoved(j)
    BY <1>0, <1>13 DEF ResumeContext, TypeOK, Unmoved, Goto, Return
  <2>2. job'[k] = job[k] /\ pc[k] = "resume_context" /\ approval' = approval
    BY <1>13 DEF ResumeContext
  <2>3. job[k].appr \in Approvals /\ approval[job[k].appr].stage \in Stages
    BY <1>0, <2>2 DEF WorkerOK, Genuine, ResumeSteps, TypeOK, Row
  <2>4. \/ pc'[k] = "finalize" /\ outcome'[k] = "failed"
        \/ pc'[k] = NextStep(approval[job[k].appr].stage)
    BY <1>0, <1>13 DEF ResumeContext, TypeOK, Goto, Return
  <2>5. WorkerOK(k)'
    BY <2>2, <2>3, <2>4, SameJob, WorkerAfter DEF NextStep, Stages, StartSteps, ResumeSteps, AfterCheck, PlanSteps
  <2> QED
    BY <2>1, <2>5, OtherWorkers
<1>14. ASSUME NEW k \in Workers, GeneratePlan(k)
      PROVE  \A j \in Workers : WorkerOK(j)'
  <2>1. \A j \in Workers : j # k => Unmoved(j)
    BY <1>0, <1>14 DEF GeneratePlan, TypeOK, Unmoved, Goto, Return
  <2>2. job'[k] = job[k] /\ pc[k] \notin {"idle", "expire"}
    BY <1>14 DEF GeneratePlan
  <2>3. WorkerOK(k)'
    BY <1>0, <1>14, <2>2, SameJob, WorkerAfter
       DEF GeneratePlan, TypeOK, Goto, Return, StartSteps, ResumeSteps, AfterCheck, PlanSteps
  <2> QED
    BY <2>1, <2>3, OtherWorkers
<1>15. ASSUME NEW k \in Workers, BeginCoding(k)
      PROVE  \A j \in Workers : WorkerOK(j)'
  <2>1. \A j \in Workers : j # k => Unmoved(j)
    BY <1>0, <1>15 DEF BeginCoding, TypeOK, Unmoved, Goto, Return
  <2>2. job'[k] = job[k] /\ pc[k] \notin {"idle", "expire"}
    BY <1>15 DEF BeginCoding
  <2>3. WorkerOK(k)'
    BY <1>0, <1>15, <2>2, SameJob, WorkerAfter
       DEF BeginCoding, TypeOK, Goto, Return, StartSteps, ResumeSteps, AfterCheck, PlanSteps, WorkerOK
  <2> QED
    BY <2>1, <2>3, OtherWorkers
<1>16. ASSUME NEW k \in Workers, SyncBaseline(k)
      PROVE  \A j \in Workers : WorkerOK(j)'
  <2>1. \A j \in Workers : j # k => Unmoved(j)
    BY <1>0, <1>16 DEF SyncBaseline, TypeOK, Unmoved, Goto, Return
  <2>2. job'[k] = job[k] /\ pc[k] \notin {"idle", "expire"}
    BY <1>16 DEF SyncBaseline
  <2>3. WorkerOK(k)'
    BY <1>0, <1>16, <2>2, SameJob, WorkerAfter, SMTT(20)
       DEF SyncBaseline, TypeOK, Goto, Return, StartSteps, ResumeSteps, AfterCheck, PlanSteps, WorkerOK
  <2> QED
    BY <2>1, <2>3, OtherWorkers
<1>17. ASSUME NEW k \in Workers, RunCoding(k)
      PROVE  \A j \in Workers : WorkerOK(j)'
  <2>1. \A j \in Workers : j # k => Unmoved(j)
    BY <1>0, <1>17 DEF RunCoding, TypeOK, Unmoved, Goto, Return
  <2>2. job'[k] = job[k] /\ pc[k] \notin {"idle", "expire"}
    BY <1>17 DEF RunCoding
  <2>3. WorkerOK(k)'
    BY <1>0, <1>17, <2>2, SameJob, WorkerAfter
       DEF RunCoding, TypeOK, Goto, Return, StartSteps, ResumeSteps, AfterCheck, PlanSteps, WorkerOK, Stable
  <2> QED
    BY <2>1, <2>3, OtherWorkers
<1>18. ASSUME NEW k \in Workers, RunTests(k)
      PROVE  \A j \in Workers : WorkerOK(j)'
  <2>1. \A j \in Workers : j # k => Unmoved(j)
    BY <1>0, <1>18 DEF RunTests, TypeOK, Unmoved, Goto, Return
  <2>2. job'[k] = job[k] /\ pc[k] \notin {"idle", "expire"}
    BY <1>18 DEF RunTests
  <2>3. WorkerOK(k)'
    BY <1>0, <1>18, <2>2, SameJob, WorkerAfter
       DEF RunTests, TypeOK, Goto, Return, StartSteps, ResumeSteps, AfterCheck, PlanSteps, WorkerOK, Stable
  <2> QED
    BY <2>1, <2>3, OtherWorkers
<1>19. ASSUME NEW k \in Workers, Report(k)
      PROVE  \A j \in Workers : WorkerOK(j)'
  <2>1. \A j \in Workers : j # k => Unmoved(j)
    BY <1>0, <1>19 DEF Report, TypeOK, Unmoved, Goto, Return
  <2>2. job'[k] = job[k] /\ pc[k] \notin {"idle", "expire"}
    BY <1>19 DEF Report
  <2>3. WorkerOK(k)'
    BY <1>0, <1>19, <2>2, SameJob, WorkerAfter
       DEF Report, TypeOK, Goto, Return, StartSteps, ResumeSteps, AfterCheck, PlanSteps, WorkerOK, Stable
  <2> QED
    BY <2>1, <2>3, OtherWorkers
<1>20. ASSUME NEW k \in Workers, Publish(k)
      PROVE  \A j \in Workers : WorkerOK(j)'
  <2>1. \A j \in Workers : j # k => Unmoved(j)
    BY <1>0, <1>20 DEF Publish, TypeOK, Unmoved, Goto, Return
  <2>2. job'[k] = job[k] /\ pc[k] \notin {"idle", "expire"}
    BY <1>20 DEF Publish
  <2>3. WorkerOK(k)'
    BY <1>0, <1>20, <2>2, SameJob, WorkerAfter, SMTT(20)
       DEF Publish, TypeOK, Goto, Return, StartSteps, ResumeSteps, AfterCheck, PlanSteps, WorkerOK, Stable
  <2> QED
    BY <2>1, <2>3, OtherWorkers
<1>21. ASSUME NEW k \in Workers, RecordPublish(k)
      PROVE  \A j \in Workers : WorkerOK(j)'
  <2>1. \A j \in Workers : j # k => Unmoved(j)
    BY <1>0, <1>21 DEF RecordPublish, TypeOK, Unmoved, Goto, Return
  <2>2. job'[k] = job[k] /\ pc[k] \notin {"idle", "expire"}
    BY <1>21 DEF RecordPublish
  <2>3. WorkerOK(k)'
    BY <1>0, <1>21, <2>2, SameJob, WorkerAfter
       DEF RecordPublish, TypeOK, Goto, Return, StartSteps, ResumeSteps, AfterCheck, PlanSteps, WorkerOK, Stable
  <2> QED
    BY <2>1, <2>3, OtherWorkers
<1>22. ASSUME NEW k \in Workers, Finalize(k)
      PROVE  \A j \in Workers : WorkerOK(j)'
  <2>1. \A j \in Workers : j # k => Unmoved(j)
    BY <1>0, <1>22 DEF Finalize, TypeOK, Unmoved, Goto
  <2>2. job'[k] = job[k] /\ pc[k] \notin {"idle", "expire"}
    BY <1>22 DEF Finalize
  <2>3. WorkerOK(k)'
    BY <1>0, <1>22, <2>2, SameJob, WorkerAfter
       DEF Finalize, TypeOK, Goto, StartSteps, ResumeSteps, AfterCheck, PlanSteps
  <2> QED
    BY <2>1, <2>3, OtherWorkers
<1>23. ASSUME NEW k \in Workers, ExpireScan(k)
      PROVE  \A j \in Workers : WorkerOK(j)'
  <2>1. \A j \in Workers : j # k => Unmoved(j)
    BY <1>0, <1>23 DEF ExpireScan, TypeOK, Unmoved, Goto
  <2>2. job'[k] = job[k] /\ pc'[k] \in {"idle", "expire"}
    BY <1>0, <1>23 DEF ExpireScan, TypeOK, Goto
  <2>3. job[k].appr # NoApproval => GenuineAfter(job[k])
    BY <1>0, GenuineStays DEF WorkerOK
  <2>4. WorkerOK(k)'
    BY <2>2, <2>3, WorkerAfter DEF StartSteps, ResumeSteps, AfterCheck, PlanSteps
  <2> QED
    BY <2>1, <2>4, OtherWorkers
<1>24. ASSUME NEW k \in Workers, ExpireCommit(k)
      PROVE  \A j \in Workers : WorkerOK(j)'
  <2>1. \A j \in Workers : j # k => Unmoved(j)
    BY <1>0, <1>24 DEF ExpireCommit, TypeOK, Unmoved, Goto
  <2>2. job'[k] = job[k] /\ pc'[k] \in {"idle", "expire"}
    BY <1>0, <1>24 DEF ExpireCommit, TypeOK, Goto
  <2>3. job[k].appr # NoApproval => GenuineAfter(job[k])
    BY <1>0, GenuineStays DEF WorkerOK
  <2>4. WorkerOK(k)'
    BY <2>2, <2>3, WorkerAfter DEF StartSteps, ResumeSteps, AfterCheck, PlanSteps
  <2> QED
    BY <2>1, <2>4, OtherWorkers
<1>25. ASSUME NEW q \in Requests, NEW a \in Approvals, NEW d \in Decisions, HubRead(q, a, d)
      PROVE  \A j \in Workers : WorkerOK(j)'
  BY <1>25, OtherWorkers DEF HubRead, Unmoved
<1>26. ASSUME NEW q \in Requests, HubCommit(q)
      PROVE  \A j \in Workers : WorkerOK(j)'
  BY <1>26, OtherWorkers DEF HubCommit, Unmoved
<1>27. ASSUME NEW q \in Requests, HubPublish(q)
      PROVE  \A j \in Workers : WorkerOK(j)'
  BY <1>27, OtherWorkers DEF HubPublish, Unmoved
<1>28. ASSUME NEW a \in Approvals, NEW d \in Decisions, SlackClick(a, d)
      PROVE  \A j \in Workers : WorkerOK(j)'
  BY <1>28, OtherWorkers DEF SlackClick, Unmoved
<1>29. ASSUME PushReindex
      PROVE  \A j \in Workers : WorkerOK(j)'
  BY <1>29, OtherWorkers DEF PushReindex, Unmoved
<1>30. ASSUME NEW k \in Workers, ExpireRow(k)
      PROVE  \A j \in Workers : WorkerOK(j)'
  BY <1>30, OtherWorkers DEF ExpireRow, Unmoved
<1> QED
  BY <1>1, <1>2, <1>3, <1>4, <1>5, <1>6, <1>7, <1>8, <1>9, <1>10, <1>11, <1>12, <1>13, <1>14, <1>15, <1>16, <1>17, <1>18, <1>19, <1>20, <1>21, <1>22, <1>23, <1>24, <1>25, <1>26, <1>27, <1>28, <1>29, <1>30 DEF Next, WorkStep

-----------------------------------------------------------------------------
(* The invariant.                                                            *)

LEMMA InitInvariant == Init => IInv
<1> SUFFICES ASSUME Init PROVE IInv
  OBVIOUS
<1> USE DEF Init
<1>1. TypeOK
  <2>1. approval \in [Approvals -> Row]
    BY DEF NoRow, Row, Stages, ApprovalStatus
  <2>2. job \in [Workers -> Job]
    BY DEF NoJob, Job, Decisions
  <2>3. request \in [Requests -> [step: {"idle", "commit", "publish"},
                                  appr: Approvals \cup {NoApproval}, decision: Decisions]]
    BY DEF NoRequest, Decisions
  <2>4. stale \in [Workers -> Sweep]
    BY DEF NothingStale, Sweep
  <2> QED
    BY <2>1, <2>2, <2>3, <2>4
       DEF TypeOK, RunStatus, Steps, ApprovalStatus, Outcomes
<1>2. \A a \in Approvals : ~Exists(a)
  BY DEF Exists, NoRow
<1>3. RowsOK
  BY <1>2 DEF RowsOK, NoRow
<1>4. CarriedOK
  BY DEF CarriedOK, NoRequest, NothingStale
<1>5. \A k \in Workers : WorkerOK(k)
  BY DEF WorkerOK, NoJob, ResumeSteps, AfterCheck, PlanSteps
<1>6. ThreeGates
  BY <1>2 DEF ThreeGates
<1> QED
  BY <1>1, <1>3, <1>4, <1>5, <1>6 DEF IInv

LEMMA StepInvariant == IInv /\ [Next]_vars => IInv'
<1> SUFFICES ASSUME IInv, [Next]_vars PROVE IInv'
  OBVIOUS
<1>1. CASE Next
  <2>1. StepKind
    BY <1>1, StepKinds
  <2>2. Stable
    BY <2>1, StepStable DEF IInv
  <2> QED
    BY <1>1, <2>1, <2>2, TypeStep, RowsStep, CarriedStep, WorkerStep, ThreeGatesStep DEF IInv
<1>2. CASE UNCHANGED vars
  <2> USE <1>2 DEF vars, tables, worker, history
  <2>1. TypeOK'
    BY DEF IInv, TypeOK
  <2>2. Quiet
    BY DEF Quiet
  <2>3. Stable
    BY <2>2, StepStable DEF IInv, StepKind
  <2>4. RowsOK' /\ ThreeGates'
    BY <2>2, RowsStep, ThreeGatesStep DEF StepKind
  <2>5. CarriedOK'
    BY DEF IInv, CarriedOK, Genuine, Exists
  <2>6. \A k \in Workers : WorkerOK(k)'
    BY <2>3, OtherWorkers DEF Unmoved
  <2> QED
    BY <2>1, <2>4, <2>5, <2>6 DEF IInv
<1> QED
  BY <1>1, <1>2

LEMMA Invariant == Spec => []IInv
BY InitInvariant, StepInvariant, PTL DEF Spec

-----------------------------------------------------------------------------

\* The rows, queue items and worker locals keep the types the code gives them
\* (db.AgentRun, db.PendingApproval, the resume payload), whatever happens.
THEOREM TypeCorrect == Spec => []TypeOK
<1>1. IInv => TypeOK
  BY DEF IInv
<1> QED
  BY <1>1, Invariant, PTL

\* The work behind a review needs a human's approval of that review, of that
\* run (coder_pipeline.resume), whatever the deployment, the faults and the
\* number of workers, requests, Slack clicks and chat messages.
THEOREM GatesHold == Spec => []ThreeGates
<1>1. IInv => ThreeGates
  BY DEF IInv
<1> QED
  BY <1>1, Invariant, PTL

-----------------------------------------------------------------------------
(* The review protocol.                                                      *)

\* A row that exists shows the same review after any step.
LEMMA ReviewsStay ==
  ASSUME IInv, Stable
  PROVE  \A a \in Approvals : Exists(a) =>
           <<approval'[a].run, approval'[a].stage>> = <<approval[a].run, approval[a].stage>>
BY DEF Stable

LEMMA AskedKept ==
  ASSUME IInv, Stable, \A a \in Approvals : Exists(a)' => Exists(a)
  PROVE  AskedReviews' = AskedReviews
BY ReviewsStay DEF AskedReviews, Stable

LEMMA GrantedKept ==
  ASSUME IInv, Stable, approved' = approved
  PROVE  GrantedReviews' = GrantedReviews
<1>1. \A a \in approved : a \in Approvals /\ Exists(a)
  BY DEF IInv, TypeOK, RowsOK
<1> QED
  BY <1>1, ReviewsStay DEF GrantedReviews

LEMMA GateStep == ASSUME IInv, StepKind PROVE [Gate!Next]_(Gate!gateVars)
<1> USE DEF Gate!Next, Gate!gateVars, Gate!Stages, Stages
<1>0. TypeOK /\ RowsOK
  BY DEF IInv
<1>1. Stable
  BY <1>0, StepStable
<1>2. ASSUME NEW r \in Runs, NEW stage, Granted(r, stage) PROVE <<r, stage>> \in GrantedReviews
  BY <1>2 DEF Granted, GrantedReviews
<1>3. CASE Quiet
  BY <1>3 DEF Quiet, AskedReviews, GrantedReviews, CodedRuns, Exists
<1>4. ASSUME NEW r \in Runs, NEW stage \in Stages, Opens(r, stage) PROVE [Gate!Next]_(Gate!gateVars)
  <2>1. AskedReviews' = AskedReviews \cup {<<r, stage>>}
    <3>1. PICK a \in Approvals :
            /\ approval[a].status = "absent"
            /\ approval' = [approval EXCEPT ![a] = [run |-> r, stage |-> stage, status |-> "pending"]]
      BY <1>4 DEF Opens
    <3>2. \A b \in Approvals : Exists(b)' <=> (Exists(b) \/ b = a)
      BY <1>0, <3>1 DEF Exists, TypeOK
    <3>3. <<approval'[a].run, approval'[a].stage>> = <<r, stage>>
      BY <1>0, <3>1 DEF TypeOK
    <3> QED
      BY <1>1, <3>1, <3>2, <3>3, ReviewsStay DEF AskedReviews
  <2>2. GrantedReviews' = GrantedReviews
    BY <1>1, <1>4, GrantedKept DEF Opens
  <2>3. Gate!MayAsk(r, stage)
    BY <1>2, <1>4 DEF Opens, MayOpen, Gate!MayAsk
  <2>4. Gate!Ask(r, stage)
    BY <1>4, <2>1, <2>2, <2>3 DEF Opens, Gate!Ask, CodedRuns
  <2> QED
    BY <2>4
<1>5. ASSUME NEW a \in Approvals, NEW d \in Decisions, Decides(a, d)
      PROVE  [Gate!Next]_(Gate!gateVars)
  <2>1. AskedReviews' = AskedReviews
    <3>1. \A b \in Approvals : Exists(b)' => Exists(b)
      BY <1>0, <1>5 DEF Decides, Decided, SetApproval, TypeOK, Exists
    <3> QED
      BY <1>1, <3>1, AskedKept
  <2>2. UNCHANGED <<CodedRuns, passed, published>>
    BY <1>5 DEF Decides, CodedRuns
  <2>3. CASE approved' = approved
    BY <1>1, <2>1, <2>2, <2>3, GrantedKept
  <2>4. CASE approved' = approved \cup {a}
    <3> DEFINE r == approval[a].run
               stage == approval[a].stage
    <3>1. r \in Runs /\ stage \in Stages /\ Exists(a)
      BY <1>0, <1>5 DEF Decides, RowsOK, TypeOK, Row
    <3>2. GrantedReviews' = GrantedReviews \cup {<<r, stage>>}
      <4>1. \A b \in approved : b \in Approvals /\ Exists(b)
        BY <1>0 DEF TypeOK, RowsOK
      <4> QED
        BY <1>1, <2>4, <3>1, <4>1, ReviewsStay DEF GrantedReviews
    <3>3. <<r, stage>> \in AskedReviews
      BY <3>1 DEF AskedReviews
    <3>4. Gate!Grant(r, stage)
      BY <2>1, <2>2, <3>2, <3>3 DEF Gate!Grant
    <3> QED
      BY <3>1, <3>4
  <2> QED
    BY <1>5, <2>3, <2>4 DEF Decides, Decided
<1>6. ASSUME NEW S \in SUBSET Approvals, Expires(S) PROVE [Gate!Next]_(Gate!gateVars)
  <2>1. \A b \in Approvals : Exists(b)' => Exists(b)
    BY <1>0, <1>6 DEF Expires, TypeOK, Exists
  <2>2. AskedReviews' = AskedReviews /\ GrantedReviews' = GrantedReviews
    BY <1>1, <1>6, <2>1, AskedKept, GrantedKept DEF Expires
  <2> QED
    BY <1>6, <2>2 DEF Expires, CodedRuns
<1>7. ASSUME NEW r \in Runs, Codes(r) \/ Tests(r) \/ Publishes(r)
      PROVE  [Gate!Next]_(Gate!gateVars)
  <2>1. AskedReviews' = AskedReviews /\ GrantedReviews' = GrantedReviews
    BY <1>7 DEF Codes, Tests, Publishes, AskedReviews, GrantedReviews, Exists
  <2>2. ASSUME Codes(r) PROVE Gate!Code(r)
    BY <1>0, <1>2, <2>1, <2>2 DEF Codes, Gate!Code, CodedRuns, TypeOK
  <2>3. ASSUME Tests(r) PROVE Gate!Test(r)
    BY <1>0, <2>1, <2>3 DEF Tests, Gate!Test, CodedRuns, TypeOK
  <2>4. ASSUME Publishes(r) PROVE Gate!Publish(r)
    BY <1>2, <2>1, <2>4 DEF Publishes, Gate!Publish, CodedRuns
  <2> QED
    BY <1>7, <2>2, <2>3, <2>4
<1> QED
  BY <1>3, <1>4, <1>5, <1>6, <1>7 DEF StepKind

\* The pipeline, with its queue, its two tables, stale reads, crashes and lost
\* events, implements the review protocol: a run asks for its reviews in order
\* and does the work behind one only once it was granted.
THEOREM PipelineImplementsGate == Spec => ImplementsGate
<1>1. Init => Gate!Init
  BY DEF Init, Gate!Init, AskedReviews, GrantedReviews, CodedRuns, Exists, NoRow
<1>2. IInv /\ [Next]_vars => [Gate!Next]_(Gate!gateVars)
  <2>1. ASSUME IInv, Next PROVE [Gate!Next]_(Gate!gateVars)
    BY <2>1, StepKinds, GateStep
  <2>2. ASSUME UNCHANGED vars PROVE UNCHANGED Gate!gateVars
    BY <2>2 DEF vars, tables, history, Gate!gateVars, AskedReviews, GrantedReviews, CodedRuns, Exists
  <2> QED
    BY <2>1, <2>2
<1> QED
  BY <1>1, <1>2, Invariant, PTL DEF Spec, ImplementsGate, Gate!Spec

=============================================================================
