------------------------------ MODULE CoderRun ------------------------------
(***************************************************************************)
(* The life of a coder run: the orchestrator worker walks a run through    *)
(* context, impact, plan, coding, tests and publish, and stops at three    *)
(* reviews that are decided elsewhere: by requests to the dashboard, by    *)
(* Slack buttons, by chat messages and by the expiry sweep.  They share    *)
(* two tables (agent_runs, pending_approvals) and one Redis list.          *)
(*                                                                         *)
(* Every action is what one process does between two points where another  *)
(* may run: a database commit, an await, a Redis call.                     *)
(***************************************************************************)
EXTENDS Naturals, Sequences, FiniteSets

CONSTANTS
  Runs,         \* run ids
  Approvals,    \* approval ids; bounds the approvals the model can create
  Workers,      \* orchestrator worker processes
  Requests,     \* concurrent approve/reject requests in the dashboard hub
  Channels,     \* where decisions come from: subset of {"hub", "slack", "chat"}
  Faults,       \* what may go wrong: subset of {"crash", "step_error", "lost_resume"}
  Executors,    \* settings.remote_executor of the deployments considered
  MaxQueue,     \* bounds the resume list
  NoRun, NoApproval

ASSUME CoderRunAssumption ==
  /\ NoRun \notin Runs
  /\ NoApproval \notin Approvals
  /\ Channels \subseteq {"hub", "slack", "chat"}
  /\ Faults \subseteq {"crash", "step_error", "lost_resume"}
  /\ Executors \subseteq {"local", "gcp"}
  /\ MaxQueue \in Nat

VARIABLES
  executor,     \* the deployment's remote_executor setting
  runStatus,    \* agent_runs.status; "new" before the row exists
  runCtx,       \* agent_runs.context_snapshot_id: "none", or the row it names is "live" or "deleted"
  approval,     \* pending_approvals rows
  resumeQ,      \* Redis list thekedar:queue:resume, oldest first
  pc, job,      \* per worker: the next step, and the resume payload it works on
  seen,         \* per worker: the approval status its session read, until it is compared
  outcome,      \* per worker: result["status"] on its way to _finalize_run
  stale,        \* per worker: what its expiry sweep read
  request,      \* per dashboard request: its step, approval and decision
  approved,     \* history: the approvals some human decision has approved
  advanced,     \* history: how often the pipeline went past each approval (2 = twice or more)
  branch,       \* history: "coded" when the run was last coded, "checked" when the
                \* verification step has passed since (on which commit: see CodingStage)
  passed,       \* history: the runs whose verification step has ever passed
  published     \* history: the runs for which a branch was made on GitHub

tables  == <<runStatus, runCtx, approval>>
worker  == <<pc, job, seen, outcome, stale>>
history == <<approved, advanced, branch, passed, published>>
vars    == <<executor, tables, resumeQ, worker, request, history>>

Stages    == {"impact", "plan", "publish"}
Decisions == {"approved", "rejected"}
RunStatus == {"new", "running", "awaiting_approval", "coding", "report_ready",
              "completed", "failed", "rejected"}
ApprovalStatus == {"absent", "pending", "approved", "rejected", "expired"}
Outcomes  == {"none", "awaiting_approval", "completed", "failed", "rejected"}

StartSteps  == {"route", "load_context", "assess_impact"}
ResumeSteps == {"read_approval", "decide", "check_decision", "resume_context",
                "generate_plan", "begin_coding", "sync_baseline", "run_coding",
                "run_tests", "report", "publish", "record_publish"}
Steps == {"idle", "expire", "finalize", "reply"} \cup StartSteps \cup ResumeSteps

Row == [run: Runs \cup {NoRun}, stage: Stages, status: ApprovalStatus]
Job == [run: Runs \cup {NoRun}, appr: Approvals \cup {NoApproval}, decision: Decisions]
Event == [run: Runs, appr: Approvals, decision: Decisions]

NoRow == [run |-> NoRun, stage |-> "impact", status |-> "absent"]
NoJob == [run |-> NoRun, appr |-> NoApproval, decision |-> "approved"]
NoRequest == [step |-> "idle", appr |-> NoApproval, decision |-> "approved"]
NothingStale == [apprs |-> {}, todo |-> {}, runs |-> {}]
Sweep == [apprs: SUBSET Approvals, todo: SUBSET Approvals, runs: SUBSET Runs]

TypeOK ==
  /\ executor \in Executors
  /\ runStatus \in [Runs -> RunStatus]
  /\ runCtx \in [Runs -> {"none", "live", "deleted"}]
  /\ approval \in [Approvals -> Row]
  /\ resumeQ \in Seq(Event)
  /\ pc \in [Workers -> Steps]
  /\ job \in [Workers -> Job]
  /\ seen \in [Workers -> ApprovalStatus]
  /\ outcome \in [Workers -> Outcomes]
  /\ stale \in [Workers -> Sweep]
  /\ request \in [Requests -> [step: {"idle", "commit", "publish"},
                               appr: Approvals \cup {NoApproval}, decision: Decisions]]
  /\ approved \subseteq Approvals
  /\ advanced \in [Approvals -> 0..2]
  /\ branch \in [Runs -> {"none", "coded", "checked"}]
  /\ passed \subseteq Runs
  /\ published \subseteq Runs

Init ==
  /\ executor \in Executors
  /\ runStatus = [r \in Runs |-> "new"]
  /\ runCtx = [r \in Runs |-> "none"]
  /\ approval = [a \in Approvals |-> NoRow]
  /\ resumeQ = <<>>
  /\ pc = [k \in Workers |-> "idle"]
  /\ job = [k \in Workers |-> NoJob]
  /\ seen = [k \in Workers |-> "absent"]
  /\ outcome = [k \in Workers |-> "none"]
  /\ stale = [k \in Workers |-> NothingStale]
  /\ request = [q \in Requests |-> NoRequest]
  /\ approved = {}
  /\ advanced = [a \in Approvals |-> 0]
  /\ branch = [r \in Runs |-> "none"]
  /\ passed = {}
  /\ published = {}

-----------------------------------------------------------------------------
(* Helpers *)

Goto(k, step) == pc' = [pc EXCEPT ![k] = step]

\* A node returns: its result is what _finalize_run will write.
Return(k, status) ==
  /\ Goto(k, "finalize")
  /\ outcome' = [outcome EXCEPT ![k] = status]

SetRun(r, status) == runStatus' = [runStatus EXCEPT ![r] = status]

SetApproval(a, status) == approval' = [approval EXCEPT ![a].status = status]

\* A human decision reaches the table.
Decided(a, d) ==
  /\ SetApproval(a, d)
  /\ approved' = IF d = "approved" THEN approved \cup {a} ELSE approved

\* create_approval and the status change of the run, one commit.
OpenGate(r, stage, status) ==
  /\ \E a \in Approvals :
       /\ approval[a].status = "absent"
       /\ approval' = [approval EXCEPT ![a] = [run |-> r, stage |-> stage, status |-> "pending"]]
  /\ SetRun(r, status)

\* RepoIndexer.index deletes the snapshot every earlier run points at.
DropSnapshots == [r \in Runs |-> IF runCtx[r] = "live" THEN "deleted" ELSE runCtx[r]]

ResumeEvent(a, d) == [run |-> approval[a].run, appr |-> a, decision |-> d]

-----------------------------------------------------------------------------
(* The worker: a task message opens a run and walks it to the first review *)

\* process_payload inserts the AgentRun row; the inbound message is consumed.
ReceiveTask(k, r) ==
  /\ pc[k] = "idle"
  /\ runStatus[r] = "new"
  /\ SetRun(r, "running")
  /\ job' = [job EXCEPT ![k] = [NoJob EXCEPT !.run = r]]
  /\ Goto(k, "route")
  /\ UNCHANGED <<executor, runCtx, approval, resumeQ, seen, outcome, stale, request, history>>

\* Unknown workspace, no issue key, or a workflow without a review: answered
\* at once, with no status in the result.
Route(k) ==
  /\ pc[k] = "route"
  /\ \/ Return(k, "completed")
     \/ Goto(k, "load_context") /\ UNCHANGED outcome
  /\ UNCHANGED <<executor, tables, resumeQ, job, seen, stale, request, history>>

\* A missing, old or stale snapshot is indexed again when the worker sees the
\* checkout (local executor); otherwise the newest snapshot is used as it is.
LoadContext(k) ==
  LET r == job[k].run IN
  /\ pc[k] = "load_context"
  /\ \/ runCtx' = [runCtx EXCEPT ![r] = "live"]
     \/ executor = "local" /\ runCtx' = [DropSnapshots EXCEPT ![r] = "live"]
  /\ Goto(k, "assess_impact")
  /\ UNCHANGED <<executor, runStatus, approval, resumeQ, job, seen, outcome, stale, request, history>>

AssessImpact(k) ==
  /\ pc[k] = "assess_impact"
  /\ OpenGate(job[k].run, "impact", "awaiting_approval")
  /\ Return(k, "awaiting_approval")
  /\ UNCHANGED <<executor, runCtx, resumeQ, job, seen, stale, request, history>>

\* Mutant: the except clause guards resumes too, the ones that published included.
GraphFailsResumes(k) ==
  /\ "step_error" \in Faults
  /\ pc[k] \in StartSteps \cup {"finalize", "reply"}
  /\ SetRun(job[k].run, "failed")
  /\ Goto(k, "idle")
  /\ job' = [job EXCEPT ![k] = NoJob]
  /\ outcome' = [outcome EXCEPT ![k] = "none"]
  /\ UNCHANGED <<executor, runCtx, approval, resumeQ, seen, stale, request, history>>

\* _execute_graph's except clause: any exception up to and including the reply
\* fails the run, whatever it had reached, and the message goes to the DLQ.
\* A context that cannot be loaded ends here too: the node does not pause, and
\* assess_impact then misses its input.
GraphFails(k) ==
  /\ job[k].appr = NoApproval
  /\ \/ /\ "step_error" \in Faults
        /\ pc[k] \in StartSteps \cup {"finalize", "reply"}
     \/ pc[k] = "load_context" /\ executor = "gcp"
  /\ SetRun(job[k].run, "failed")
  /\ Goto(k, "idle")
  /\ job' = [job EXCEPT ![k] = NoJob]
  /\ outcome' = [outcome EXCEPT ![k] = "none"]
  /\ UNCHANGED <<executor, runCtx, approval, resumeQ, seen, stale, request, history>>

-----------------------------------------------------------------------------
(* The worker: a decision resumes a run *)

StartResume(k, event) ==
  /\ pc[k] = "idle"
  /\ job' = [job EXCEPT ![k] = event]
  /\ Goto(k, "read_approval")
  /\ UNCHANGED <<executor, tables, seen, outcome, stale, request, history>>

\* Mutant: the event is read but not removed.
ConsumeResumePeeks(k) ==
  /\ resumeQ # <<>>
  /\ StartResume(k, Head(resumeQ))
  /\ UNCHANGED resumeQ

\* BRPOP removes the event before anything is done with it.
ConsumeResume(k) ==
  /\ resumeQ # <<>>
  /\ StartResume(k, Head(resumeQ))
  /\ resumeQ' = Tail(resumeQ)

\* "approve <id>" or "reject <id>" in a chat message.
ChatDecision(k, a, d) ==
  /\ "chat" \in Channels
  /\ approval[a].status = "pending"
  /\ StartResume(k, ResumeEvent(a, d))
  /\ UNCHANGED resumeQ

\* Mutant: an approval that is decided already counts as handled.
ReadApprovalOnlyPending(k) ==
  LET status == approval[job[k].appr].status IN
  /\ pc[k] = "read_approval"
  /\ seen' = [seen EXCEPT ![k] = status]
  /\ \/ status # "pending" /\ Return(k, "completed")
     \/ status = "pending" /\ Goto(k, "decide") /\ UNCHANGED outcome
  /\ UNCHANGED <<executor, tables, resumeQ, job, stale, request, history>>

\* Mutant: the early return of a rejected approval carries no status.
ReadApprovalNoStatus(k) ==
  LET status == approval[job[k].appr].status IN
  /\ pc[k] = "read_approval"
  /\ seen' = [seen EXCEPT ![k] = status]
  /\ Goto(k, IF status = "rejected" THEN "finalize" ELSE "decide")
  /\ UNCHANGED <<executor, tables, resumeQ, job, outcome, stale, request, history>>

\* CoderPipeline.resume loads run and approval into its session.
ReadApproval(k) ==
  LET status == approval[job[k].appr].status IN
  /\ pc[k] = "read_approval"
  /\ \/ status = "rejected" /\ Return(k, "rejected") /\ UNCHANGED seen
     \/ /\ status # "rejected"
        /\ Goto(k, "decide")
        /\ seen' = [seen EXCEPT ![k] = status]
        /\ UNCHANGED outcome
  /\ UNCHANGED <<executor, tables, resumeQ, job, stale, request, history>>

\* A pending approval (chat) is decided here; the write is blind.
Decide(k) ==
  /\ pc[k] = "decide"
  /\ \/ seen[k] = "pending" /\ Decided(job[k].appr, job[k].decision)
     \/ seen[k] # "pending" /\ UNCHANGED <<approval, approved>>
  /\ Goto(k, "check_decision")
  /\ UNCHANGED <<executor, runStatus, runCtx, resumeQ, job, seen, outcome, stale, request,
                 advanced, branch, passed, published>>

\* After its own commit the session reads the row again, otherwise it uses
\* what it read first.
StatusSeen(k) == IF seen[k] = "pending" THEN approval[job[k].appr].status ELSE seen[k]

\* Mutant: only the event's decision is looked at, not the approval's status.
CheckDecisionOfEvent(k) ==
  LET go == job[k].decision = "approved" IN
  /\ pc[k] = "check_decision"
  /\ \/ go /\ Goto(k, "resume_context") /\ UNCHANGED <<runStatus, outcome>>
     \/ ~go /\ SetRun(job[k].run, "rejected") /\ Return(k, "rejected")
  /\ seen' = [seen EXCEPT ![k] = "absent"]
  /\ UNCHANGED <<executor, runCtx, approval, resumeQ, job, stale, request, history>>

CheckDecision(k) ==
  LET go == StatusSeen(k) = "approved" /\ job[k].decision = "approved" IN
  /\ pc[k] = "check_decision"
  /\ \/ go /\ Goto(k, "resume_context") /\ UNCHANGED <<runStatus, outcome>>
     \/ ~go /\ SetRun(job[k].run, "rejected") /\ Return(k, "rejected")
  /\ seen' = [seen EXCEPT ![k] = "absent"]
  /\ UNCHANGED <<executor, runCtx, approval, resumeQ, job, stale, request, history>>

\* Mutant: the plan review is skipped.
NextStepSkipsPlan(stage) ==
  CASE stage = "impact" -> "begin_coding"
    [] stage = "plan" -> "begin_coding"
    [] stage = "publish" -> "publish"

NextStep(stage) ==
  CASE stage = "impact" -> "generate_plan"
    [] stage = "plan" -> "begin_coding"
    [] stage = "publish" -> "publish"

\* The run goes on from the reviewed stage if its snapshot is still there.  A
\* plan may also be stopped by the freshness check against the workstation.
ResumeContext(k) ==
  LET a == job[k].appr
      stage == approval[a].stage
  IN
  /\ pc[k] = "resume_context"
  /\ \/ /\ runCtx[job[k].run] # "deleted"
        /\ Goto(k, NextStep(stage))
        /\ advanced' = [advanced EXCEPT ![a] = IF @ = 2 THEN 2 ELSE @ + 1]
        /\ UNCHANGED outcome
     \/ /\ runCtx[job[k].run] = "deleted" \/ stage = "plan"
        /\ Return(k, "failed")
        /\ UNCHANGED advanced
  /\ UNCHANGED <<executor, tables, resumeQ, job, seen, stale, request,
                 approved, branch, passed, published>>

GeneratePlan(k) ==
  /\ pc[k] = "generate_plan"
  /\ OpenGate(job[k].run, "plan", "awaiting_approval")
  /\ Return(k, "awaiting_approval")
  /\ UNCHANGED <<executor, runCtx, resumeQ, job, seen, stale, request, history>>

BeginCoding(k) ==
  /\ pc[k] = "begin_coding"
  /\ SetRun(job[k].run, "coding")
  /\ Goto(k, "sync_baseline")
  /\ UNCHANGED <<executor, runCtx, approval, resumeQ, job, seen, outcome, stale, request, history>>

\* ensure_ready and sync_repo_and_test: with a local checkout a sync that
\* succeeds also indexes the repository again.  Red baseline tests stop the
\* run, and so does an executor that is not available.
SyncBaseline(k) ==
  /\ pc[k] = "sync_baseline"
  /\ \/ executor = "local" /\ runCtx' = DropSnapshots
     \/ UNCHANGED runCtx
  /\ \/ Return(k, "failed")
     \/ Goto(k, "run_coding") /\ UNCHANGED outcome
  /\ UNCHANGED <<executor, runStatus, approval, resumeQ, job, seen, stale, request, history>>

\* The coding agent works on the branch; outcome "failed" remembers that it
\* reported an error or produced no commit.
RunCoding(k) ==
  /\ pc[k] = "run_coding"
  /\ branch' = [branch EXCEPT ![job[k].run] = "coded"]
  /\ \E result \in {"none", "failed"} : outcome' = [outcome EXCEPT ![k] = result]
  /\ Goto(k, "run_tests")
  /\ UNCHANGED <<executor, tables, resumeQ, job, seen, stale, request,
                 approved, advanced, passed, published>>

\* The verification step and its outcome.  It stands for no commit: with the
\* cloud executor the tests run on main (CodingStage, TestsSeeTheChange).
RunTests(k) ==
  LET r == job[k].run IN
  /\ pc[k] = "run_tests"
  /\ \/ /\ outcome[k] = "none"
        /\ Goto(k, "report")
        /\ branch' = [branch EXCEPT ![r] = "checked"]
        /\ passed' = passed \cup {r}
        /\ UNCHANGED outcome
     \/ Return(k, "failed") /\ UNCHANGED <<branch, passed>>
  /\ UNCHANGED <<executor, tables, resumeQ, job, seen, stale, request,
                 approved, advanced, published>>

Report(k) ==
  /\ pc[k] = "report"
  /\ OpenGate(job[k].run, "publish", "report_ready")
  /\ Return(k, "awaiting_approval")
  /\ UNCHANGED <<executor, runCtx, resumeQ, job, seen, stale, request, history>>

\* Policy first, then the branch on GitHub, which the API makes from the head
\* of main: the commits of the workspace do not go out with it.
Publish(k) ==
  LET r == job[k].run IN
  /\ pc[k] = "publish"
  /\ \/ /\ SetRun(r, "failed")
        /\ Return(k, "failed")
        /\ UNCHANGED published
     \/ /\ Goto(k, "record_publish")
        /\ published' = published \cup {r}
        /\ UNCHANGED <<runStatus, outcome>>
  /\ UNCHANGED <<executor, runCtx, approval, resumeQ, job, seen, stale, request,
                 approved, advanced, branch, passed>>

\* The pull request, unless the reviewer asked for a push only, and the commit
\* that records it.
RecordPublish(k) ==
  /\ pc[k] = "record_publish"
  /\ SetRun(job[k].run, "completed")
  /\ Return(k, "completed")
  /\ UNCHANGED <<executor, runCtx, approval, resumeQ, job, seen, stale, request, history>>

\* _finalize_run writes the result's status over whatever the row holds now.
Finalize(k) ==
  /\ pc[k] = "finalize"
  /\ SetRun(job[k].run, outcome[k])
  /\ Goto(k, "reply")
  /\ UNCHANGED <<executor, runCtx, approval, resumeQ, job, seen, outcome, stale, request, history>>

\* The reply is queued in the outbox; the worker takes its next payload.
Reply(k) ==
  /\ pc[k] = "reply"
  /\ Goto(k, "idle")
  /\ job' = [job EXCEPT ![k] = NoJob]
  /\ outcome' = [outcome EXCEPT ![k] = "none"]
  /\ UNCHANGED <<executor, tables, resumeQ, seen, stale, request, history>>

\* The process dies, or an exception leaves a resume: main.py does not guard
\* that call.  The payload it worked on is gone either way.  A sweep whose
\* checkpoint delete fails gives up what it was about to write.
WorkerDies(k) ==
  /\ pc[k] # "idle"
  /\ \/ "crash" \in Faults
     \/ "step_error" \in Faults /\ (job[k].appr # NoApproval \/ pc[k] = "expire")
  /\ Goto(k, "idle")
  /\ job' = [job EXCEPT ![k] = NoJob]
  /\ outcome' = [outcome EXCEPT ![k] = "none"]
  /\ seen' = [seen EXCEPT ![k] = "absent"]
  /\ stale' = [stale EXCEPT ![k] = NothingStale]
  /\ UNCHANGED <<executor, tables, resumeQ, request, history>>

-----------------------------------------------------------------------------
(* The worker: the expiry sweep between two payloads *)

Pending == {a \in Approvals : approval[a].status = "pending"}
AwaitingRuns == {r \in Runs : runStatus[r] = "awaiting_approval"}

\* The pending approvals older than the TTL, in one query: any set of them.
ExpireScan(k) ==
  /\ pc[k] = "idle"
  /\ \E S \in (SUBSET Pending) \ {{}} :
       stale' = [stale EXCEPT ![k] = [apprs |-> S, todo |-> S, runs |-> {}]]
  /\ Goto(k, "expire")
  /\ UNCHANGED <<executor, tables, resumeQ, job, seen, outcome, request, history>>

RowDone(sweep, a) ==
  [sweep EXCEPT !.todo = @ \ {a}, !.runs = @ \cup ({approval[a].run} \cap AwaitingRuns)]

\* Row by row, with an await for the checkpoint after each: the run is read
\* when its approval's turn comes.
ExpireRow(k) ==
  /\ pc[k] = "expire"
  /\ \E a \in stale[k].todo :
       stale' = [stale EXCEPT ![k] = RowDone(@, a)]
  /\ UNCHANGED <<executor, tables, resumeQ, pc, job, seen, outcome, request, history>>

\* One commit at the end writes all of it, whatever happened since.
ExpireCommit(k) ==
  /\ pc[k] = "expire"
  /\ stale[k].todo = {}
  /\ approval' = [a \in Approvals |->
                    IF a \in stale[k].apprs THEN [approval[a] EXCEPT !.status = "expired"]
                                            ELSE approval[a]]
  /\ runStatus' = [r \in Runs |-> IF r \in stale[k].runs THEN "failed" ELSE runStatus[r]]
  /\ stale' = [stale EXCEPT ![k] = NothingStale]
  /\ Goto(k, "idle")
  /\ UNCHANGED <<executor, runCtx, resumeQ, job, seen, outcome, request, history>>

-----------------------------------------------------------------------------
(* The deciders *)

\* Only the three reviews are rows here; create_approval makes no other kind, so
\* the endpoint's branch for other kinds is never taken.
RunAfter(decision) == IF decision = "approved" THEN "running" ELSE "rejected"

\* Mutant: no 409 for an approval that is decided already.
HubReadAny(q, a, d) ==
  /\ "hub" \in Channels
  /\ request[q].step = "idle"
  /\ approval[a].status # "absent"
  /\ request' = [request EXCEPT ![q] = [step |-> "commit", appr |-> a, decision |-> d]]
  /\ UNCHANGED <<executor, tables, resumeQ, worker, history>>

\* The dashboard endpoint reads the row and answers 409 unless it is pending.
HubRead(q, a, d) ==
  /\ "hub" \in Channels
  /\ request[q].step = "idle"
  /\ approval[a].status = "pending"
  /\ request' = [request EXCEPT ![q] = [step |-> "commit", appr |-> a, decision |-> d]]
  /\ UNCHANGED <<executor, tables, resumeQ, worker, history>>

HubCommit(q) ==
  LET a == request[q].appr
      d == request[q].decision
  IN
  /\ request[q].step = "commit"
  /\ Decided(a, d)
  /\ SetRun(approval[a].run, RunAfter(d))
  /\ request' = [request EXCEPT ![q].step = "publish"]
  /\ UNCHANGED <<executor, runCtx, resumeQ, worker, advanced, branch, passed, published>>

\* Mutant: the endpoint returns without the event.
HubPublishNothing(q) ==
  /\ request[q].step = "publish"
  /\ request' = [request EXCEPT ![q] = NoRequest]
  /\ UNCHANGED <<executor, tables, resumeQ, worker, history>>

\* Mutant: the push is tried again although the first one arrived.
HubPublishTwice(q) ==
  LET event == ResumeEvent(request[q].appr, request[q].decision) IN
  /\ request[q].step = "publish"
  /\ Len(resumeQ) + 1 < MaxQueue
  /\ resumeQ' = resumeQ \o <<event, event>>
  /\ request' = [request EXCEPT ![q] = NoRequest]
  /\ UNCHANGED <<executor, tables, worker, history>>

\* The event is pushed after the commit; a failure to push is logged only.
HubPublish(q) ==
  /\ request[q].step = "publish"
  /\ \/ /\ Len(resumeQ) < MaxQueue
        /\ resumeQ' = Append(resumeQ, ResumeEvent(request[q].appr, request[q].decision))
     \/ "lost_resume" \in Faults /\ UNCHANGED resumeQ
  /\ request' = [request EXCEPT ![q] = NoRequest]
  /\ UNCHANGED <<executor, tables, worker, history>>

\* The Slack endpoint decides whatever the status is.  It is a coroutine, so
\* the asyncio.run inside publish_run_resume_sync raises and no event follows.
SlackClick(a, d) ==
  /\ "slack" \in Channels
  /\ approval[a].status # "absent"
  /\ Decided(a, d)
  /\ SetRun(approval[a].run, RunAfter(d))
  /\ UNCHANGED <<executor, runCtx, resumeQ, worker, request, advanced, branch, passed, published>>

\* A push to the repository makes the ingress index the local checkout again.
PushReindex ==
  /\ executor = "local"
  /\ runCtx' = DropSnapshots
  /\ UNCHANGED <<executor, runStatus, approval, resumeQ, worker, request, history>>

-----------------------------------------------------------------------------

\* What a worker that keeps running does with the payload it has.
WorkStep(k) ==
  \/ Route(k) \/ LoadContext(k) \/ AssessImpact(k)
  \/ ConsumeResume(k) \/ ReadApproval(k) \/ Decide(k) \/ CheckDecision(k) \/ ResumeContext(k)
  \/ GeneratePlan(k) \/ BeginCoding(k) \/ SyncBaseline(k) \/ RunCoding(k) \/ RunTests(k)
  \/ Report(k) \/ Publish(k) \/ RecordPublish(k)
  \/ Finalize(k) \/ Reply(k) \/ ExpireRow(k) \/ ExpireCommit(k)

Next ==
  \/ \E k \in Workers :
       \/ WorkStep(k)
       \/ \E r \in Runs : ReceiveTask(k, r)
       \/ \E a \in Approvals, d \in Decisions : ChatDecision(k, a, d)
       \/ GraphFails(k) \/ WorkerDies(k) \/ ExpireScan(k)
  \/ \E q \in Requests :
       \/ \E a \in Approvals, d \in Decisions : HubRead(q, a, d)
       \/ HubCommit(q) \/ HubPublish(q)
  \/ \E a \in Approvals, d \in Decisions : SlackClick(a, d)
  \/ PushReindex

Spec == Init /\ [][Next]_vars

\* A worker keeps working and a dashboard request that has been accepted is
\* carried through.  Nobody is obliged to send tasks or to decide.
Fairness ==
  /\ \A k \in Workers : WF_vars(WorkStep(k))
  /\ \A q \in Requests : WF_vars(HubCommit(q) \/ HubPublish(q))

FairSpec == Spec /\ Fairness

-----------------------------------------------------------------------------
(* Properties, whatever the channels, the faults and the number of workers *)

Exists(a) == approval[a].status # "absent"

Granted(r, stage) == \E a \in approved : approval[a].run = r /\ approval[a].stage = stage

\* The work behind a review needs a human's approval of that review at some
\* time, of that very run: a plan is asked for behind an approved impact, a
\* branch is worked on behind an approved plan, publication is asked for
\* behind passed tests and done behind an approved report.  The decision
\* travels over Redis, two tables and a session's stale copy on its way
\* (coder_pipeline.resume).
ThreeGates ==
  /\ \A a \in Approvals : Exists(a) =>
       /\ approval[a].stage = "plan" => Granted(approval[a].run, "impact")
       /\ approval[a].stage = "publish" => /\ Granted(approval[a].run, "plan")
                                           /\ approval[a].run \in passed
  /\ \A r \in Runs :
       /\ branch[r] # "none" => Granted(r, "plan")
       /\ r \in passed => branch[r] # "none"
       /\ r \in published => Granted(r, "publish")

\* Every step of the pipeline is a step of the review protocol, or none.
AskedReviews == {<<approval[a].run, approval[a].stage>> : a \in {b \in Approvals : Exists(b)}}
GrantedReviews == {<<approval[a].run, approval[a].stage>> : a \in approved}
CodedRuns == {r \in Runs : branch[r] # "none"}

Gate == INSTANCE ReviewGate WITH
  asked <- AskedReviews, granted <- GrantedReviews, coded <- CodedRuns, tested <- passed,
  published <- published

\* The pipeline implements the review protocol: reviews are asked for, granted
\* and used in the order of CODING_PIPELINE.md, one at a time.
ImplementsGate == Gate!Spec

-----------------------------------------------------------------------------
(* Properties of one worker and one reviewer at a time, whatever the faults.  *)
(* Nothing in the code refuses a second use of an approval: they rest on each *)
(* event being produced and consumed at most once.                            *)

\* An approval takes its run past its stage at most once: a plan that was
\* approved once is not coded twice.
AdvancedOnce == \A a \in Approvals : advanced[a] <= 1

\* A run waits for one review at a time, so a decision is about the newest work.
OneOpenGate == \A a, b \in Pending : approval[a].run = approval[b].run => a = b

\* A report is about the latest coding of its run, open or decided: nothing is
\* coded between the verification it shows the reviewer and the end of the run,
\* although a plan's approval could be acted on again at any time.
ReportIsCurrent ==
  \A a \in Approvals :
    Exists(a) /\ approval[a].stage = "publish" => branch[approval[a].run] = "checked"

\* A stage is not passed on an approval that was refused or has expired, even
\* when the sweep and the reviewer decide at the same time.
RefusedNotAdvanced ==
  \A a \in Approvals : approval[a].status \in {"rejected", "expired"} => advanced[a] = 0

\* No late reply, sweep or decision takes a published run back from completed.
PublishedStaysCompleted ==
  [][\A r \in published : runStatus[r] = "completed" => runStatus'[r] = "completed"]_vars

-----------------------------------------------------------------------------
(* Liveness, without faults *)

\* The run is over, or waits for a reviewer who can still decide.
Settled(r) ==
  \/ runStatus[r] \in {"completed", "failed", "rejected"}
  \/ runStatus[r] = "awaiting_approval" /\ \E a \in Pending : approval[a].run = r

\* A run that was started settles again and again: none stays "running",
\* "coding" or "report_ready", or waits for a review nobody can give.
RunsSettle == \A r \in Runs : (runStatus[r] # "new") ~> Settled(r)

\* An approval that stands takes its run past its stage or fails the run.
ApprovedGateActedOn ==
  \A a \in Approvals :
    a \in approved ~> \/ advanced[a] > 0
                     \/ approval[a].status # "approved"
                     \/ runStatus[approval[a].run] = "failed"

\* An approved report is published or blocked by policy: nothing checked before
\* that can fail the run, so the approval takes it past the stage.
ApprovedPublishActedOn ==
  \A a \in Approvals :
    (a \in approved /\ approval[a].stage = "publish")
      ~> (advanced[a] > 0 \/ approval[a].status # "approved")

=============================================================================
