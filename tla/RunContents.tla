---------------------------- MODULE RunContents ----------------------------
(***************************************************************************)
(* What a coder run carries from stage to stage: the context snapshot it   *)
(* was assessed with, the plan and its amendment, the artifacts and review *)
(* payloads the next stage starts from, the step ledger and the costs.     *)
(* CoderRun says when a run may go on; this module says with what.         *)
(*                                                                         *)
(* Decisions come as chat messages, which the worker takes itself.  An     *)
(* action ends at a database commit or an await, where others may run.     *)
(***************************************************************************)
EXTENDS Naturals, Sequences, FiniteSets

CONSTANTS
  Runs, NoRun,  \* run ids of one tenant and one repository
  Workers,      \* orchestrator worker processes
  Deployments,  \* the deployments considered
  Chain,        \* settings.llm_primary followed by llm_fallback
  Budget,       \* workspaces.budget_monthly_usd, in cents
  MaxPushes,    \* bounds the commits pushed to main
  MaxIndex,     \* bounds how often the repository is indexed
  MaxGates      \* bounds the reviews of one stage of a run

Stages == {"impact", "plan", "publish"}

ASSUME RunContentsAssumption ==
  /\ NoRun \notin Runs
  /\ IsFiniteSet(Workers)
  /\ Deployments \subseteq [staged: BOOLEAN, local: BOOLEAN, outside: BOOLEAN, fails: BOOLEAN,
                            workers: (SUBSET Workers) \ {{}}, runs: SUBSET Runs, decisions: Nat]
  /\ Chain \in Seq({"gemini", "openai", "anthropic"})
  /\ {Budget, MaxPushes, MaxGates} \subseteq Nat
  /\ MaxIndex \in Nat \ {0}

VARIABLES
  deploy,       \* staged: environment is staging or prod; local: the worker sees the checkout
                \* (remote_executor local); outside: other processes index it too; fails:
                \* steps fail and workers die; decisions: bounds the messages that decide
  origin,       \* commits on main at the origin
  head,         \* the commit checked out in the workspace
  index,        \* commits that were indexed; the id of a context_snapshots row is its place here
  live,         \* the context_snapshots rows that are there
  runCtx,       \* agent_runs.context_snapshot_id, 0 for none
  gate,         \* pending_approvals, by run and stage, in the order of their creation
  plans,        \* run_artifacts of type "plan", oldest first
  ledger,       \* run_steps: the status of each attempt
  spent,        \* sum of the tenant's cost_records, in cents
  pc, job,      \* per worker: the next step, and the state dict it carries
  coded,        \* history: what was handed to a coding agent
  published,    \* history: the plan a pull request names and the one its report is about
  calls,        \* history: what became of the model call of a run, which the provider bills
                \* when it answers: "charged" to the tenant, "late" if that was overspent before
  decisions     \* history: messages that decided so far

repository == <<origin, head, index, live>>
tables     == <<runCtx, gate, plans, ledger, spent>>
history    == <<coded, published, calls, decisions>>
vars == <<deploy, repository, tables, pc, job, history>>

Steps  == {"load_context", "assess_impact", "generate_plan", "execute_coding",
           "run_tests_and_report", "publish"}
Places == {"idle", "begin", "read_context", "check_context", "ask_llm", "save_impact",
           "plan", "resume", "resume_gate", "read_latest", "coding_gate", "baseline",
           "code", "tests", "report", "publish", "complete"}

Branch  == MaxPushes + 1    \* HEAD of a run's own branch, ahead of main
Unknown == MaxPushes + 2    \* get_git_sha returned None
Shas    == 0..Unknown

Plan   == [snap: 0..MaxIndex, amended: BOOLEAN]
NoPlan == [snap |-> 0, amended |-> FALSE]
Gate   == [status: {"pending", "approved", "rejected"}, payload: Plan]
Said   == {"nothing", "amend", "override"}

Job == [run: Runs \cup {NoRun}, step: Steps, row: Nat, stage: Stages, copy: 0..MaxGates,
        approve: BOOLEAN, said: Said, ctx: 0..MaxIndex, latest: 0..MaxIndex,
        plan: Plan, saw: Shas, blind: BOOLEAN, healed: BOOLEAN, charged: BOOLEAN]
NoJob == [run |-> NoRun, step |-> "load_context", row |-> 0, stage |-> "impact", copy |-> 0,
          approve |-> FALSE, said |-> "nothing", ctx |-> 0, latest |-> 0,
          plan |-> NoPlan, saw |-> Unknown, blind |-> FALSE, healed |-> FALSE,
          charged |-> FALSE]

TypeOK ==
  /\ deploy \in Deployments
  /\ origin \in 0..MaxPushes
  /\ head \in 0..Branch
  /\ index \in Seq(0..Branch) /\ Len(index) <= MaxIndex
  /\ live \subseteq DOMAIN index
  /\ runCtx \in [Runs -> 0..MaxIndex]
  /\ gate \in [Runs -> [Stages -> Seq(Gate)]]
  /\ \A r \in Runs, s \in Stages : Len(gate[r][s]) <= MaxGates
  /\ plans \in [Runs -> Seq(Plan)]
  /\ ledger \in [Runs -> [Steps -> Seq({"running", "completed", "failed"})]]
  /\ spent \in Nat
  /\ pc \in [Workers -> Places]
  /\ job \in [Workers -> Job]
  /\ coded \subseteq [run: Runs, plan: Plan, ctx: 1..MaxIndex, saw: Shas,
                      healed: BOOLEAN, excused: BOOLEAN]
  /\ published \subseteq [run: Runs, plan: Plan, report: Plan]
  /\ calls \in [Runs -> {"none", "billed", "charged", "late"}]
  /\ decisions \in 0..deploy.decisions

Init ==
  /\ deploy \in Deployments
  /\ origin = 0 /\ head = 0
  /\ index \in {<<>>, <<0>>} /\ live = DOMAIN index
  /\ runCtx = [r \in Runs |-> 0]
  /\ gate = [r \in Runs |-> [s \in Stages |-> <<>>]]
  /\ plans = [r \in Runs |-> <<>>]
  /\ ledger = [r \in Runs |-> [s \in Steps |-> <<>>]]
  /\ spent = 0
  /\ pc = [k \in Workers |-> "idle"]
  /\ job = [k \in Workers |-> NoJob]
  /\ coded = {} /\ published = {} /\ calls = [r \in Runs |-> "none"] /\ decisions = 0

-----------------------------------------------------------------------------
(* Helpers *)

At(k, place) == k \in deploy.workers /\ pc[k] = place

Goto(k, place, now) ==
  /\ pc' = [pc EXCEPT ![k] = place]
  /\ job' = [job EXCEPT ![k] = now]

End(k) == Goto(k, "idle", NoJob)

Enter(k, step, now) == Goto(k, "begin", [now EXCEPT !.step = step])

\* latest_snapshot takes the newest row.
Latest == Len(index)

\* There is one worker process.
Alone == Cardinality(deploy.workers) = 1

\* get_git_sha asks the workstation, which may be asleep or out of reach.
HeadSeen == IF deploy.local THEN {head} ELSE {head, Unknown}

Stale(snap, sha) == snap # 0 /\ sha # Unknown /\ index[snap] # sha

\* RepoIndexer.index deletes the rows and adds its own in one transaction,
\* which does not see the rows another indexer commits meanwhile.
Replace ==
  \E seen \in IF Alone /\ ~deploy.outside THEN {Latest} ELSE 0..Latest :
    live' = {i \in live : i > seen} \cup {Latest + 1}

\* Mutant: the commit is not recorded.
IndexUnknown(sha) == Len(index) < MaxIndex /\ index' = Append(index, Unknown) /\ Replace

Index(sha) == Len(index) < MaxIndex /\ index' = Append(index, sha) /\ Replace

KeepIndex == UNCHANGED <<index, live>>

\* sync_repo_and_test: main is checked out and pulled, and what is then
\* checked out is indexed when the worker sees it.  A sync that fails is not an
\* error, nor is a failing git command of the local one.
SyncRepo ==
  /\ head' \in {origin, head}
  /\ IF deploy.local THEN Index(head') ELSE KeepIndex

SetStep(k, status) ==
  ledger' = [ledger EXCEPT ![job[k].run][job[k].step][job[k].row] = status]

\* create_approval
OpenGate(r, stage, payload) ==
  /\ Len(gate[r][stage]) < MaxGates
  /\ gate' = [gate EXCEPT ![r][stage] = Append(@, [status |-> "pending", payload |-> payload])]

\* parse_approval_command: a message that begins with neither "approve" nor
\* "reject" is no decision, an amendment or a bare "override" included (the
\* words of a publication, "create pr", approve as "approve" does).
Parse(text) ==
  CASE text = "approve"           -> [approve |-> TRUE, said |-> "nothing"]
    [] text = "approve, also ..." -> [approve |-> TRUE, said |-> "amend"]
    [] text = "approve, override" -> [approve |-> TRUE, said |-> "override"]
    [] text = "reject"            -> [approve |-> FALSE, said |-> "nothing"]

\* What is worth saying: the words are dropped at the other reviews.
Texts(stage) == {"approve", "reject"}
  \cup (IF stage = "impact" THEN {"approve, also ..."} ELSE {})
  \cup (IF stage = "plan" THEN {"approve, override"} ELSE {})

-----------------------------------------------------------------------------
(* The step ledger *)

\* begin_step: a completed step is taken up again under its old row.
BeginStep(k) ==
  LET now == job[k]
      rows == ledger[now.run][now.step]
      again == rows # <<>> /\ rows[Len(rows)] = "completed"
      place == CASE now.step = "load_context" -> "read_context"
                 [] now.step = "assess_impact" -> "ask_llm"
                 [] now.step = "generate_plan" -> "plan"
                 [] now.step = "execute_coding" -> "read_latest"
                 [] now.step = "run_tests_and_report" -> "tests"
                 [] now.step = "publish" -> "publish"
  IN
  /\ At(k, "begin")
  /\ ledger' = IF again THEN ledger ELSE [ledger EXCEPT ![now.run][now.step] = Append(@, "running")]
  /\ Goto(k, place, [now EXCEPT !.row = IF again THEN Len(rows) ELSE Len(rows) + 1])
  /\ UNCHANGED <<deploy, repository, runCtx, gate, plans, spent, history>>

\* complete_step, a commit after the one of the step's result.
CompleteStep(k) ==
  LET now == job[k] IN
  /\ At(k, "complete")
  /\ SetStep(k, "completed")
  /\ CASE now.step = "load_context" -> Enter(k, "assess_impact", now)
       [] now.step = "execute_coding" ->
            Enter(k, "run_tests_and_report", [NoJob EXCEPT !.run = now.run, !.plan = now.plan])
       [] OTHER -> End(k)
  /\ UNCHANGED <<deploy, repository, runCtx, gate, plans, spent, history>>

\* Where an exception reaches the except clause of the node.
Working == {"read_context", "check_context", "save_impact", "plan", "baseline", "code",
            "tests", "report", "publish"}

\* Mutant: complete_step moved to the finally clause.
StepFailsCompleted(k) ==
  /\ deploy.fails
  /\ \E place \in Working : At(k, place)
  /\ SetStep(k, "completed")
  /\ End(k)
  /\ UNCHANGED <<deploy, repository, runCtx, gate, plans, spent, history>>

\* A node ends early or raises: fail_step.  A run that was being started is
\* marked failed and the worker goes on; a resumed one ends the process, which
\* is started again.
StepFails(k) ==
  /\ deploy.fails
  /\ \E place \in Working : At(k, place)
  /\ SetStep(k, "failed")
  /\ End(k)
  /\ UNCHANGED <<deploy, repository, runCtx, gate, plans, spent, history>>

WorkerDies(k) ==
  /\ deploy.fails
  /\ k \in deploy.workers /\ pc[k] # "idle"
  /\ End(k)
  /\ UNCHANGED <<deploy, repository, tables, history>>

-----------------------------------------------------------------------------
(* From the request to the impact review *)

Receive(k, r) ==
  /\ At(k, "idle")
  /\ r \in deploy.runs
  /\ ledger[r]["load_context"] = <<>>
  /\ \A w \in Workers : job[w].run # r
  /\ Enter(k, "load_context", [NoJob EXCEPT !.run = r])
  /\ UNCHANGED <<deploy, repository, tables, history>>

\* The newest snapshot, indexed again when there is none or it is too old.
ReadContext(k) ==
  /\ At(k, "read_context")
  /\ \/ Latest # 0 /\ UNCHANGED head /\ KeepIndex
     \/ deploy.local /\ Index(head) /\ UNCHANGED head
     \/ ~deploy.local /\ SyncRepo
  /\ index' # <<>>
  /\ Goto(k, "check_context", [job[k] EXCEPT !.ctx = Len(index'), !.latest = Len(index')])
  /\ UNCHANGED <<deploy, origin, tables, history>>

\* Nothing was ever indexed and the worker cannot do it: the node fails its
\* step but does not pause, and the next node misses its input.
ContextMissing(k) ==
  /\ At(k, "read_context")
  /\ index = <<>> /\ ~deploy.local
  /\ SyncRepo
  /\ SetStep(k, "failed")
  /\ Enter(k, "assess_impact", job[k])
  /\ UNCHANGED <<deploy, origin, runCtx, gate, plans, spent, history>>

AssessWithoutContext(k) ==
  /\ At(k, "ask_llm")
  /\ job[k].ctx = 0
  /\ End(k)
  /\ UNCHANGED <<deploy, repository, tables, history>>

\* The freshness contract: a stale snapshot is indexed again in staging and
\* prod (where the worker can), elsewhere the reply carries a warning.
CheckContext(k) ==
  /\ At(k, "check_context")
  /\ \E sha \in HeadSeen :
       LET heal == deploy.staged /\ Stale(job[k].latest, sha) IN
       /\ IF ~heal THEN UNCHANGED head /\ KeepIndex
          ELSE IF deploy.local THEN Index(head) /\ UNCHANGED head ELSE SyncRepo
       /\ LET ctx == IF heal THEN Len(index') ELSE job[k].ctx IN
            /\ runCtx' = [runCtx EXCEPT ![job[k].run] = ctx]
            /\ Goto(k, "complete", [job[k] EXCEPT !.ctx = ctx, !.latest = 0])
  /\ UNCHANGED <<deploy, origin, gate, plans, ledger, spent, history>>

\* The first provider of the chain that is not down decides.  A response that is
\* not JSON is a ValueError, which ends the fallback; so is an answer in it that
\* is not JSON, but for Gemini.
Complete(results) ==
  LET up == {i \in DOMAIN Chain : results[i] # "down"}
      first == CHOOSE i \in up : \A j \in up : i <= j
  IN CASE up = {} -> "none"
       [] up # {} /\ \/ results[first] = "garbled"
                     \/ results[first] = "malformed" /\ Chain[first] # "gemini" -> "raised"
       [] OTHER -> "answer"

\* Mutant: the sum is taken over the run's own records.
OverBudgetOfRun == FALSE

\* The check sees what is committed, not the record of the call just made.
OverBudget == spent > Budget

\* The provider is called, and bills, before the budget is looked at: an answer
\* over budget and one that raised fail the run, and their cost is rolled back.
\* With no provider up the static report is used, whatever the budget.
AskLlm(k) ==
  /\ At(k, "ask_llm")
  /\ job[k].ctx # 0
  /\ \E results \in [DOMAIN Chain -> {"answer", "malformed", "garbled", "down"}] :
       LET outcome == Complete(results)
           fails == outcome = "raised" \/ (outcome = "answer" /\ OverBudget)
       IN
       /\ calls' = [calls EXCEPT ![job[k].run] = IF outcome = "none" THEN "none" ELSE "billed"]
       /\ \/ fails /\ SetStep(k, "failed") /\ End(k)
          \/ /\ ~fails
             /\ Goto(k, "save_impact", [job[k] EXCEPT !.charged = (outcome = "answer")])
             /\ UNCHANGED ledger
  /\ UNCHANGED <<deploy, repository, runCtx, gate, plans, spent, coded, published, decisions>>

\* Report, review and costs are one commit.
SaveImpact(k) ==
  LET now == job[k] IN
  /\ At(k, "save_impact")
  /\ OpenGate(now.run, "impact", [snap |-> now.ctx, amended |-> FALSE])
  /\ spent' = spent + (IF now.charged THEN 8 ELSE 3)
  /\ calls' = IF ~now.charged THEN calls
              ELSE [calls EXCEPT ![now.run] = IF spent > Budget THEN "late" ELSE "charged"]
  /\ Goto(k, "complete", now)
  /\ UNCHANGED <<deploy, repository, runCtx, plans, ledger, coded, published, decisions>>

-----------------------------------------------------------------------------
(* A decision resumes the run *)

\* process_payload takes a command for a review that is still pending.
Decide(k, r, stage, n, text) ==
  /\ At(k, "idle")
  /\ decisions < deploy.decisions
  /\ decisions' = decisions + 1
  /\ gate[r][stage][n].status = "pending"
  /\ Goto(k, "resume", [NoJob EXCEPT !.run = r, !.stage = stage, !.copy = n,
                          !.approve = Parse(text).approve, !.said = Parse(text).said])
  /\ UNCHANGED <<deploy, repository, tables, coded, published, calls>>

\* Mutant: the newest artifact instead of the payload of the review.
PlanOfReviewNewest(r, n) == plans[r][Len(plans[r])]

\* A resumed plan review brings the plan that was reviewed.
PlanOfReview(r, n) == gate[r]["plan"][n].payload

\* Mutant: a snapshot that is gone is replaced by the newest one.
ContextOfRunNewest(r) == Latest

\* Mutant: indexing keeps the old rows.
ContextOfRunKept(r) == runCtx[r]

\* load_global_context by the id in the run's row; 0 if the row is gone.
ContextOfRun(r) == IF runCtx[r] \in live THEN runCtx[r] ELSE 0

\* The approval is decided if it still is pending; a rejected one ends the
\* run, an approved one is taken further whoever approved it.
Resume(k) ==
  LET now == job[k]
      r == now.run
      status == gate[r][now.stage][now.copy].status
      decided == IF status # "pending" THEN status
                 ELSE IF now.approve THEN "approved" ELSE "rejected"
      next == [now EXCEPT !.ctx = ContextOfRun(r), !.latest = Latest]
  IN
  /\ At(k, "resume")
  /\ gate' = [gate EXCEPT ![r][now.stage][now.copy].status = decided]
  /\ \/ /\ decided = "rejected" \/ ~now.approve \/ next.ctx = 0
        /\ End(k)
     \/ /\ decided = "approved" /\ now.approve /\ next.ctx # 0
        /\ \/ now.stage = "impact" /\ Enter(k, "generate_plan", next)
           \/ /\ now.stage = "plan"
              /\ LET planned == [next EXCEPT !.plan = PlanOfReview(r, now.copy)] IN
                   IF deploy.staged THEN Goto(k, "resume_gate", planned)
                   ELSE Enter(k, "execute_coding", planned)
           \/ /\ now.stage = "publish"
              /\ Enter(k, "publish", [next EXCEPT !.plan = plans[r][Len(plans[r])]])
  /\ UNCHANGED <<deploy, repository, runCtx, plans, ledger, spent, history>>

\* A stale plan is not resumed in staging and prod unless the approval says
\* "override".  A HEAD that could not be read passes.
ResumeGate(k) ==
  LET now == job[k] IN
  /\ At(k, "resume_gate")
  /\ \E sha \in HeadSeen :
       IF Stale(now.latest, sha) /\ now.said # "override" THEN End(k)
       ELSE Enter(k, "execute_coding", [now EXCEPT !.latest = 0, !.blind = (sha = Unknown)])
  /\ UNCHANGED <<deploy, repository, tables, history>>

-----------------------------------------------------------------------------
(* Plan, code, tests, publish *)

\* Mutant: the artifact is saved before the amendment is applied.
SavedPlanUnamended(plan) == [plan EXCEPT !.amended = FALSE]

SavedPlan(plan) == plan

\* The plan comes from the context, with the files an amendment names.
GeneratePlan(k) ==
  LET now == job[k]
      plan == [snap |-> now.ctx, amended |-> now.said = "amend"]
  IN
  /\ At(k, "plan")
  /\ plans' = [plans EXCEPT ![now.run] = Append(@, SavedPlan(plan))]
  /\ OpenGate(now.run, "plan", plan)
  /\ spent' = spent + 2
  /\ Goto(k, "complete", now)
  /\ UNCHANGED <<deploy, repository, runCtx, ledger, history>>

ReadLatest(k) ==
  /\ At(k, "read_latest")
  /\ Goto(k, "coding_gate", [job[k] EXCEPT !.latest = Latest])
  /\ UNCHANGED <<deploy, repository, tables, history>>

\* The second gate heals: sync, index where possible, read the newest context.
\* An exception in it is logged only.
CodingGate(k) ==
  LET now == job[k] IN
  /\ At(k, "coding_gate")
  /\ \E sha \in HeadSeen :
       LET seen == [now EXCEPT !.latest = 0, !.saw = sha, !.blind = @ \/ sha = Unknown]
           heal == deploy.staged /\ Stale(now.latest, sha) /\ now.said # "override"
       IN
       \/ UNCHANGED head /\ KeepIndex /\ Goto(k, "baseline", seen)
       \/ heal /\ SyncRepo /\ Goto(k, "baseline", [seen EXCEPT !.ctx = Len(index'), !.healed = TRUE])
  /\ UNCHANGED <<deploy, origin, tables, history>>

\* The baseline sync and tests; they fail the step through StepFails.
Baseline(k) ==
  /\ At(k, "baseline")
  /\ SyncRepo
  /\ Goto(k, "code", job[k])
  /\ UNCHANGED <<deploy, origin, tables, history>>

\* The agent works with this plan and this context, on a branch of its own.
Code(k) ==
  LET now == job[k] IN
  /\ At(k, "code")
  /\ head' \in {head, Branch}
  /\ coded' = coded \cup {[run |-> now.run, plan |-> now.plan, ctx |-> now.ctx, saw |-> now.saw,
                           healed |-> now.healed,
                           excused |-> now.blind \/ now.said = "override"]}
  /\ Goto(k, "complete", now)
  /\ UNCHANGED <<deploy, origin, index, live, tables, published, calls, decisions>>

\* Their record and cost are committed whatever the verdict.
RunTests(k) ==
  /\ At(k, "tests")
  /\ spent' = spent + 20
  /\ Goto(k, "report", job[k])
  /\ UNCHANGED <<deploy, repository, runCtx, gate, plans, ledger, history>>

Report(k) ==
  /\ At(k, "report")
  /\ OpenGate(job[k].run, "publish", job[k].plan)
  /\ Goto(k, "complete", job[k])
  /\ UNCHANGED <<deploy, repository, runCtx, plans, ledger, spent, history>>

\* The pull request takes its title from the newest plan artifact and its body
\* from the report that was reviewed.
Publish(k) ==
  LET now == job[k] IN
  /\ At(k, "publish")
  /\ published' = published \cup {[run |-> now.run, plan |-> now.plan,
                                   report |-> gate[now.run]["publish"][now.copy].payload]}
  /\ Goto(k, "complete", now)
  /\ UNCHANGED <<deploy, repository, tables, coded, calls, decisions>>

-----------------------------------------------------------------------------
(* The world *)

Push ==
  /\ origin < MaxPushes
  /\ origin' = origin + 1
  /\ UNCHANGED <<deploy, head, index, live, tables, pc, job, history>>

\* A push webhook or the command line indexes a checkout.
OtherIndex ==
  /\ deploy.outside
  /\ \E sha \in IF deploy.local THEN {head} ELSE 0..origin : Index(sha)
  /\ UNCHANGED <<deploy, origin, head, tables, pc, job, history>>

Node(k) ==
  \/ ReadContext(k) \/ ContextMissing(k) \/ AssessWithoutContext(k) \/ CheckContext(k)
  \/ AskLlm(k) \/ SaveImpact(k)
  \/ Resume(k) \/ ResumeGate(k) \/ GeneratePlan(k)
  \/ ReadLatest(k) \/ CodingGate(k) \/ Baseline(k) \/ Code(k)
  \/ RunTests(k) \/ Report(k) \/ Publish(k)

Worker(k) ==
  \/ \E r \in Runs : Receive(k, r)
  \/ \E r \in Runs, stage \in Stages :
       \E n \in DOMAIN gate[r][stage], text \in Texts(stage) : Decide(k, r, stage, n, text)
  \/ BeginStep(k) \/ CompleteStep(k) \/ Node(k)

Next ==
  \/ \E k \in Workers : Worker(k) \/ StepFails(k) \/ WorkerDies(k)
  \/ Push \/ OtherIndex

Spec == Init /\ [][Next]_vars

-----------------------------------------------------------------------------
(* Properties *)

Approved(r, stage) == {g \in {gate[r][stage][n] : n \in DOMAIN gate[r][stage]} :
                         g.status = "approved"}

\* Every plan handed to a coding agent is, amendment included, the content of
\* a plan review that was approved, and that plan was made for an impact
\* review that was approved, however many workers resume the run at once.
CodesWhatWasApproved ==
  \A c \in coded :
    /\ \E g \in Approved(c.run, "plan") : g.payload = c.plan
    /\ \E g \in Approved(c.run, "impact") : g.payload.snap = c.plan.snap

\* The impact report, the plan and (unless the second gate healed a context
\* that went stale meanwhile) the context given to the agent come from one
\* snapshot, although indexing replaces the snapshot while the run waits.
OneContextPerRun ==
  /\ \A r \in Runs : \A g \in {gate[r]["plan"][n] : n \in DOMAIN gate[r]["plan"]} :
       g.payload.snap = gate[r]["impact"][1].payload.snap
  /\ \A c \in coded : c.healed \/ c.ctx = c.plan.snap

\* With one worker and nobody else indexing, an agent in staging or prod gets
\* a context of the very commit the coding gate saw in the workspace, unless the
\* approval said "override" or a gate could not read HEAD.  That is all the gates
\* vouch for: the baseline sync that follows them may pull a newer main.
CodesOnGatedContext ==
  Alone /\ deploy.staged /\ ~deploy.outside =>
    \A c \in coded : c.excused \/ index[c.ctx] = c.saw

\* With one worker the pull request names the plan its report is about, which
\* is one that was coded: the artifact read at the end is the plan reviewed.
PublishesWhatWasCoded ==
  Alone => \A p \in published :
    /\ p.plan = p.report
    /\ \E c \in coded : c.run = p.run /\ c.plan = p.plan

\* The ledger never claims a step whose result is not there, wherever a worker
\* fails or dies.
LedgerTellsTruth ==
  \A r \in Runs :
    LET Done(step) == \E n \in DOMAIN ledger[r][step] : ledger[r][step][n] = "completed" IN
    /\ Done("load_context") => runCtx[r] # 0
    /\ Done("assess_impact") => gate[r]["impact"] # <<>>
    /\ Done("generate_plan") => gate[r]["plan"] # <<>> /\ plans[r] # <<>>
    /\ Done("execute_coding") => \E c \in coded : c.run = r
    /\ Done("run_tests_and_report") => gate[r]["publish"] # <<>>
    /\ Done("publish") => \E p \in published : p.run = r

\* The model is called and bills whatever was spent before, but an answer that is
\* not charged to the tenant is of no use to the run, which gets no review to be
\* approved; and once the budget is overspent, no more answers are used and
\* charged than the other workers had in flight.
OverBudgetUnused ==
  /\ \A r \in Runs : calls[r] = "billed" => gate[r]["impact"] = <<>>
  /\ Cardinality({r \in Runs : calls[r] = "late"}) < Cardinality(deploy.workers)

============================================================================
