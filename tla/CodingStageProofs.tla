------------------------- MODULE CodingStageProofs -------------------------
(***************************************************************************)
(* Proofs about CodingStage and the two modules it composes, for any runs, *)
(* editors and deployments, any number of polls and crashes: the types,    *)
(* the workstation's row and machine, whose commits are on which branch,   *)
(* and that nothing counts as coded or allowed that is not.                *)
(***************************************************************************)
EXTENDS CodingStage, TLAPS

-----------------------------------------------------------------------------
(* The inductive invariant *)

JobType == [run: Runs \cup {NoRun}, step: Step, call: Caller,
            coding: {"none", "failed", "empty", "commits"}, tests: {"none", "passed", "failed"}]

JobOK ==
  /\ job \in JobType
  /\ job.step = "idle" <=> job.run = NoRun
  /\ outcome \in [Runs -> {"queued", "coding", "failed", "report_ready", "stuck"}]

\* The monitor works on an active row, the worker boots a booting one: neither
\* acts on the machine under the other.
StationOK ==
  /\ SleepingIsStopped
  /\ BootingOwned
  /\ monitor # "off" => row = "active"
  /\ monitor = "commit" /\ Remote = "gcp" /\ ~awake => machine = "stopped"
  /\ At("boot") \/ At("booted") => row = "booting"

\* A branch that is not in the checkout has no work that making it could lose.
TreeOK ==
  /\ RunsDoNotMix
  /\ Main \in local /\ head \in local
  /\ \A b \in Branches \ local : work[b] = {}
  /\ ~slipped => loose = {} /\ dirt = {}

\* The checkout under a worker: commands that find the machine up have all
\* found it up since the sync, as only a boot starts it.
HeadOK ==
  Up /\ ~slipped =>
    /\ At("branch") => head = Main
    /\ job.step \in {"write", "agent", "await_tool"} => head = Branch(job.run)

\* The executor that is at work is the one select chose.
RouteOK ==
  /\ job.call = "coding" => Select = "cloud"
  /\ At("write") => job.call = "coding"
  /\ job.step \in {"agent", "await_tool", "count"} => Select = "cloud" \/ deploy.adapter # "extension"
  /\ At("await_task") => deploy.adapter = "extension"

\* What vouches for a run whose coding gave commits.
Vouched(r) ==
  /\ deploy.adapter # "extension" => work[Branch(r)] # {}
  /\ deploy.adapter = "extension" /\ Select = "local" /\ deploy.claude => r \in built

ResultsOK ==
  /\ job.coding = "commits" => job.run \in Runs /\ Vouched(job.run)
  /\ \A r \in Runs : outcome[r] = "report_ready" => Vouched(r)

LoopsOK == \A e \in Editors : editor[e].step # "idle" => editor[e].at \in Runs

AskingOK == At("await_tool") => asking \in Questions

AnswersOK ==
  /\ CompletedWasBuilt
  /\ LoopsOK
  /\ \A q \in Questions : tool[q] = "approved" => q \in granted
  /\ AskingOK
  /\ ran \subseteq granted

IInv == TypeOK /\ StationOK /\ TreeOK /\ HeadOK /\ RouteOK /\ ResultsOK /\ AnswersOK

-----------------------------------------------------------------------------
(* The worker's moves *)

LEMMA JobTyped ==
  ASSUME TypeOK
  PROVE  /\ JobOK /\ job \in JobType /\ NoRun \notin Runs
         /\ job.run \in Runs \cup {NoRun} /\ job.step \in Step /\ job.call \in Caller
         /\ job.coding \in {"none", "failed", "empty", "commits"}
         /\ job.tests \in {"none", "passed", "failed"}
         /\ ~At("idle") => job.run \in Runs
<1>1. JobOK /\ NoRun \notin Runs
  BY DeploymentAssumption DEF TypeOK, JobOK, JobType
<1> QED
  BY <1>1 DEF JobOK, JobType, At

LEMMA Gone ==
  ASSUME TypeOK, ~At("idle"), NEW to \in Step \ {"idle"}, Goto(to)
  PROVE  /\ JobOK' /\ outcome' = outcome
         /\ job'.step = to /\ job'.run = job.run /\ job'.call = job.call
         /\ job'.coding = job.coding
<1>1. job' = [job EXCEPT !.step = to] /\ outcome' = outcome
  BY DEF Goto
<1> QED
  BY <1>1, JobTyped DEF JobOK, JobType, At

LEMMA Called ==
  ASSUME TypeOK, ~At("idle"), NEW to \in Step \ {"idle"}, NEW call \in Caller, Call(to, call)
  PROVE  /\ JobOK' /\ outcome' = outcome
         /\ job'.step = to /\ job'.run = job.run /\ job'.call = call
         /\ job'.coding = job.coding
<1>1. job' = [job EXCEPT !.step = to, !.call = call] /\ outcome' = outcome
  BY DEF Call
<1> QED
  BY <1>1, JobTyped DEF JobOK, JobType, At

LEMMA Ended ==
  ASSUME TypeOK, ~At("idle"),
         NEW result \in {"queued", "coding", "failed", "report_ready", "stuck"}, End(result)
  PROVE  /\ JobOK'
         /\ job'.step = "idle" /\ job'.run = NoRun /\ job'.call = "heal" /\ job'.coding = "none"
         /\ \A r \in Runs : outcome'[r] = IF r = job.run THEN result ELSE outcome[r]
<1>1. job' = NoJob /\ outcome' = [outcome EXCEPT ![job.run] = result]
  BY DEF End
<1>2. NoJob \in JobType /\ NoJob.step = "idle" /\ NoJob.run = NoRun
  BY DEF NoJob, JobType, Step, Caller
<1> QED
  BY <1>1, <1>2, JobTyped DEF JobOK, NoJob

LEMMA Given ==
  ASSUME TypeOK, ~At("idle"), NEW result \in {"failed", "empty", "commits"}, CodingGives(result)
  PROVE  /\ JobOK' /\ outcome' = outcome
         /\ job'.step \in {"touch", "test"} /\ job'.run = job.run /\ job'.call = "verify"
         /\ job'.coding = result
<1> DEFINE to == IF Select = "cloud" THEN "touch" ELSE "test"
<1>1. job' = [job EXCEPT !.step = to, !.call = "verify", !.coding = result] /\ outcome' = outcome
  BY DEF CodingGives
<1>2. to \in {"touch", "test"}
  OBVIOUS
<1> HIDE DEF to
<1> QED
  BY <1>1, <1>2, JobTyped DEF JobOK, JobType, Step, Caller, At

\* The tests never finish a coding, and nothing but a verdict is a report.
LEMMA Tested ==
  ASSUME TypeOK, ~At("idle"), NEW status \in {"passed", "failed"}, TestsGive(status)
  PROVE  /\ JobOK'
         /\ \/ /\ job'.step \in {"mark", "select", "verdict"} /\ outcome' = outcome
               /\ job'.run = job.run /\ job'.call = job.call /\ job'.coding = job.coding
            \/ /\ job'.step = "idle" /\ job'.call = "heal" /\ job'.coding = "none"
               /\ \A r \in Runs : outcome'[r] \in {"failed", outcome[r]}
<1>1. \/ Goto("mark") \/ Goto("select") \/ End("failed")
      \/ job' = [job EXCEPT !.step = "verdict", !.tests = status] /\ outcome' = outcome
  BY DEF TestsGive
<1>2. CASE Goto("mark") \/ Goto("select")
  BY <1>2, Gone DEF Step
<1>3. CASE End("failed")
  BY <1>3, Ended
<1>4. CASE job' = [job EXCEPT !.step = "verdict", !.tests = status] /\ outcome' = outcome
  BY <1>4, JobTyped DEF JobOK, JobType, Step, At
<1> QED
  BY <1>1, <1>2, <1>3, <1>4

-----------------------------------------------------------------------------
(* Types *)

\* What a step does to the worker, by the step it is at.
Talks  == \/ Gate \/ Mark \/ Touch \/ Probe \/ Test \/ WritePrompt \/ AgentAsks \/ AwaitTool
          \/ AwaitTask \/ Count \/ Verdict
Builds == Sync \/ StartCoding \/ AgentCommits \/ AgentExits \/ AgentTimesOut

LEMMA StepKinds ==
  ASSUME Next
  PROVE  /\ deploy' = deploy
         /\ \/ \E r \in Runs : TakeRun(r)
            \/ Talks \/ Builds \/ Ensure \/ Boot
            \/ World /\ UNCHANGED <<questions, job, outcome, stage>>
            \/ Outside /\ UNCHANGED <<station, job, outcome, stage>>
            \/ WorkerDies
            \/ MonitorDies
  BY DEF Next, Worker, Talks, Builds

LEMMA Busy ==
  ASSUME Talks \/ Builds \/ Ensure \/ Boot \/ WorkerDies
  PROVE  ~At("idle")
  BY DEF Talks, Builds, Gate, Mark, Touch, Probe, Test, WritePrompt, AgentAsks, AwaitTool, AwaitTask,
     Count, Verdict, Sync, StartCoding, AgentCommits, AgentExits, AgentTimesOut, Ensure, Boot,
     WorkerDies, At

LEMMA TakenUp ==
  ASSUME TypeOK, NEW r \in Runs, TakeRun(r)
  PROVE  /\ JobOK' /\ outcome' = outcome
         /\ job'.step = "gate" /\ job'.run = r /\ job'.call = "heal" /\ job'.coding = "none"
<1>1. job' = [NoJob EXCEPT !.run = r, !.step = "gate"] /\ outcome' = outcome
  BY DEF TakeRun
<1>2. /\ NoJob = [run |-> NoRun, step |-> "idle", call |-> "heal", coding |-> "none", tests |-> "none"]
      /\ r # NoRun
  BY JobTyped DEF NoJob
<1> QED
  BY <1>1, <1>2, JobTyped DEF JobOK, JobType, Step, Caller

LEMMA Marked ==
  ASSUME TypeOK, Mark
  PROVE  /\ JobOK'
         /\ job'.step = "ensure" /\ job'.run = job.run /\ job'.call = "baseline"
         /\ job'.coding = job.coding
         /\ \A r \in Runs : outcome'[r] \in {"coding", outcome[r]}
<1>1. /\ job' = [job EXCEPT !.step = "ensure", !.call = "baseline"] /\ At("mark")
      /\ outcome' = [outcome EXCEPT ![job.run] = "coding"]
  BY DEF Mark
<1> QED
  BY <1>1, JobTyped DEF JobOK, JobType, Step, Caller, At

LEMMA TalksJob == ASSUME TypeOK, Talks PROVE JobOK'
<1>1. ~At("idle")
  BY Busy
<1>2. \A to \in {"touch", "mark", "enter", "test", "agent", "await_tool", "await_task"} :
        Goto(to) => JobOK'
  BY <1>1, Gone DEF Step
<1>3. \A status \in {"passed", "failed"} : TestsGive(status) => JobOK'
  BY <1>1, Tested
<1>4. \A result \in {"failed", "empty", "commits"} : CodingGives(result) => JobOK'
  BY <1>1, Given
<1>5. End("failed") \/ End("report_ready") \/ Raise => JobOK'
  BY <1>1, Ended DEF Raise
<1>6. Call("touch", "heal") => JobOK'
  BY <1>1, Called DEF Step, Caller
<1>7. Mark => JobOK'
  BY Marked
<1> QED
  BY <1>2, <1>3, <1>4, <1>5, <1>6, <1>7 DEF Talks, Gate, Touch, Probe, Test, WritePrompt, AgentAsks,
     AwaitTool, AwaitTask, Count, Verdict

LEMMA BuildsJob == ASSUME TypeOK, Builds \/ Ensure \/ Boot PROVE JobOK'
<1>1. ~At("idle")
  BY Busy
<1>2. \A to \in {"write", "probe", "main", "branch", "agent", "await_task", "count", "boot", "booted",
                 "enter", "touch"} : Goto(to) => JobOK'
  BY <1>1, Gone DEF Step
<1>3. \A result \in {"failed", "empty", "commits"} : CodingGives(result) => JobOK'
  BY <1>1, Given
<1>4. End("failed") \/ Raise => JobOK'
  BY <1>1, Ended DEF Raise
<1>5. Call("ensure", "coding") => JobOK'
  BY <1>1, Called DEF Step, Caller
<1>6. UNCHANGED <<job, outcome>> => JobOK'
  BY JobTyped DEF JobOK
<1>7. Builds => JobOK'
  BY <1>2, <1>3, <1>4, <1>5, <1>6 DEF Builds, Sync, AfterSync, StartCoding, AgentCommits, AgentExits,
     AgentTimesOut
<1>8. Ensure \/ Boot => JobOK'
  BY <1>2, <1>4 DEF Ensure, Boot, AfterEnsure
<1> QED
  BY <1>7, <1>8

LEMMA BranchTyped == ASSUME TypeOK PROVE \A r \in Runs : Branch(r) \in Names
<1>1. deploy.branchOf \in [Runs -> Names]
  BY DeploymentAssumption DEF TypeOK
<1> QED
  BY <1>1 DEF Branch

\* The commands on the machine and the checkout, whoever gives them.
LEMMA StationTypes ==
  ASSUME TypeOK
  PROVE  /\ BeginBoot \/ AlreadyReady \/ StartMachine \/ CommitActive \/ BootFails => StationTypeOK'
         /\ \A b \in Branches : LocalSync(b) \/ CheckoutBranch(b) => StationTypeOK'
         /\ \A ok \in BOOLEAN : EnterRepo(ok) => StationTypeOK'
         /\ CheckoutMain \/ TouchActivity => StationTypeOK'
         /\ \A r \in Runs : Commit(r) \/ LeaveEdits(r) \/ LetLoose(r) => StationTypeOK'
         /\ World => StationTypeOK'
<1> USE DEF record, tree, leavings, histories
<1>1. StationTypeOK /\ Main \in Branches
  BY DEF TypeOK, Branches
<1>2. BeginBoot \/ AlreadyReady \/ StartMachine \/ CommitActive \/ BootFails => StationTypeOK'
  BY <1>1 DEF BeginBoot, AlreadyReady, StartMachine, CommitActive, BootFails, StationTypeOK, RowState
<1>3. ASSUME NEW b \in Branches, LocalSync(b) PROVE StationTypeOK'
  BY <1>1, <1>3 DEF LocalSync, BranchFrom, Slip, StationTypeOK
<1>4. ASSUME NEW b \in Branches, CheckoutBranch(b) PROVE StationTypeOK'
  BY <1>1, <1>4 DEF CheckoutBranch, BranchFrom, Slip, StationTypeOK
<1>5. ASSUME NEW ok \in BOOLEAN, EnterRepo(ok) PROVE StationTypeOK'
  BY <1>1, <1>5 DEF EnterRepo, StationTypeOK
<1>6. CheckoutMain \/ TouchActivity => StationTypeOK'
  BY <1>1 DEF CheckoutMain, TouchActivity, Slip, StationTypeOK
<1>7. ASSUME NEW r \in Runs, Commit(r) \/ LeaveEdits(r) \/ LetLoose(r) PROVE StationTypeOK'
  BY <1>1, <1>7 DEF Commit, LeaveEdits, LetLoose, StationTypeOK
<1>8. ASSUME Monitor \/ HalfHourPasses \/ ProviderStops PROVE StationTypeOK'
  BY <1>1, <1>8 DEF Monitor, SelectIdle, StopMachine, CommitSleep, HalfHourPasses, ProviderStops,
     PowerOff, StationTypeOK, RowState
<1>9. ASSUME World PROVE StationTypeOK'
  BY <1>1, <1>7, <1>8, <1>9 DEF World, StationTypeOK
<1> QED
  BY <1>2, <1>3, <1>4, <1>5, <1>6, <1>7, <1>9

LEMMA Polled ==
  ASSUME NEW status, NEW yes, NEW no
  PROVE  /\ PollAnswer(status, yes, no) \in {"yes", "no", "wait"}
         /\ PollAnswer(status, yes, no) = "yes" => status \in yes
         /\ PollAnswer(status, yes, no) = "wait" => polls + 1 < MaxPolls
  BY DEF PollAnswer

\* A poll loop goes one step on, or on to another task.
LEMMA LoopMoves ==
  ASSUME QuestionsTypeOK, NEW e \in Editors
  PROVE  /\ \A step \in {"commit_claim", "work", "complete", "fail"} : Move(e, step) =>
              /\ editor' \in [Editors -> Loop]
              /\ editor'[e].step = step /\ editor'[e].at = editor[e].at
              /\ \A d \in Editors : d # e => editor'[d] = editor[d]
         /\ \A list \in SUBSET Runs : TryOneOf(e, list) =>
              /\ editor' \in [Editors -> Loop]
              /\ editor'[e].step = "idle" \/ (editor'[e].step = "claim" /\ editor'[e].at \in Runs)
              /\ \A d \in Editors : d # e => editor'[d] = editor[d]
<1>1. editor \in [Editors -> Loop] /\ editor[e] \in Loop
  BY DEF QuestionsTypeOK
<1>2. ASSUME NEW step \in {"commit_claim", "work", "complete", "fail"}, Move(e, step)
      PROVE  /\ editor' \in [Editors -> Loop]
             /\ editor'[e].step = step /\ editor'[e].at = editor[e].at
             /\ \A d \in Editors : d # e => editor'[d] = editor[d]
  <2>1. [editor[e] EXCEPT !.step = step] \in Loop
    BY <1>1 DEF Loop
  <2>2. editor' = [editor EXCEPT ![e] = [editor[e] EXCEPT !.step = step]]
    BY <1>1, <1>2 DEF Move
  <2> QED
    BY <1>1, <2>1, <2>2 DEF Loop
<1>3. ASSUME NEW list \in SUBSET Runs, TryOneOf(e, list)
      PROVE  /\ editor' \in [Editors -> Loop]
             /\ editor'[e].step = "idle" \/ (editor'[e].step = "claim" /\ editor'[e].at \in Runs)
             /\ \A d \in Editors : d # e => editor'[d] = editor[d]
  <2>1. PICK new \in Loop :
          /\ editor' = [editor EXCEPT ![e] = new]
          /\ new.step = "idle" \/ (new.step = "claim" /\ new.at \in Runs)
    <3>1. NoLoop \in Loop /\ NoLoop.step = "idle"
      BY DEF NoLoop, Loop
    <3>2. ASSUME NEW r \in list
          PROVE  /\ [step |-> "claim", at |-> r, todo |-> list] \in Loop
                 /\ [step |-> "claim", at |-> r, todo |-> list].step = "claim"
                 /\ [step |-> "claim", at |-> r, todo |-> list].at = r /\ r \in Runs
      BY DEF Loop
    <3> QED
      BY <1>3, <3>1, <3>2 DEF TryOneOf
  <2> QED
    BY <1>1, <2>1
<1> QED
  BY <1>2, <1>3

\* What an editor or a human may do to the questions.
LEMMA OutsideMoves ==
  ASSUME QuestionsTypeOK, LoopsOK, Outside
  PROVE  /\ QuestionsTypeOK' /\ LoopsOK'
         /\ polls' = polls /\ granted \subseteq granted' /\ built \subseteq built'
         /\ \A q \in Questions : tool'[q] = "approved" => tool[q] = "approved" \/ q \in granted'
         /\ deploy' = deploy /\ CompletedWasBuilt => CompletedWasBuilt'
         /\ asking' = asking
<1> USE DEF AtStep
<1>1. ASSUME \/ \E q \in Questions, status \in {"approved", "rejected"} : AnswerTool(q, status)
             \/ SweepReads \/ SweepWrites
      PROVE  /\ QuestionsTypeOK'
             /\ polls' = polls /\ granted \subseteq granted' /\ built' = built
             /\ task' = task /\ editor' = editor /\ asking' = asking
             /\ \A q \in Questions : tool'[q] = "approved" => tool[q] = "approved" \/ q \in granted'
  <2>1. CASE \E q \in Questions, status \in {"approved", "rejected"} : AnswerTool(q, status)
    BY <2>1 DEF AnswerTool, QuestionsTypeOK, ToolStatus
  <2>2. CASE SweepReads
    BY <2>2 DEF SweepReads, QuestionsTypeOK
  <2>3. CASE SweepWrites
    BY <2>3 DEF SweepWrites, QuestionsTypeOK, ToolStatus
  <2> QED
    BY <1>1, <2>1, <2>2, <2>3
<1>2. ASSUME NEW e \in Editors,
             \/ PollPending(e) \/ ReadClaim(e) \/ CommitClaim(e)
             \/ ExecuteAgent(e) \/ Report(e) \/ CloseEditor(e)
      PROVE  /\ QuestionsTypeOK' /\ LoopsOK'
             /\ polls' = polls /\ tool' = tool /\ granted' = granted /\ built \subseteq built'
             /\ asking' = asking
             /\ deploy' = deploy /\ CompletedWasBuilt => CompletedWasBuilt'
  <2> DEFINE at == editor[e].at
  <2>1. /\ polls' = polls /\ tool' = tool /\ granted' = granted /\ asking' = asking /\ doomed' = doomed
        /\ \A d \in Editors : d # e => editor'[d] = editor[d]
        /\ editor' \in [Editors -> Loop]
        /\ editor'[e].step # "idle" => editor'[e].at \in Runs
        /\ \/ editor'[e].step \in {"idle", "claim", "commit_claim", "work", "fail"} /\ built' = built
           \/ /\ editor'[e].step = "complete" /\ editor'[e].at = at
              /\ built' = IF deploy.claude THEN built \cup {at} ELSE built
              /\ editor[e].step = "work"
        /\ \/ task' = task
           \/ task' = [task EXCEPT ![at] = "claimed"] \/ task' = [task EXCEPT ![at] = "failed"]
           \/ task' = [task EXCEPT ![at] = "completed"] /\ editor[e].step = "complete"
    <3> USE DEF toolReviews
    <3>0. editor[e].step # "idle" => at \in Runs
      BY DEF LoopsOK
    <3>1. editor[e].todo \ {editor[e].at} \in SUBSET Runs /\ {r \in Runs : task[r] = "pending"} \in SUBSET Runs
      BY DEF QuestionsTypeOK, Loop
    <3>2. editor' = [editor EXCEPT ![e] = NoLoop] =>
            /\ editor' \in [Editors -> Loop] /\ editor'[e].step = "idle"
            /\ \A d \in Editors : d # e => editor'[d] = editor[d]
      BY DEF QuestionsTypeOK, NoLoop, Loop
    <3>3. CASE PollPending(e)
      BY <3>1, <3>3, LoopMoves DEF PollPending
    <3>4. CASE ReadClaim(e)
      BY <3>0, <3>1, <3>4, LoopMoves DEF ReadClaim, NextOf
    <3>5. CASE CommitClaim(e)
      BY <3>0, <3>1, <3>5, LoopMoves DEF CommitClaim, NextOf
    <3>6. CASE ExecuteAgent(e)
      BY <3>0, <3>6, LoopMoves DEF ExecuteAgent
    <3>7. CASE Report(e)
      BY <3>1, <3>7, LoopMoves DEF Report, NextOf
    <3>8. CASE CloseEditor(e)
      BY <3>2, <3>8 DEF CloseEditor
    <3> QED
      BY <1>2, <3>3, <3>4, <3>5, <3>6, <3>7, <3>8
  <2>2. editor[e].step = "work" => at \in Runs
    BY DEF LoopsOK
  <2>3. QuestionsTypeOK' /\ LoopsOK'
    BY <2>1, <2>2 DEF QuestionsTypeOK, TaskStatus, LoopsOK
  <2>4. deploy' = deploy /\ CompletedWasBuilt => CompletedWasBuilt'
    BY <2>1 DEF CompletedWasBuilt, QuestionsTypeOK
  <2> QED
    BY <2>1, <2>3, <2>4
<1> QED
  BY <1>1, <1>2 DEF Outside, CompletedWasBuilt, LoopsOK

LEMMA AsksTyped ==
  ASSUME QuestionsTypeOK, NEW r \in Runs,
         \/ Enqueue(r) \/ (\E q \in Questions : AskTool(q))
         \/ \E answer \in {"wait", "yes", "no"} : PollTask(r, answer) \/ PollTool(answer)
  PROVE  QuestionsTypeOK'
<1> USE DEF toolReviews
<1>1. MaxPolls \in Nat /\ 0 \in 0..(MaxPolls - 1)
  BY MaxPollsAssumption
<1>2. CASE Enqueue(r) \/ \E q \in Questions : AskTool(q)
  BY <1>1, <1>2 DEF Enqueue, AskTool, QuestionsTypeOK, TaskStatus, ToolStatus
<1>3. ASSUME NEW answer \in {"wait", "yes", "no"}, PollTask(r, answer) \/ PollTool(answer)
      PROVE  QuestionsTypeOK'
  <2>1. answer = "wait" => polls + 1 < MaxPolls
    BY <1>3, Polled DEF PollTask, PollTool
  <2>2. polls' = (IF answer = "wait" THEN polls + 1 ELSE 0)
    BY <1>3 DEF PollTask, PollTool
  <2>3. polls' \in 0..(MaxPolls - 1)
    BY <1>1, <2>1, <2>2 DEF QuestionsTypeOK
  <2> QED
    BY <1>3, <2>3 DEF PollTask, PollTool, QuestionsTypeOK
<1> QED
  BY <1>2, <1>3

LEMMA WorkerTypes ==
  ASSUME TypeOK, (\E r \in Runs : TakeRun(r)) \/ Talks \/ Builds \/ Ensure \/ Boot
  PROVE  StationTypeOK' /\ QuestionsTypeOK'
<1>0. /\ StationTypeOK /\ QuestionsTypeOK /\ Main \in Branches
      /\ ~At("idle") => job.run \in Runs /\ SyncBranch \in Branches /\ Branch(job.run) \in Branches
  BY JobTyped, BranchTyped DEF TypeOK, Branches, SyncBranch
<1>1. UNCHANGED station => StationTypeOK'
  BY <1>0 DEF station, record, tree, leavings, histories, StationTypeOK
<1>2. UNCHANGED questions => QuestionsTypeOK'
  BY <1>0 DEF questions, toolReviews, QuestionsTypeOK
<1>3. CASE \E r \in Runs : TakeRun(r)
  BY <1>1, <1>2, <1>3 DEF TakeRun
<1>4. CASE Talks
  <2>1. ~At("idle")
    BY <1>4, Busy
  <2>2. StationTypeOK'
    BY <1>1, <1>4, StationTypes DEF Talks, Gate, Mark, Touch, Probe, Test, WritePrompt, AgentAsks,
       AwaitTool, AwaitTask, Count, Verdict
  <2>3. QuestionsTypeOK'
    BY <1>0, <1>2, <1>4, <2>1, AsksTyped DEF Talks, Gate, Mark, Touch, Probe, Test, WritePrompt,
       AgentAsks, AwaitTool, AwaitTask, Count, Verdict
  <2> QED
    BY <2>2, <2>3
<1>5. CASE Builds
  <2>1. ~At("idle")
    BY <1>5, Busy
  <2>2. StationTypeOK'
    BY <1>0, <1>1, <1>5, <2>1, StationTypes DEF Builds, Sync, StartCoding, AgentCommits, AgentExits,
       AgentTimesOut
  <2>3. QuestionsTypeOK'
    BY <1>0, <1>2, <1>5, <2>1, AsksTyped DEF Builds, Sync, StartCoding, AgentCommits, AgentExits,
       AgentTimesOut
  <2> QED
    BY <2>2, <2>3
<1>6. CASE Ensure \/ Boot
  BY <1>2, <1>6, StationTypes DEF Ensure, Boot
<1> QED
  BY <1>3, <1>4, <1>5, <1>6

LEMMA HistoryTypes ==
  ASSUME TypeOK, AskingOK, Next
  PROVE  /\ tested' \in SUBSET Runs /\ ran' \in SUBSET Questions
         /\ crashes' \in 0..MaxCrashes /\ bootLost' \in BOOLEAN
<1>0. /\ tested \in SUBSET Runs /\ ran \in SUBSET Questions /\ crashes \in 0..MaxCrashes
      /\ bootLost \in BOOLEAN /\ MaxCrashes \in Nat
      /\ ~At("idle") => job.run \in Runs
  BY JobTyped, MaxCrashesAssumption DEF TypeOK
<1>1. UNCHANGED stage => UNCHANGED <<tested, ran, crashes, bootLost>>
  BY DEF stage
<1>2. CASE (\E r \in Runs : TakeRun(r)) \/ Builds \/ Ensure \/ Boot
  BY <1>0, <1>1, <1>2 DEF TakeRun, Builds, Sync, StartCoding, AgentCommits, AgentExits, AgentTimesOut,
     Ensure, Boot
<1>3. CASE Talks
  <2>1. ~At("idle")
    BY <1>3, Busy
  <2>2. CASE AwaitTool
    BY <1>0, <2>2 DEF AwaitTool, AskingOK
  <2> QED
    BY <1>0, <1>1, <1>3, <2>1, <2>2 DEF Talks, Gate, Mark, Touch, Probe, Test, WritePrompt, AgentAsks,
       AwaitTask, Count, Verdict
<1>4. CASE WorkerDies
  BY <1>0, <1>4 DEF WorkerDies
<1>5. CASE MonitorDies
  BY <1>0, <1>5 DEF MonitorDies
<1> QED
  BY <1>0, <1>1, <1>2, <1>3, <1>4, <1>5, StepKinds

LEMMA TypeStep == ASSUME TypeOK, LoopsOK, AskingOK, Next PROVE TypeOK'
<1>0. /\ StationTypeOK /\ QuestionsTypeOK /\ JobOK /\ deploy \in Deployments
      /\ ~At("idle") => job.run \in Runs
  BY JobTyped DEF TypeOK
<1>1. UNCHANGED station => StationTypeOK'
  BY <1>0 DEF station, record, tree, leavings, histories, StationTypeOK
<1>2. UNCHANGED questions => QuestionsTypeOK'
  BY <1>0 DEF questions, toolReviews, QuestionsTypeOK
<1>3. UNCHANGED <<job, outcome>> => JobOK'
  BY <1>0 DEF JobOK
<1>4. StationTypeOK' /\ QuestionsTypeOK' /\ JobOK'
  <2>1. CASE (\E r \in Runs : TakeRun(r)) \/ Talks \/ Builds \/ Ensure \/ Boot
    BY <2>1, WorkerTypes, TakenUp, TalksJob, BuildsJob
  <2>2. CASE World /\ UNCHANGED <<questions, job, outcome, stage>>
    BY <1>2, <1>3, <2>2, StationTypes
  <2>3. CASE Outside /\ UNCHANGED <<station, job, outcome, stage>>
    BY <1>0, <1>1, <1>3, <2>3, OutsideMoves
  <2>4. CASE WorkerDies
    <3>1. ~At("idle") /\ UNCHANGED questions /\ End("stuck")
      BY <2>4 DEF WorkerDies, Raise
    <3>2. UNCHANGED station \/ LetLoose(job.run) \/ LeaveEdits(job.run)
      BY <2>4 DEF WorkerDies
    <3> QED
      BY <1>0, <1>1, <1>2, <3>1, <3>2, StationTypes, Ended
  <2>5. CASE MonitorDies
    <3>1. StationTypeOK'
      BY <1>0, <2>5 DEF MonitorDies, StationTypeOK, record, tree, leavings, histories
    <3> QED
      BY <1>2, <1>3, <2>5, <3>1 DEF MonitorDies
  <2> QED
    BY <2>1, <2>2, <2>3, <2>4, <2>5, StepKinds
<1> QED
  BY <1>0, <1>4, HistoryTypes, StepKinds DEF TypeOK, JobOK, JobType

-----------------------------------------------------------------------------
(* The row and the machine *)

\* Only where it boots does the worker meet the row or the machine.
LEMMA OtherMoves ==
  ASSUME TypeOK, (\E r \in Runs : TakeRun(r)) \/ Talks \/ Builds
  PROVE  /\ row' = row /\ monitor' = monitor /\ machine' = machine /\ awake' = awake
         /\ bootLost' = bootLost
         /\ ~At("boot") /\ ~At("booted") /\ job'.step \notin {"boot", "booted"}
<1>1. ~At("boot") /\ ~At("booted")
  BY DEF TakeRun, Talks, Gate, Mark, Touch, Probe, Test, WritePrompt, AgentAsks, AwaitTool, AwaitTask,
     Count, Verdict, Builds, Sync, StartCoding, AgentCommits, AgentExits, AgentTimesOut, At
<1>2. row' = row /\ monitor' = monitor /\ machine' = machine /\ awake' = awake /\ bootLost' = bootLost
  <2> USE DEF station, record, tree, leavings, histories, stage
  <2>1. CASE \E r \in Runs : TakeRun(r)
    BY <2>1 DEF TakeRun
  <2>2. CASE Talks
    BY <2>2 DEF Talks, Gate, Mark, Touch, TouchActivity, Probe, Test, WritePrompt, AgentAsks, AwaitTool,
       AwaitTask, Count, Verdict
  <2>3. CASE Builds
    BY <2>3 DEF Builds, Sync, LocalSync, EnterRepo, CheckoutMain, CheckoutBranch, StartCoding,
       AgentCommits, Commit, AgentExits, LeaveEdits, AgentTimesOut, LetLoose
  <2> QED
    BY <2>1, <2>2, <2>3
<1>3. job'.step \notin {"boot", "booted"}
  <2>1. CASE \E r \in Runs : TakeRun(r)
    BY <2>1, TakenUp
  <2>2. CASE Talks \/ Builds
    <3>1. ~At("idle")
      BY <2>2, Busy
    <3>2. \A to \in Step \ {"idle", "boot", "booted"} : Goto(to) => job'.step \notin {"boot", "booted"}
      BY <3>1, Gone
    <3>3. \A status \in {"passed", "failed"} : TestsGive(status) => job'.step \notin {"boot", "booted"}
      BY <3>1, Tested
    <3>4. \A result \in {"failed", "empty", "commits"} :
            CodingGives(result) => job'.step \notin {"boot", "booted"}
      BY <3>1, Given
    <3>5. End("failed") \/ End("report_ready") \/ Raise => job'.step \notin {"boot", "booted"}
      BY <3>1, Ended DEF Raise
    <3>6. Call("touch", "heal") \/ Call("ensure", "coding") => job'.step \notin {"boot", "booted"}
      BY <3>1, Called DEF Step, Caller
    <3>7. UNCHANGED job => job'.step \notin {"boot", "booted"}
      BY <1>1 DEF At
    <3>8. Mark => job'.step \notin {"boot", "booted"}
      BY Marked
    <3>9. /\ {"touch", "mark", "enter", "test", "agent", "await_tool", "await_task"} \subseteq Step
          /\ {"write", "probe", "main", "branch", "count"} \subseteq Step
      BY DEF Step
    <3>10. CASE Talks
      BY <3>2, <3>3, <3>4, <3>5, <3>6, <3>8, <3>9, <3>10 DEF Talks, Gate, Touch, Probe, Test,
         WritePrompt, AgentAsks, AwaitTool, AwaitTask, Count, Verdict
    <3>11. CASE Builds
      BY <3>2, <3>4, <3>5, <3>6, <3>7, <3>9, <3>11 DEF Builds, Sync, AfterSync, StartCoding,
         AgentCommits, AgentExits, AgentTimesOut
    <3> QED
      BY <2>2, <3>10, <3>11
  <2> QED
    BY <2>1, <2>2
<1> QED
  BY <1>1, <1>2, <1>3

LEMMA StationStep == ASSUME TypeOK, StationOK, Next PROVE StationOK'
<1> USE DEF record, tree, leavings, histories, station, stage
<1>0. /\ (Remote = "gcp" /\ row = "sleeping" /\ ~awake) => machine = "stopped"
      /\ row = "booting" => job.step \in {"boot", "booted"} \/ bootLost
      /\ monitor # "off" => row = "active"
      /\ monitor = "commit" /\ Remote = "gcp" /\ ~awake => machine = "stopped"
      /\ job.step \in {"boot", "booted"} => row = "booting"
  BY DEF StationOK, SleepingIsStopped, BootingOwned, At
<1>a. Remote' = Remote
  BY StepKinds DEF Remote
<1> SUFFICES
      /\ (Remote = "gcp" /\ row' = "sleeping" /\ ~awake') => machine' = "stopped"
      /\ row' = "booting" => job'.step \in {"boot", "booted"} \/ bootLost'
      /\ monitor' # "off" => row' = "active"
      /\ monitor' = "commit" /\ Remote = "gcp" /\ ~awake' => machine' = "stopped"
      /\ job'.step \in {"boot", "booted"} => row' = "booting"
  BY <1>a DEF StationOK, SleepingIsStopped, BootingOwned, At
<1>1. CASE (\E r \in Runs : TakeRun(r)) \/ Talks \/ Builds
  BY <1>0, <1>1, OtherMoves DEF At
<1>2. CASE Ensure
  <2>1. ~At("idle") /\ job.step = "ensure" /\ bootLost' = bootLost
    BY <1>2 DEF Ensure, At
  <2>2. CASE BeginBoot /\ Goto("boot")
    BY <1>0, <2>1, <2>2, Gone DEF BeginBoot, NeedsBoot, Step
  <2>3. CASE AlreadyReady /\ Goto(AfterEnsure)
    <3>1. AfterEnsure \in {"enter", "touch"}
      BY DEF AfterEnsure
    <3>2. job'.step \in {"enter", "touch"}
      BY <2>1, <2>3, <3>1, Gone DEF Step
    <3> QED
      BY <1>0, <2>1, <2>3, <3>2 DEF AlreadyReady
  <2> QED
    BY <1>2, <2>2, <2>3 DEF Ensure
<1>3. CASE Boot
  <2>1. ~At("idle") /\ job.step \in {"boot", "booted"} /\ bootLost' = bootLost
    BY <1>3 DEF Boot, At
  <2>2. CASE StartMachine /\ Goto("booted")
    BY <1>0, <2>1, <2>2, Gone DEF StartMachine, Step
  <2>3. CASE CommitActive /\ Goto(AfterEnsure)
    <3>1. AfterEnsure \in {"enter", "touch"}
      BY DEF AfterEnsure
    <3>2. job'.step \in {"enter", "touch"}
      BY <2>1, <2>3, <3>1, Gone DEF Step
    <3> QED
      BY <1>0, <2>1, <2>3, <3>2 DEF CommitActive
  <2>4. CASE BootFails /\ Raise
    BY <1>0, <2>1, <2>4, Ended DEF BootFails, Raise
  <2> QED
    BY <1>3, <2>2, <2>3, <2>4 DEF Boot
<1>4. CASE World /\ UNCHANGED <<questions, job, outcome, stage>>
  BY <1>0, <1>4 DEF World, Monitor, SelectIdle, StopMachine, CommitSleep, PowerOff, HalfHourPasses,
     ProviderStops, Commit
<1>5. CASE Outside /\ UNCHANGED <<station, job, outcome, stage>>
  BY <1>0, <1>5
<1>6. CASE WorkerDies
  <2>1. /\ End("stuck") /\ ~At("idle") /\ bootLost' = (bootLost \/ At("boot") \/ At("booted"))
        /\ row' = row /\ monitor' = monitor /\ machine' = machine /\ awake' = awake
    BY <1>6 DEF WorkerDies, Raise, LetLoose, LeaveEdits
  <2>2. job'.step = "idle"
    BY <2>1, Ended
  <2>3. At("boot") \/ At("booted") \/ bootLost => bootLost'
    BY <2>1
  <2> HIDE DEF record, tree, leavings, histories, station, stage
  <2> QED
    BY <1>0, <2>1, <2>2, <2>3 DEF At
<1>7. CASE MonitorDies
  BY <1>0, <1>7 DEF MonitorDies
<1> QED
  BY <1>1, <1>2, <1>3, <1>4, <1>5, <1>6, <1>7, StepKinds

-----------------------------------------------------------------------------
(* The checkout *)

Grown == \A b \in Branches : work[b] \subseteq work'[b]

LEMMA TreeTyped ==
  ASSUME TypeOK
  PROVE  /\ work \in [Branches -> SUBSET Runs] /\ head \in Branches /\ local \in SUBSET Branches
         /\ dirt \in SUBSET Runs /\ loose \in SUBSET Runs /\ slipped \in BOOLEAN
         /\ Main \in Branches
         /\ \A r \in Runs : Branch(r) \in Branches /\ Branch(r) # Main
  BY BranchTyped, MainAssumption DEF TypeOK, StationTypeOK, Branches

LEMMA TreeStays ==
  ASSUME TreeOK, deploy' = deploy, head' = head, work' = work, local' = local, slipped => slipped',
         ~slipped' => loose' \subseteq loose /\ dirt' \subseteq dirt
  PROVE  TreeOK' /\ Grown
  BY DEF TreeOK, RunsDoNotMix, Grown, Branch

LEMMA Committed ==
  ASSUME TypeOK, TreeOK, deploy' = deploy, NEW r \in Runs, Commit(r), ~slipped => head = Branch(r)
  PROVE  TreeOK' /\ Grown /\ head' = head /\ slipped' = slipped /\ machine' = machine
<1>1. /\ work' = [work EXCEPT ![head] = work[head] \cup {r} \cup dirt] /\ dirt' = {}
      /\ head' = head /\ local' = local /\ loose' = loose /\ slipped' = slipped /\ machine' = machine
  BY DEF Commit, record, histories
<1>2. \A b \in Branches : work'[b] = IF b = head THEN work[b] \cup {r} \cup dirt ELSE work[b]
  BY <1>1, TreeTyped
<1>3. Grown
  BY <1>2 DEF Grown
<1>4. \A b \in Branches \ local : work'[b] = {}
  BY <1>2 DEF TreeOK
<1>5. ~slipped => \A b \in Branches : \A s \in work'[b] : b = Branch(s)
  BY <1>2, TreeTyped DEF TreeOK, RunsDoNotMix
<1> QED
  BY <1>1, <1>3, <1>4, <1>5 DEF TreeOK, RunsDoNotMix, Branch

\* A new branch starts with the work of the branch it is made from.
LEMMA Branched ==
  ASSUME TypeOK, TreeOK, deploy' = deploy, NEW b \in Branches, NEW base \in Branches,
         ~slipped' => base = Main, BranchFrom(base, b),
         slipped => slipped', loose' = loose, dirt' = dirt
  PROVE  TreeOK' /\ Grown
<1>1. /\ head' = b /\ local' = local \cup {b}
      /\ \A a \in Branches : work'[a] = IF a = b /\ b \notin local THEN work[base] ELSE work[a]
  BY TreeTyped DEF BranchFrom
<1>2. Grown
  BY <1>1 DEF Grown, TreeOK
<1>3. \A a \in Branches \ local' : work'[a] = {}
  BY <1>1 DEF TreeOK
<1>4. ~slipped' => \A a \in Branches : \A s \in work'[a] : a = Branch(s)
  <2>1. ~slipped' => work[base] = {}
    BY TreeTyped DEF TreeOK, RunsDoNotMix
  <2> QED
    BY <1>1, <2>1, TreeTyped DEF TreeOK, RunsDoNotMix
<1> QED
  BY <1>1, <1>2, <1>3, <1>4 DEF TreeOK, RunsDoNotMix, Branch

LEMMA SyncsTree ==
  ASSUME TypeOK, TreeOK, deploy' = deploy
  PROVE  /\ \A b \in Branches : LocalSync(b) => TreeOK' /\ Grown /\ (~slipped' => head' = b)
         /\ \A ok \in BOOLEAN : EnterRepo(ok) => TreeOK' /\ Grown
         /\ CheckoutMain => TreeOK' /\ Grown /\ (Up' /\ ~slipped' => head' = Main)
         /\ \A b \in Branches : CheckoutBranch(b) /\ (Up /\ ~slipped => head = Main) =>
              TreeOK' /\ Grown /\ (Up' /\ ~slipped' => head' = b)
<1> USE DEF record, tree, leavings, histories
<1>0. Main \in Branches /\ Main \in local /\ head \in Branches
  BY TreeTyped DEF TreeOK
<1>1. ASSUME NEW b \in Branches, LocalSync(b) PROVE TreeOK' /\ Grown /\ (~slipped' => head' = b)
  <2>0. loose' = loose /\ dirt' = dirt
    BY <1>1 DEF LocalSync
  <2>1. CASE BranchFrom(Main, b) /\ UNCHANGED slipped
    BY <1>0, <2>0, <2>1, Branched DEF BranchFrom
  <2>2. ASSUME Slip, NEW base \in {head, Main}, BranchFrom(base, b) PROVE TreeOK' /\ Grown /\ slipped'
    BY <1>0, <2>0, <2>2, Branched DEF Slip
  <2>3. ASSUME Slip, NEW base \in {head, Main}, head' = base, UNCHANGED <<cloned, work, local>>
        PROVE  TreeOK' /\ Grown /\ slipped'
    <3>1. slipped' /\ work' = work /\ local' = local /\ head' \in local
      BY <2>3 DEF Slip, TreeOK
    <3> QED
      BY <3>1 DEF TreeOK, RunsDoNotMix, Grown
  <2> QED
    BY <1>1, <2>1, <2>2, <2>3 DEF LocalSync
<1>2. ASSUME NEW ok \in BOOLEAN, EnterRepo(ok) PROVE TreeOK' /\ Grown
  BY <1>2, TreeStays DEF EnterRepo
<1>3. ASSUME CheckoutMain PROVE TreeOK' /\ Grown /\ (Up' /\ ~slipped' => head' = Main)
  <2>1. /\ work' = work /\ local' = local /\ loose' = loose /\ dirt' = dirt /\ machine' = machine
        /\ head' \in {head, Main} /\ (slipped => slipped') /\ (Up /\ ~slipped' => head' = Main)
    BY <1>3 DEF CheckoutMain, Slip
  <2>2. TreeOK' /\ Grown
    BY <2>1 DEF TreeOK, RunsDoNotMix, Grown, Branch
  <2>3. Up' = Up
    BY <2>1 DEF Up, Remote
  <2> QED
    BY <2>1, <2>2, <2>3
<1>4. ASSUME NEW b \in Branches, CheckoutBranch(b), Up /\ ~slipped => head = Main
      PROVE  TreeOK' /\ Grown /\ (Up' /\ ~slipped' => head' = b)
  <2>1. machine' = machine /\ loose' = loose /\ dirt' = dirt
    BY <1>4 DEF CheckoutBranch
  <2>2. Up' = Up
    BY <2>1 DEF Up, Remote
  <2>3. CASE Up /\ BranchFrom(head, b) /\ UNCHANGED slipped
    BY <1>0, <1>4, <2>1, <2>3, Branched DEF BranchFrom
  <2>4. CASE Up /\ Slip /\ UNCHANGED tree
    BY <2>1, <2>4, TreeStays DEF Slip
  <2>5. CASE ~Up /\ UNCHANGED <<tree, slipped>>
    BY <2>1, <2>2, <2>5, TreeStays
  <2> QED
    BY <1>4, <2>3, <2>4, <2>5 DEF CheckoutBranch
<1> QED
  BY <1>1, <1>2, <1>3, <1>4

\* Where the worker goes next, as far as the checkout and the executor matter.
LEMMA TalksTo ==
  ASSUME TypeOK, Talks
  PROVE  /\ job'.step \notin {"branch", "write", "count"}
         /\ job'.call = "coding" => job.call = "coding"
         /\ job'.step \in {"agent", "await_tool"} =>
              job.step \in {"write", "agent", "await_tool"} /\ job'.run = job.run
         /\ job'.step = "await_task" => job.step = "await_task"
<1>1. ~At("idle")
  BY Busy
<1> DEFINE Away == /\ job'.step \in Step \ {"branch", "write", "count", "agent", "await_tool", "await_task"}
                   /\ job'.call = "coding" => job.call = "coding"
<1>2. \A to \in {"touch", "mark", "enter", "test"} : Goto(to) => Away
  BY <1>1, Gone DEF Step
<1>3. \A status \in {"passed", "failed"} : TestsGive(status) => Away
  BY <1>1, Tested DEF Step
<1>4. \A result \in {"failed", "empty", "commits"} : CodingGives(result) => Away
  BY <1>1, Given DEF Step
<1>5. End("failed") \/ End("report_ready") \/ Raise => Away
  BY <1>1, Ended DEF Raise, Step
<1>6. Call("touch", "heal") => Away
  BY <1>1, Called DEF Step, Caller
<1>7. Mark => Away
  BY Marked DEF Step
<1>8. CASE Gate \/ Mark \/ Touch \/ Probe \/ Test \/ Count \/ Verdict
  <2>1. Away
    BY <1>2, <1>3, <1>4, <1>5, <1>6, <1>7, <1>8 DEF Gate, Touch, Probe, Test, Count, Verdict
  <2> QED
    BY <2>1
<1>9. CASE WritePrompt \/ AgentAsks \/ AwaitTool
  <2>1. job.step \in {"write", "agent", "await_tool"}
    BY <1>9 DEF WritePrompt, AgentAsks, AwaitTool, At
  <2>2. \A to \in {"agent", "await_tool"} : Goto(to) =>
          job'.step = to /\ job'.run = job.run /\ job'.call = job.call
    BY <1>1, Gone DEF Step
  <2>3. Away \/ Goto("agent") \/ Goto("await_tool")
    BY <1>4, <1>5, <1>9 DEF WritePrompt, AgentAsks, AwaitTool
  <2> QED
    BY <2>1, <2>2, <2>3
<1>10. CASE AwaitTask
  <2>1. Goto("await_task") => job'.step = "await_task" /\ job'.call = job.call
    BY <1>1, Gone DEF Step
  <2>2. Away \/ Goto("await_task")
    BY <1>4, <1>10 DEF AwaitTask
  <2> QED
    BY <1>10, <2>1, <2>2 DEF AwaitTask, At
<1> QED
  BY <1>8, <1>9, <1>10 DEF Talks

LEMMA BuildsTo ==
  ASSUME TypeOK, Builds
  PROVE  \/ job' = job /\ AgentCommits
         \/ /\ job'.step \in Step \ {"branch", "write", "count", "agent", "await_tool", "await_task"}
            /\ job'.call = "coding" => job.call = "coding" \/ Select = "cloud"
         \/ /\ job'.run = job.run /\ job'.call = job.call
            /\ \/ job'.step = "branch" /\ CheckoutMain
               \/ /\ job'.step = "write" /\ job.call = "coding"
                  /\ LocalSync(Branch(job.run)) \/ (At("branch") /\ CheckoutBranch(Branch(job.run)))
               \/ job'.step = "agent" /\ deploy.adapter # "extension" /\ LocalSync(Branch(job.run))
               \/ job'.step = "await_task" /\ deploy.adapter = "extension" /\ UNCHANGED station
               \/ job'.step = "count" /\ At("agent") /\ (UNCHANGED station \/ LeaveEdits(job.run))
<1>1. ~At("idle")
  BY Busy
<1> DEFINE Away == /\ job'.step \in Step \ {"branch", "write", "count", "agent", "await_tool", "await_task"}
                   /\ job'.call = "coding" => job.call = "coding" \/ Select = "cloud"
           Reaches(to) == job'.step = to /\ job'.run = job.run /\ job'.call = job.call
<1>2. \A to \in {"main", "probe"} : Goto(to) => Away
  BY <1>1, Gone DEF Step
<1>3. \A to \in {"branch", "write", "agent", "await_task", "count"} : Goto(to) => Reaches(to)
  BY <1>1, Gone DEF Step
<1>4. CodingGives("failed") => Away
  BY <1>1, Given DEF Step
<1>5. End("failed") \/ Raise => Away
  BY <1>1, Ended DEF Raise, Step
<1>6. Select = "cloud" /\ Call("ensure", "coding") => Away
  BY <1>1, Called DEF Step, Caller
<1> HIDE DEF Away, Reaches
<1>7. CASE Sync
  <2>1. AfterSync = (IF job.call = "coding" THEN "write" ELSE "probe")
    BY DEF AfterSync
  <2>2. job.call = "coding" => SyncBranch = Branch(job.run)
    BY DEF SyncBranch
  <2>3. \/ Away
        \/ Reaches("branch") /\ CheckoutMain
        \/ /\ Reaches("write") /\ job.call = "coding"
           /\ LocalSync(Branch(job.run)) \/ (At("branch") /\ CheckoutBranch(Branch(job.run)))
    BY <1>2, <1>3, <1>4, <1>7, <2>1, <2>2 DEF Sync
  <2> QED
    BY <2>3 DEF Away, Reaches
<1>8. CASE StartCoding
  <2>1. \/ Away
        \/ Reaches("agent") /\ deploy.adapter # "extension" /\ LocalSync(Branch(job.run))
        \/ Reaches("await_task") /\ deploy.adapter = "extension" /\ UNCHANGED station
    BY <1>3, <1>4, <1>5, <1>6, <1>8 DEF StartCoding
  <2> QED
    BY <2>1 DEF Away, Reaches
<1>9. CASE AgentCommits
  BY <1>9 DEF AgentCommits
<1>10. CASE AgentExits \/ AgentTimesOut
  <2>1. Away \/ (Reaches("count") /\ At("agent") /\ (UNCHANGED station \/ LeaveEdits(job.run)))
    BY <1>3, <1>4, <1>10 DEF AgentExits, AgentTimesOut
  <2> QED
    BY <2>1 DEF Away, Reaches
<1> QED
  BY <1>7, <1>8, <1>9, <1>10 DEF Builds

LEMMA BootsTo ==
  ASSUME TypeOK, Ensure \/ Boot
  PROVE  /\ job'.step \in {"boot", "booted", "enter", "touch", "idle"}
         /\ job'.call = "coding" => job.call = "coding"
<1>1. ~At("idle")
  BY Busy
<1>2. \A to \in {"boot", "booted", "enter", "touch"} : Goto(to) => job'.step = to /\ job'.call = job.call
  BY <1>1, Gone DEF Step
<1>3. Raise => job'.step = "idle" /\ job'.call = "heal"
  BY <1>1, Ended DEF Raise
<1> QED
  BY <1>2, <1>3 DEF Ensure, Boot, AfterEnsure

LEMMA RouteStep == ASSUME TypeOK, RouteOK, Next PROVE RouteOK'
<1>0. deploy' = deploy /\ Select' = Select
  BY StepKinds DEF Select
<1>1. UNCHANGED job => RouteOK'
  BY <1>0 DEF RouteOK, At
<1>2. CASE \E r \in Runs : TakeRun(r)
  BY <1>2, TakenUp DEF RouteOK, At
<1>3. CASE Talks
  BY <1>0, <1>3, TalksTo DEF RouteOK, At
<1>4. CASE Builds
  BY <1>0, <1>1, <1>4, BuildsTo DEF RouteOK, At
<1>5. CASE Ensure \/ Boot
  BY <1>0, <1>5, BootsTo DEF RouteOK, At
<1>6. CASE WorkerDies
  BY <1>6, Busy, Ended DEF WorkerDies, Raise, RouteOK, At
<1>7. CASE MonitorDies
  BY <1>1, <1>7 DEF MonitorDies
<1> QED
  BY <1>1, <1>2, <1>3, <1>4, <1>5, <1>6, <1>7, StepKinds

\* Every step, by whether it writes to the checkout, to git's histories or to
\* neither.
LEMMA TreeStep ==
  ASSUME TypeOK, TreeOK, HeadOK, Next
  PROVE  TreeOK' /\ HeadOK' /\ Grown
<1> USE DEF record, tree, leavings, histories, station
<1>0. deploy' = deploy /\ (~At("idle") => job.run \in Runs) /\ slipped \in BOOLEAN
      /\ \A r \in Runs : Branch(r) \in Branches /\ Branch(r)' = Branch(r)
  BY StepKinds, JobTyped, TreeTyped DEF Branch
<1> DEFINE Still == /\ head' = head /\ work' = work /\ local' = local
                    /\ slipped => slipped'
                    /\ ~slipped' => loose' \subseteq loose /\ dirt' \subseteq dirt
           Nowhere == job'.step \notin {"branch", "write", "agent", "await_tool"}
<1>1. Still => TreeOK' /\ Grown
  BY <1>0, TreeStays
<1>2. Nowhere => HeadOK'
  BY DEF HeadOK, At
<1>3. ASSUME Still, machine' \in {machine, "stopped"}, job' = job PROVE HeadOK'
  BY <1>0, <1>3 DEF HeadOK, Up, Remote, At
<1>4. CASE \E r \in Runs : TakeRun(r)
  <2>1. Still
    BY <1>4 DEF TakeRun
  <2>2. Nowhere
    BY <1>4, TakenUp
  <2> QED
    BY <1>1, <1>2, <2>1, <2>2
<1>5. CASE Talks
  <2>1. Still /\ machine' = machine
    BY <1>5 DEF Talks, Gate, Mark, Touch, TouchActivity, Probe, Test, WritePrompt, AgentAsks, AwaitTool,
       AwaitTask, Count, Verdict
  <2>2. HeadOK'
    BY <1>0, <1>5, <2>1, TalksTo DEF HeadOK, Up, Remote, At
  <2> QED
    BY <1>1, <2>1, <2>2
<1>6. CASE AgentCommits
  <2>1. Commit(job.run) /\ job' = job /\ At("agent") /\ Up
    BY <1>6 DEF AgentCommits, Commit
  <2>2. ~slipped => head = Branch(job.run)
    BY <2>1 DEF HeadOK, At
  <2>3. TreeOK' /\ Grown /\ head' = head /\ slipped' = slipped /\ machine' = machine
    BY <1>0, <2>1, <2>2, Committed DEF At
  <2>4. HeadOK'
    BY <1>0, <2>1, <2>3 DEF HeadOK, Up, Remote, At
  <2> QED
    BY <2>3, <2>4
<1>7. CASE Sync
  <2>1. ~At("idle") /\ Branch(job.run) \in Branches /\ Main \in Branches
    BY <1>0, <1>7, Busy, TreeTyped DEF Builds
  <2>2. SyncBranch \in Branches /\ (At("branch") /\ Up /\ ~slipped => head = Main)
    BY <2>1 DEF SyncBranch, HeadOK
  <2>3. TreeOK' /\ Grown
    BY <1>0, <1>7, <2>1, <2>2, SyncsTree DEF Sync
  <2>4. HeadOK'
    <3>1. CASE job'.step = "branch" /\ CheckoutMain
      BY <1>0, <3>1, SyncsTree DEF HeadOK, At
    <3>2. CASE job'.step \in {"write", "agent"} /\ job'.run = job.run /\ LocalSync(Branch(job.run))
      BY <1>0, <2>1, <3>2, SyncsTree DEF HeadOK, At
    <3>3. CASE job'.step = "write" /\ job'.run = job.run /\ At("branch") /\ CheckoutBranch(Branch(job.run))
      BY <1>0, <2>1, <2>2, <3>3, SyncsTree DEF HeadOK, At
    <3>4. ~AgentCommits
      BY <1>7 DEF Sync, AgentCommits, At
    <3> QED
      BY <1>2, <1>7, <3>1, <3>2, <3>3, <3>4, BuildsTo DEF Builds
  <2> QED
    BY <2>3, <2>4
<1>8. CASE StartCoding
  <2>1. ~At("idle") /\ Branch(job.run) \in Branches /\ At("select")
    BY <1>0, <1>8 DEF StartCoding, At
  <2>2. CASE LocalSync(Branch(job.run)) /\ Goto("agent")
    <3>1. TreeOK' /\ Grown /\ (~slipped' => head' = Branch(job.run))
      BY <1>0, <2>1, <2>2, SyncsTree
    <3>2. job'.step = "agent" /\ job'.run = job.run
      BY <2>1, <2>2, Gone DEF Step
    <3> QED
      BY <1>0, <3>1, <3>2 DEF HeadOK, At, Branch
  <2>3. CASE ~(LocalSync(Branch(job.run)) /\ Goto("agent"))
    <3>1. Still
      BY <1>8, <2>3 DEF StartCoding
    <3>2. \A to \in {"await_task"} : Goto(to) => Nowhere
      BY <2>1, Gone DEF Step
    <3>3. End("failed") \/ Raise \/ CodingGives("failed") \/ Call("ensure", "coding") => Nowhere
      BY <2>1, Ended, Given, Called DEF Raise, Step, Caller
    <3>4. Nowhere
      BY <1>8, <2>3, <3>2, <3>3 DEF StartCoding
    <3> QED
      BY <1>1, <1>2, <3>1, <3>4
  <2> QED
    BY <2>2, <2>3
<1>9. CASE AgentExits \/ AgentTimesOut
  <2>1. Still /\ ~At("idle")
    BY <1>9 DEF AgentExits, AgentTimesOut, LeaveEdits, LetLoose, At
  <2>2. Goto("count") \/ CodingGives("failed") => Nowhere
    BY <2>1, Gone, Given DEF Step
  <2>3. Nowhere
    BY <1>9, <2>2 DEF AgentExits, AgentTimesOut
  <2> QED
    BY <1>1, <1>2, <2>1, <2>3
<1>10. CASE Ensure \/ Boot
  <2>1. Still
    BY <1>10 DEF Ensure, Boot, BeginBoot, AlreadyReady, StartMachine, CommitActive, BootFails
  <2> QED
    BY <1>1, <1>2, <1>10, <2>1, BootsTo
<1>11. CASE World /\ UNCHANGED <<questions, job, outcome, stage>>
  <2>1. CASE Monitor \/ HalfHourPasses \/ ProviderStops
    <3>1. Still /\ machine' \in {machine, "stopped"}
      BY <2>1 DEF Monitor, SelectIdle, StopMachine, CommitSleep, PowerOff, HalfHourPasses, ProviderStops
    <3> QED
      BY <1>1, <1>3, <1>11, <3>1
  <2>2. ASSUME NEW r \in loose, Commit(r) PROVE TreeOK' /\ Grown /\ HeadOK'
    <3>1. slipped /\ r \in Runs
      BY <2>2, TreeTyped DEF TreeOK
    <3>2. TreeOK' /\ Grown /\ slipped' = slipped
      BY <1>0, <2>2, <3>1, Committed
    <3> QED
      BY <3>1, <3>2 DEF HeadOK
  <2> QED
    BY <1>11, <2>1, <2>2 DEF World
<1>12. CASE Outside /\ UNCHANGED <<station, job, outcome, stage>>
  BY <1>1, <1>3, <1>12
<1>13. CASE WorkerDies
  <2>1. Still /\ End("stuck") /\ ~At("idle")
    BY <1>13 DEF WorkerDies, Raise, LetLoose, LeaveEdits
  <2>2. Nowhere
    BY <2>1, Ended
  <2> QED
    BY <1>1, <1>2, <2>1, <2>2
<1>14. CASE MonitorDies
  <2>1. Still /\ machine' = machine /\ job' = job
    BY <1>14 DEF MonitorDies
  <2> QED
    BY <1>1, <1>3, <2>1
<1> QED
  BY <1>4, <1>5, <1>6, <1>7, <1>8, <1>9, <1>10, <1>11, <1>12, <1>13, <1>14, StepKinds DEF Builds

-----------------------------------------------------------------------------
(* Answers and results *)

\* What the worker does to its questions: it asks, and it looks.
LEMMA Asks ==
  ASSUME Next
  PROVE  \/ UNCHANGED questions
         \/ Outside /\ UNCHANGED <<station, job, outcome, stage>>
         \/ Enqueue(job.run) \/ (\E q \in Questions : AskTool(q) /\ At("agent"))
         \/ \E answer \in {"wait", "yes", "no"} :
              PollTask(job.run, answer) \/ (PollTool(answer) /\ At("await_tool"))
<1>1. CASE Talks
  BY <1>1 DEF Talks, Gate, Mark, Touch, Probe, Test, WritePrompt, AgentAsks, AwaitTool, AwaitTask,
     Count, Verdict
<1>2. CASE Builds
  BY <1>2 DEF Builds, Sync, StartCoding, AgentCommits, AgentExits, AgentTimesOut
<1>3. CASE (\E r \in Runs : TakeRun(r)) \/ Ensure \/ Boot \/ WorkerDies \/ MonitorDies
  BY <1>3 DEF TakeRun, Ensure, Boot, WorkerDies, MonitorDies
<1> QED
  BY <1>1, <1>2, <1>3, StepKinds

\* The approval handler waits for the question it asked.
LEMMA AskingStep == ASSUME TypeOK, AskingOK, Next PROVE AskingOK'
<1>1. UNCHANGED <<job, asking>> => AskingOK'
  BY DEF AskingOK, At
<1>2. job'.step # "await_tool" => AskingOK'
  BY DEF AskingOK, At
<1>3. CASE Talks
  <2>1. ~At("idle")
    BY <1>3, Busy
  <2>2. CASE AgentAsks
    BY <2>2 DEF AgentAsks, AskTool, AskingOK
  <2>3. CASE AwaitTool
    <3>1. PICK answer \in {"wait", "yes", "no"} :
            PollTool(answer) /\ Goto(IF answer = "wait" THEN "await_tool" ELSE "agent")
      BY <2>3 DEF AwaitTool
    <3>2. CASE answer = "wait"
      BY <2>3, <3>1, <3>2 DEF AwaitTool, PollTool, AskingOK
    <3>3. CASE answer # "wait"
      BY <2>1, <3>1, <3>3, <1>2, Gone DEF Step
    <3> QED
      BY <3>2, <3>3
  <2>4. CASE WritePrompt \/ AwaitTask
    <3>1. \A to \in {"agent", "await_task"} : Goto(to) => job'.step = to
      BY <2>1, Gone DEF Step
    <3>2. \A result \in {"failed", "empty", "commits"} : CodingGives(result) => job'.step # "await_tool"
      BY <2>1, Given
    <3>3. Raise => job'.step # "await_tool"
      BY <2>1, Ended DEF Raise
    <3>4. job'.step # "await_tool"
      BY <2>4, <3>1, <3>2, <3>3 DEF WritePrompt, AwaitTask
    <3> QED
      BY <1>2, <3>4
  <2>5. CASE Gate \/ Mark \/ Touch \/ Probe \/ Test \/ Count \/ Verdict
    <3>1. ~(job.step \in {"write", "agent", "await_tool"})
      BY <2>5 DEF Gate, Mark, Touch, Probe, Test, Count, Verdict, At
    <3> QED
      BY <1>2, <1>3, <3>1, TalksTo
  <2> QED
    BY <1>3, <2>2, <2>3, <2>4, <2>5 DEF Talks
<1>4. CASE Builds
  <2>1. job' = job /\ AgentCommits => job'.step # "await_tool"
    BY DEF AgentCommits, At
  <2> QED
    BY <1>2, <1>4, <2>1, BuildsTo
<1>5. CASE Ensure \/ Boot
  BY <1>2, <1>5, BootsTo
<1>6. CASE \E r \in Runs : TakeRun(r)
  BY <1>2, <1>6, TakenUp
<1>7. CASE World /\ UNCHANGED <<questions, job, outcome, stage>>
  BY <1>1, <1>7 DEF questions, toolReviews
<1>8. CASE Outside /\ UNCHANGED <<station, job, outcome, stage>>
  <2>1. asking' = asking
    BY <1>8 DEF Outside, AnswerTool, SweepReads, SweepWrites, PollPending, ReadClaim, CommitClaim,
       ExecuteAgent, Report, CloseEditor, toolReviews
  <2> QED
    BY <1>1, <1>8, <2>1
<1>9. CASE WorkerDies
  BY <1>2, <1>9, Busy, Ended DEF WorkerDies, Raise
<1>10. CASE MonitorDies
  BY <1>1, <1>10 DEF MonitorDies, questions, toolReviews
<1> QED
  BY <1>3, <1>4, <1>5, <1>6, <1>7, <1>8, <1>9, <1>10, StepKinds

LEMMA AnswersStep == ASSUME TypeOK, AnswersOK, Next PROVE AnswersOK' /\ built \subseteq built'
<1>0. /\ QuestionsTypeOK /\ CompletedWasBuilt /\ LoopsOK /\ AskingOK /\ deploy' = deploy
      /\ \A q \in Questions : tool[q] = "approved" => q \in granted
  BY StepKinds DEF TypeOK, AnswersOK
<1>1. /\ CompletedWasBuilt' /\ LoopsOK' /\ built \subseteq built' /\ granted \subseteq granted'
      /\ \A q \in Questions : tool'[q] = "approved" => tool[q] = "approved" \/ q \in granted'
  <2> USE DEF toolReviews
  <2>1. CASE UNCHANGED questions
    BY <1>0, <2>1 DEF questions, CompletedWasBuilt, LoopsOK, AtStep
  <2>2. CASE Outside
    BY <1>0, <2>2, OutsideMoves
  <2>3. CASE Enqueue(job.run) \/ \E q \in Questions : AskTool(q)
    BY <1>0, <2>3 DEF Enqueue, AskTool, CompletedWasBuilt, LoopsOK, AtStep, QuestionsTypeOK
  <2>4. CASE \E answer \in {"wait", "yes", "no"} : PollTask(job.run, answer) \/ PollTool(answer)
    BY <1>0, <2>4 DEF PollTask, PollTool, CompletedWasBuilt, LoopsOK, AtStep
  <2> QED
    BY <2>1, <2>2, <2>3, <2>4, Asks
<1>2. ran' \subseteq granted'
  <2>1. ran \subseteq granted
    BY DEF AnswersOK
  <2>2. CASE AwaitTool
    <3>1. PICK answer \in {"wait", "yes", "no"} :
            /\ PollTool(answer)
            /\ ran' = IF answer = "yes" THEN ran \cup {asking} ELSE ran
      BY <2>2 DEF AwaitTool
    <3>2. answer = "yes" => tool[asking] = "approved"
      BY <3>1, Polled DEF PollTool
    <3>3. asking \in Questions
      BY <1>0, <2>2 DEF AwaitTool, AskingOK
    <3> QED
      BY <1>0, <1>1, <2>1, <3>1, <3>2, <3>3
  <2>3. CASE ~AwaitTool
    <3>1. ran' = ran
      <4> USE DEF stage
      <4>1. CASE Talks
        BY <2>3, <4>1 DEF Talks, Gate, Mark, Touch, Probe, Test, WritePrompt, AgentAsks, AwaitTask,
           Count, Verdict
      <4>2. CASE Builds
        BY <4>2 DEF Builds, Sync, StartCoding, AgentCommits, AgentExits, AgentTimesOut
      <4>3. CASE (\E r \in Runs : TakeRun(r)) \/ Ensure \/ Boot \/ WorkerDies \/ MonitorDies
        BY <4>3 DEF TakeRun, Ensure, Boot, WorkerDies, MonitorDies
      <4> QED
        BY <4>1, <4>2, <4>3, StepKinds
    <3> QED
      BY <1>1, <2>1, <3>1
  <2> QED
    BY <2>2, <2>3
<1> QED
  BY <1>0, <1>1, <1>2, AskingStep DEF AnswersOK

\* A result comes from a count, from an editor, or it is the one there was.
LEMMA ResultsTo ==
  ASSUME TypeOK, Next
  PROVE  /\ \/ job'.coding # "commits"
            \/ job'.coding = job.coding /\ job'.run = job.run
            \/ job'.run = job.run /\ At("count") /\ Ahead # {}
            \/ job'.run = job.run /\ At("await_task") /\ PollTask(job.run, "yes")
         /\ \A r \in Runs :
              \/ outcome'[r] # "report_ready" \/ outcome'[r] = outcome[r]
              \/ r = job.run /\ job.coding = "commits"
<1> DEFINE Same == job'.coding = job.coding /\ job'.run = job.run
           None == job'.coding # "commits"
           Out  == \A r \in Runs : outcome'[r] # "report_ready" \/ outcome'[r] = outcome[r]
<1>1. CASE \E r \in Runs : TakeRun(r)
  BY <1>1, TakenUp
<1>2. CASE Talks \/ Builds \/ Ensure \/ Boot
  <2>1. ~At("idle")
    BY <1>2, Busy
  <2>2. \A to \in Step \ {"idle"} : Goto(to) => Same /\ Out
    BY <2>1, Gone
  <2>3. \A status \in {"passed", "failed"} : TestsGive(status) => (Same \/ None) /\ Out
    BY <2>1, Tested
  <2>4. \A result \in {"failed", "empty", "commits"} :
          CodingGives(result) => job'.coding = result /\ job'.run = job.run /\ Out
    BY <2>1, Given
  <2>5. End("failed") \/ Raise => None /\ Out
    BY <2>1, Ended DEF Raise
  <2>6. Call("touch", "heal") \/ Call("ensure", "coding") => Same /\ Out
    BY <2>1, Called DEF Step, Caller
  <2>7. Mark => Same /\ Out
    BY Marked
  <2>8. End("report_ready") =>
          None /\ \A r \in Runs : outcome'[r] # "report_ready" \/ outcome'[r] = outcome[r] \/ r = job.run
    BY <2>1, Ended
  <2>a. {"touch", "mark", "enter", "test", "agent", "await_tool", "await_task", "write", "probe",
         "main", "branch", "count", "boot", "booted"} \subseteq Step \ {"idle"}
    BY DEF Step
  <2> HIDE DEF Same, None, Out
  <2>9. CASE Gate \/ Mark \/ Touch \/ Probe \/ Test \/ WritePrompt \/ AgentAsks \/ AwaitTool
    <3>1. (Same \/ None) /\ Out
      BY <2>2, <2>3, <2>4, <2>5, <2>6, <2>7, <2>9, <2>a DEF Gate, Touch, Probe, Test, WritePrompt,
         AgentAsks, AwaitTool, None
    <3> QED
      BY <3>1 DEF Same, None, Out
  <2>10. CASE AwaitTask
    <3>1. ((Same \/ None) /\ Out)
            \/ (job'.run = job.run /\ At("await_task") /\ PollTask(job.run, "yes") /\ Out)
      BY <2>2, <2>4, <2>10, <2>a DEF AwaitTask, None
    <3> QED
      BY <3>1 DEF Same, None, Out
  <2>11. CASE Count
    <3>1. (None /\ Out) \/ (job'.run = job.run /\ At("count") /\ Ahead # {} /\ Out)
      BY <2>4, <2>11 DEF Count, None
    <3> QED
      BY <3>1 DEF Same, None, Out
  <2>12. CASE Verdict
    BY <2>5, <2>8, <2>12 DEF Verdict, None, Out
  <2>13. CASE Builds \/ Ensure \/ Boot
    <3>1. UNCHANGED <<job, outcome>> => Same /\ Out
      BY DEF Same, Out
    <3>2. (Same \/ None) /\ Out
      BY <2>2, <2>4, <2>5, <2>6, <2>13, <2>a, <3>1 DEF Builds, Sync, AfterSync, StartCoding,
         AgentCommits, AgentExits, AgentTimesOut, Ensure, Boot, AfterEnsure, None
    <3> QED
      BY <3>2 DEF Same, None, Out
  <2> QED
    BY <1>2, <2>9, <2>10, <2>11, <2>12, <2>13 DEF Talks
<1>3. CASE WorkerDies
  BY <1>3, Busy, Ended DEF WorkerDies, Raise
<1>4. CASE MonitorDies
  BY <1>4 DEF MonitorDies
<1> QED
  BY <1>1, <1>2, <1>3, <1>4, StepKinds

LEMMA ResultsStep ==
  ASSUME TypeOK, AnswersOK, RouteOK, ResultsOK, Grown, built \subseteq built', Next
  PROVE  ResultsOK'
<1>0. /\ deploy' = deploy /\ Select' = Select
      /\ ~At("idle") => job.run \in Runs
      /\ \A r \in Runs : Branch(r)' = Branch(r) /\ work[Branch(r)] \subseteq work'[Branch(r)]
  BY StepKinds, JobTyped, TreeTyped DEF Select, Grown, Branch
<1>1. \A r \in Runs : Vouched(r) => Vouched(r)'
  BY <1>0 DEF Vouched
<1>2. ASSUME At("count"), Ahead # {} PROVE job.run \in Runs /\ Vouched(job.run)
  BY <1>0, <1>2 DEF Ahead, Vouched, RouteOK, At, Select
<1>3. ASSUME At("await_task"), PollTask(job.run, "yes") PROVE job.run \in Runs /\ Vouched(job.run)
  <2>1. task[job.run] = "completed"
    BY <1>3, Polled DEF PollTask
  <2>2. job.run \in Runs
    BY <1>0, <1>3 DEF At
  <2> QED
    BY <1>3, <2>1, <2>2 DEF Vouched, RouteOK, AnswersOK, CompletedWasBuilt
<1>4. ASSUME job'.coding = "commits" PROVE job'.run \in Runs /\ Vouched(job.run) /\ job'.run = job.run
  BY <1>2, <1>3, <1>4, ResultsTo DEF ResultsOK
<1>5. ASSUME NEW r \in Runs, outcome'[r] = "report_ready" PROVE Vouched(r)
  BY <1>5, ResultsTo DEF ResultsOK
<1>6. \A r \in Runs : r = job'.run /\ Vouched(r)' => Vouched(job.run)'
  BY DEF Vouched
<1> QED
  BY <1>1, <1>4, <1>5, <1>6 DEF ResultsOK

-----------------------------------------------------------------------------
(* The theorems *)

LEMMA InitInvariant == ASSUME Init PROVE IInv
<1> USE DEF Init, StationInit, QuestionsInit
<1>1. TypeOK
  <2>1. MaxPolls \in Nat /\ 0 \in 0..(MaxPolls - 1) /\ 0 \in 0..MaxCrashes
    BY MaxPollsAssumption, MaxCrashesAssumption
  <2>2. StationTypeOK
    BY DEF StationTypeOK, RowState, Branches
  <2>3. QuestionsTypeOK
    BY <2>1 DEF QuestionsTypeOK, TaskStatus, ToolStatus, NoLoop, Loop
  <2> QED
    BY <2>1, <2>2, <2>3 DEF TypeOK, NoJob, Step, Caller
<1>2. job.step = "idle" /\ job.call = "heal" /\ job.coding = "none" /\ row = "absent"
  BY DEF NoJob
<1>3. StationOK
  BY <1>2 DEF StationOK, SleepingIsStopped, BootingOwned, At
<1>4. TreeOK
  BY DEF TreeOK, RunsDoNotMix, Branches
<1>5. HeadOK /\ RouteOK
  BY <1>2 DEF HeadOK, RouteOK, At
<1>6. ResultsOK
  BY <1>2 DEF ResultsOK
<1>7. AnswersOK
  BY <1>2 DEF AnswersOK, CompletedWasBuilt, LoopsOK, AskingOK, At, AtStep, NoLoop
<1> QED
  BY <1>1, <1>3, <1>4, <1>5, <1>6, <1>7 DEF IInv

LEMMA Stutters == ASSUME IInv, UNCHANGED vars PROVE IInv'
<1> USE DEF vars, station, record, tree, leavings, histories, questions, toolReviews, stage
<1>0. IInv
  OBVIOUS
<1>1. TypeOK'
  BY DEF IInv, TypeOK, StationTypeOK, QuestionsTypeOK
<1>2. StationOK'
  BY DEF IInv, StationOK, SleepingIsStopped, BootingOwned, At, Remote
<1>3. TreeOK'
  BY DEF IInv, TreeOK, RunsDoNotMix, Branch
<1>4. HeadOK' /\ RouteOK'
  BY DEF IInv, HeadOK, RouteOK, At, Up, Remote, Select, Branch
<1>5. ResultsOK'
  BY DEF IInv, ResultsOK, Vouched, Select, Branch
<1>6. AnswersOK'
  BY DEF IInv, AnswersOK, CompletedWasBuilt, LoopsOK, AskingOK, At, AtStep
<1> QED
  BY <1>1, <1>2, <1>3, <1>4, <1>5, <1>6 DEF IInv

\* The inductive invariant holds in every reachable state of the coding stage.
THEOREM Invariant == Spec => []IInv
<1>1. Init => IInv
  BY InitInvariant
<1>2. ASSUME IInv, Next PROVE IInv'
  <2>1. TypeOK' /\ StationOK' /\ RouteOK' /\ AnswersOK' /\ built \subseteq built'
    BY <1>2, TypeStep, StationStep, RouteStep, AnswersStep DEF IInv, AnswersOK
  <2>2. TreeOK' /\ HeadOK' /\ Grown
    BY <1>2, TreeStep DEF IInv
  <2>3. ResultsOK'
    BY <1>2, <2>1, <2>2, ResultsStep DEF IInv
  <2> QED
    BY <2>1, <2>2, <2>3 DEF IInv
<1>3. IInv /\ [Next]_vars => IInv'
  BY <1>2, Stutters
<1> QED
  BY <1>1, <1>3, PTL DEF Spec

\* The rows (workstation_health, ide_tasks, pending_approvals), the machine and
\* the worker of the coding stage keep the types the code gives them.
THEOREM TypeCorrect == Spec => []TypeOK
<1>1. IInv => TypeOK
  BY DEF IInv
<1> QED
  BY <1>1, Invariant, PTL

\* hibernate_idle puts no row to sleep in front of a machine that somebody
\* booted meanwhile: only an active row is put to sleep, and a boot needs one
\* that is not.
THEOREM SleepStops == Spec => []SleepingIsStopped
<1>1. IInv => SleepingIsStopped
  BY DEF IInv, StationOK
<1> QED
  BY <1>1, Invariant, PTL

\* A row that ensure_ready left at booting has somebody who boots, or had.
THEOREM BootsAreOwned == Spec => []BootingOwned
<1>1. IInv => BootingOwned
  BY DEF IInv, StationOK
<1> QED
  BY <1>1, Invariant, PTL

\* All runs of a tenant share one checkout, and as long as git does what it is
\* told no commit lands on main or on a branch its run's plan does not name,
\* although nothing checks which branch is checked out, whichever plans name one
\* branch.
THEOREM RunsStayApart == Spec => []RunsDoNotMix
<1>1. IInv => RunsDoNotMix
  BY DEF IInv, TreeOK
<1> QED
  BY <1>1, Invariant, PTL

\* A report stands for commits on the run's branch, which nothing that makes a
\* branch later takes away again; for the run's own ones, if git obeyed and no
\* other run has that branch; or for a task claude worked through.
THEOREM ReportsHaveWork == Spec => []ReportHasWork
<1>1. ASSUME IInv PROVE ReportHasWork
  <2> SUFFICES ASSUME NEW r \in Runs, outcome[r] = "report_ready"
               PROVE  IF deploy.adapter # "extension"
                      THEN /\ work[Branch(r)] # {}
                           /\ ~slipped /\ Alone(r) => work[Branch(r)] = {r}
                      ELSE Select = "local" /\ deploy.claude => r \in built
    BY DEF ReportHasWork
  <2>1. Vouched(r)
    BY <1>1 DEF IInv, ResultsOK
  <2>2. work[Branch(r)] \subseteq Runs /\ Branch(r) \in Branches
    BY <1>1, TreeTyped DEF IInv
  <2>3. ~slipped => \A s \in work[Branch(r)] : Branch(r) = Branch(s)
    BY <1>1, <2>2 DEF IInv, TreeOK, RunsDoNotMix
  <2>4. ~slipped /\ Alone(r) => work[Branch(r)] \subseteq {r}
    BY <2>2, <2>3 DEF Alone
  <2> QED
    BY <2>1, <2>4 DEF Vouched
<1> QED
  BY <1>1, Invariant, PTL

\* Where claude is installed, complete_task is called for a task only after it
\* worked the task through, however many windows claimed it.
THEOREM CompletedTasksAreBuilt == Spec => []CompletedWasBuilt
<1>1. IInv => CompletedWasBuilt
  BY DEF IInv, AnswersOK
<1> QED
  BY <1>1, Invariant, PTL

\* No command under review goes ahead on a timeout, an expiry, a failed read or
\* the answer to another question, for any number of questions.
THEOREM SilenceIsNoAnswer == Spec => []NothingWithoutAnswer
<1>1. IInv => NothingWithoutAnswer
  BY DEF IInv, AnswersOK, NothingWithoutAnswer
<1> QED
  BY <1>1, Invariant, PTL

=============================================================================
