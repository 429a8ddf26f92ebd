----------------------------- MODULE CodingStage -----------------------------
(***************************************************************************)
(* The coding stage of the pipeline, command by command: from the approved *)
(* plan to the report (CoderPipeline._node_execute_coding and              *)
(* _node_run_tests_and_report) with the executor it selects, on the        *)
(* tenant's workstation (Workstation), asking an editor or a human where   *)
(* the executor does (IdeTasks).                                           *)
(*                                                                         *)
(* One worker codes one run after the other; between any two of its steps  *)
(* the machine may be stopped, an editor or a human may act, and the       *)
(* worker may die.  CoderRun takes this whole stage as a few steps.        *)
(***************************************************************************)
EXTENDS Workstation, IdeTasks

CONSTANT MaxCrashes

ASSUME MaxCrashesAssumption == MaxCrashes \in Nat

VARIABLES
  job,         \* what the worker is at: run, step, who called the operation, and what
               \* the adapter (failed, no commits, commits) and the tests gave
  outcome,     \* AgentRun.status of the run, as far as this stage goes; "stuck" is a row
               \* that says coding with nobody left who codes
  tested,      \* history: the runs whose own work the verifying tests saw
  ran,         \* history: the questions whose command was run
  crashes,     \* crashes so far, up to MaxCrashes
  bootLost     \* history: a worker died while it booted the machine

stage == <<tested, ran, crashes, bootLost>>
vars == <<station, questions, deploy, job, outcome, stage>>

Step == {"idle", "gate", "mark", "ensure", "boot", "booted", "touch", "enter", "main", "branch",
         "probe", "test", "select", "write", "agent", "await_tool", "await_task", "count", "verdict"}
Caller == {"heal", "baseline", "coding", "verify"}
NoJob == [run |-> NoRun, step |-> "idle", call |-> "heal",
          coding |-> "none", tests |-> "none"]

TypeOK ==
  /\ StationTypeOK
  /\ QuestionsTypeOK
  /\ deploy \in Deployments
  /\ job \in [run: Runs \cup {NoRun}, step: Step, call: Caller,
              coding: {"none", "failed", "empty", "commits"}, tests: {"none", "passed", "failed"}]
  /\ job.step = "idle" <=> job.run = NoRun
  /\ outcome \in [Runs -> {"queued", "coding", "failed", "report_ready", "stuck"}]
  /\ tested \in SUBSET Runs
  /\ ran \in SUBSET Questions
  /\ crashes \in 0..MaxCrashes
  /\ bootLost \in BOOLEAN

Init ==
  /\ deploy \in Deployments
  /\ StationInit
  /\ QuestionsInit
  /\ job = NoJob
  /\ outcome = [r \in Runs |-> "queued"]
  /\ tested = {}
  /\ ran = {}
  /\ crashes = 0
  /\ bootLost = FALSE

-----------------------------------------------------------------------------
(* Where the worker goes next *)

At(step) == job.step = step
Goto(step) == job' = [job EXCEPT !.step = step] /\ UNCHANGED outcome
Call(step, call) == job' = [job EXCEPT !.step = step, !.call = call] /\ UNCHANGED outcome
End(result) == job' = NoJob /\ outcome' = [outcome EXCEPT ![job.run] = result]

\* Nothing catches an exception of a resumed run: it ends the worker process.  A
\* supervisor starts another one, but the run is not taken up again.
Raise == End("stuck")

AfterEnsure == IF job.call = "coding" THEN "enter" ELSE "touch"
AfterSync == IF job.call = "coding" THEN "write" ELSE "probe"
SyncBranch == IF job.call = "coding" THEN Branch(job.run) ELSE Main

\* The result of the tests, for the one who asked for them.
TestsGive(status) ==
  \/ job.call = "heal" /\ Goto("mark")
  \/ job.call = "baseline" /\ (IF status = "passed" THEN Goto("select") ELSE End("failed"))
  \/ /\ job.call = "verify"
     /\ job' = [job EXCEPT !.step = "verdict", !.tests = status]
     /\ UNCHANGED outcome

\* The result of the adapter, and the tests of the executor that ran it: the
\* cloud executor syncs the repository again, the local one does not.
CodingGives(result) ==
  /\ job' = [job EXCEPT !.step = IF Select = "cloud" THEN "touch" ELSE "test",
                        !.call = "verify", !.coding = result]
  /\ UNCHANGED outcome

-----------------------------------------------------------------------------
(* The steps of the worker *)

TakeRun(r) ==
  /\ At("idle")
  /\ r \in deploy.plans /\ outcome[r] = "queued"
  /\ job' = [NoJob EXCEPT !.run = r, !.step = "gate"]
  /\ UNCHANGED <<station, questions, outcome, stage>>

\* The SHA gate heals a stale snapshot if it can read the workstation's SHA.
Gate ==
  /\ At("gate")
  /\ \/ deploy.staged /\ Up /\ cloned /\ Call("touch", "heal")
     \/ Goto("mark")
  /\ UNCHANGED <<station, questions, stage>>

Mark ==
  /\ At("mark")
  /\ job' = [job EXCEPT !.step = "ensure", !.call = "baseline"]
  /\ outcome' = [outcome EXCEPT ![job.run] = "coding"]
  /\ UNCHANGED <<station, questions, stage>>

Ensure ==
  /\ At("ensure")
  /\ \/ BeginBoot /\ Goto("boot")
     \/ AlreadyReady /\ Goto(AfterEnsure)
  /\ UNCHANGED <<questions, stage>>

Boot ==
  /\ \/ At("boot") /\ StartMachine /\ Goto("booted")
     \/ At("booted") /\ CommitActive /\ Goto(AfterEnsure)
     \/ (At("boot") \/ At("booted")) /\ BootFails /\ Raise
  /\ UNCHANGED <<questions, stage>>

Touch ==
  /\ At("touch")
  /\ TouchActivity
  /\ Goto("enter")
  /\ UNCHANGED <<questions, stage>>

\* A failed sync fails the coding, but not the tests.
Sync ==
  /\ \/ At("enter") /\ LocalSync(SyncBranch) /\ Goto(AfterSync)
     \/ At("enter") /\ EnterRepo(TRUE) /\ Goto("main")
     \/ /\ At("enter") /\ EnterRepo(FALSE)
        /\ IF job.call = "coding" THEN CodingGives("failed") ELSE Goto("probe")
     \/ At("main") /\ CheckoutMain /\ Goto("branch")
     \/ At("branch") /\ CheckoutBranch(SyncBranch) /\ Goto(AfterSync)
  /\ UNCHANGED <<questions, stage>>

\* A remote executor that cannot look for a test runner has none.
Probe ==
  /\ At("probe")
  /\ \/ Up /\ cloned /\ Goto("test")
     \/ Remote = "gcp" /\ (~Up \/ ~cloned \/ MayFail("command")) /\ TestsGive("passed")
  /\ UNCHANGED <<station, questions, stage>>

Test ==
  /\ At("test")
  /\ \/ Up /\ TestsGive("passed")
     \/ TestsGive("failed")
  /\ tested' = IF job.call = "verify" /\ Up THEN tested \cup ({job.run} \cap work[head]) ELSE tested
  /\ UNCHANGED <<station, questions, ran, crashes, bootLost>>

\* The local adapters check the branch out themselves.
StartCoding ==
  /\ At("select")
  /\ \/ /\ \/ Select = "unavailable" /\ End("failed")
           \/ Select = "local" /\ Unsupported /\ Raise
        /\ UNCHANGED <<station, questions>>
     \/ /\ Select = "cloud"
        /\ Call("ensure", "coding")
        /\ UNCHANGED <<station, questions>>
     \/ /\ Select = "local" /\ deploy.adapter = "extension"
        /\ \/ Enqueue(job.run) /\ Goto("await_task")
           \/ MayFail("command") /\ CodingGives("failed") /\ UNCHANGED questions
        /\ UNCHANGED station
     \/ /\ Select = "local" /\ deploy.adapter # "extension" /\ ~Unsupported
        /\ LocalSync(Branch(job.run)) /\ Goto("agent")
        /\ UNCHANGED questions
  /\ UNCHANGED stage

\* RemoteAdapterExecutor.run_coding: the prompt file
WritePrompt ==
  /\ At("write")
  /\ \/ Up /\ (IF Unsupported THEN Raise ELSE Goto("agent"))
     \/ (~Up \/ MayFail("command")) /\ CodingGives("failed")
  /\ UNCHANGED <<station, questions, stage>>

AgentCommits ==
  /\ At("agent")
  /\ Commit(job.run)
  /\ UNCHANGED <<questions, job, outcome, stage>>

\* Only the SDK of a staged deployment asks, and it asks before every command.
AgentAsks ==
  /\ At("agent")
  /\ Select = "local" /\ deploy.adapter = "sdk" /\ deploy.staged
  /\ \E q \in Questions : AskTool(q)
  /\ Goto("await_tool")
  /\ UNCHANGED <<station, stage>>

\* The exit code is all that tells; on a machine that is down there is none.
\* Whatever it says, the agent may leave edits it did not commit.
AgentExits ==
  /\ At("agent")
  /\ (Up /\ Goto("count")) \/ CodingGives("failed")
  /\ UNCHANGED station \/ LeaveEdits(job.run)
  /\ UNCHANGED <<questions, stage>>

AgentTimesOut ==
  /\ At("agent")
  /\ Select = "cloud"
  /\ LetLoose(job.run)
  /\ CodingGives("failed")
  /\ UNCHANGED <<questions, stage>>

AwaitTool ==
  /\ At("await_tool")
  /\ \E answer \in {"wait", "yes", "no"} :
       /\ PollTool(answer)
       /\ Goto(IF answer = "wait" THEN "await_tool" ELSE "agent")
       /\ ran' = IF answer = "yes" THEN ran \cup {asking} ELSE ran
  /\ UNCHANGED <<station, tested, crashes, bootLost>>

\* The extension counts a branch without commits as one commit ahead.
AwaitTask ==
  /\ At("await_task")
  /\ \/ PollTask(job.run, "wait") /\ Goto("await_task")
     \/ PollTask(job.run, "yes") /\ CodingGives("commits")
     \/ PollTask(job.run, "no") /\ CodingGives("failed")
  /\ UNCHANGED <<station, stage>>

\* Commits of the branch beyond origin/main, or beyond the checkout's main.
Ahead == IF Select = "cloud" THEN work[Branch(job.run)] ELSE work[Branch(job.run)] \ work[Main]

\* A count that cannot be made is zero.
Count ==
  /\ At("count")
  /\ \/ Up /\ CodingGives(IF Ahead # {} THEN "commits" ELSE "empty")
     \/ (~Up \/ MayFail("command")) /\ CodingGives("empty")
  /\ UNCHANGED <<station, questions, stage>>

\* Mutant: passing tests are enough.
VerdictOfTests ==
  /\ At("verdict")
  /\ \/ End("failed")
     \/ job.tests = "passed" /\ End("report_ready")
  /\ UNCHANGED <<station, questions, stage>>

\* The database sandbox may refuse what the tests passed.
Verdict ==
  /\ At("verdict")
  /\ \/ End("failed")
     \/ job.coding = "commits" /\ job.tests = "passed" /\ End("report_ready")
  /\ UNCHANGED <<station, questions, stage>>

Worker ==
  \/ \E r \in Runs : TakeRun(r)
  \/ Gate \/ Mark \/ Ensure \/ Boot \/ Touch \/ Sync \/ Probe \/ Test
  \/ StartCoding \/ WritePrompt \/ AgentCommits \/ AgentAsks \/ AgentExits \/ AgentTimesOut
  \/ AwaitTool \/ AwaitTask \/ Count \/ Verdict

-----------------------------------------------------------------------------
(* The world *)

\* The agent the worker waited for may go on.
WorkerDies ==
  /\ MayFail("crash")
  /\ crashes < MaxCrashes
  /\ ~At("idle")
  /\ crashes' = crashes + 1
  /\ Raise
  /\ bootLost' = (bootLost \/ At("boot") \/ At("booted"))
  /\ \/ UNCHANGED station
     \/ At("agent") /\ (LetLoose(job.run) \/ LeaveEdits(job.run))
  /\ UNCHANGED <<questions, tested, ran>>

MonitorDies ==
  /\ MayFail("crash")
  /\ crashes < MaxCrashes
  /\ monitor # "off"
  /\ crashes' = crashes + 1
  /\ monitor' = "off"
  /\ UNCHANGED <<record, machine, tree, leavings, histories>>
  /\ UNCHANGED <<questions, job, outcome, tested, ran, bootLost>>

Next ==
  /\ UNCHANGED deploy
  /\ \/ Worker
     \/ World /\ UNCHANGED <<questions, job, outcome, stage>>
     \/ Outside /\ UNCHANGED <<station, job, outcome, stage>>
     \/ WorkerDies
     \/ MonitorDies

\* What the worker waits for without a timeout: git and the tests in its own
\* checkout, the SDK's agent, and whoever calls git for the local adapters.
NoLimit ==
  \/ Remote = "local" /\ (At("gate") \/ At("enter") \/ At("test"))
  \/ Select = "local" /\ deploy.adapter # "extension" /\ (At("select") \/ At("count"))
  \/ Select = "local" /\ deploy.adapter \in {"sdk", "absent"} /\ At("agent")

\* A worker that lives goes on where its wait has an end; editors, humans and
\* the monitor may never act.
Spec == Init /\ [][Next]_vars /\ WF_vars(UNCHANGED deploy /\ ~NoLimit /\ Worker)

-----------------------------------------------------------------------------

(* A row that says booting has somebody who boots: ensure_ready takes a
   booting row for a ready machine and would never start it again.  Only a
   worker that dies while it boots leaves such a row behind. *)
BootingOwned == row = "booting" => At("boot") \/ At("booted") \/ bootLost

(* A report is only written where there is work to report on, whatever happened
   to the machine under the agent and the git commands that count commits.  The
   branch holds commits; they are the run's own if no other run works on that
   branch and no failed git command or loose agent brought others there (the
   count does not tell whose they are).  Of an editor's task, whose folder is
   out of sight, claude has been at work, if it is installed. *)
ReportHasWork ==
  \A r \in Runs : outcome[r] = "report_ready" =>
    IF deploy.adapter # "extension"
    THEN /\ work[Branch(r)] # {}
         /\ ~slipped /\ Alone(r) => work[Branch(r)] = {r}
    ELSE Select = "local" /\ deploy.claude => r \in built

(* Silence is not consent, nor is the answer to another question: a command the
   agent asks about is run only after a human approved that very command, however
   often it asks, however late the answers come, and whatever the sweep or a
   second click writes over them. *)
NothingWithoutAnswer == ran \subseteq granted

(* Where the worker stays with a run for good it hangs in a git command, in the
   tests or in the SDK's agent, which nobody gives a limit: it never waits for
   ever for a human, an editor, a machine that is down or a remote command. *)
WorkerComesFree ==
  \A r \in Runs : <>[](job.run = r) => <>[]NoLimit

(* docs/CODING_PIPELINE.md, "Post-Coding Tests": verification tests run on the
   remote workstation to assert that the changes introduced no regressions.
   So what is reported on was there when the tests ran, at least if the machine
   is up: if it is down, no tests run and "passed" is what they give. *)
TestsSeeTheChange ==
  \A r \in Runs : outcome[r] = "report_ready" /\ Select = "cloud" /\ Up => r \in tested
=============================================================================
