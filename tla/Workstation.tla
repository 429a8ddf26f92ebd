----------------------------- MODULE Workstation -----------------------------
(***************************************************************************)
(* One tenant's workstation: the workstation_health row the orchestrator   *)
(* keeps, the machine behind it, the one checkout all runs of the tenant   *)
(* share, and the monitor that puts an idle machine to sleep.              *)
(*                                                                         *)
(* The operations are effects without a caller: CodingStage says who calls *)
(* them and what the caller does next.  Between two remote commands the    *)
(* monitor or the cloud provider may stop the machine; every later command *)
(* then fails.  With the local executor the commands run in process.       *)
(***************************************************************************)
EXTENDS Deployment

CONSTANT Main  \* the main branch

ASSUME MainAssumption == Main \notin Names

VARIABLES
  row,         \* workstation_health.state; "absent" before the first run
  idle,        \* last_activity_at is more than IDLE_MINUTES ago
  machine,     \* the provider's machine: "stopped" or "running"
  monitor,     \* hibernate_idle: "off", "stopping" the machine, about to "commit"
  cloned,      \* the mount path exists on the machine
  head,        \* the branch checked out
  work,        \* work[b]: the runs whose commits branch b holds on top of origin/main
  local,       \* the branches that exist in the checkout
  dirt,        \* the runs whose agents left edits in the checkout that nobody committed
  loose,       \* runs whose agent still runs on the machine though nobody waits for it
  awake,       \* history: the last stop of the machine failed
  slipped      \* history: a git command failed on a live machine, or an agent ran loose
               \* or left edits behind

record  == <<row, idle>>
tree    == <<cloned, head, work, local>>
leavings == <<dirt, loose>>
histories == <<awake, slipped>>
station == <<record, machine, monitor, tree, leavings, histories>>

Branches == Names \cup {Main}
RowState == {"absent", "sleeping", "booting", "active", "stopped"}

StationTypeOK ==
  /\ row \in RowState
  /\ idle \in BOOLEAN
  /\ machine \in {"stopped", "running"}
  /\ monitor \in {"off", "stopping", "commit"}
  /\ cloned \in BOOLEAN
  /\ head \in Branches
  /\ work \in [Branches -> SUBSET Runs]
  /\ local \in SUBSET Branches
  /\ dirt \in SUBSET Runs
  /\ loose \in SUBSET Runs
  /\ awake \in BOOLEAN
  /\ slipped \in BOOLEAN

\* A developer's checkout exists before the first run, a workstation's does not.
StationInit ==
  /\ row = "absent"
  /\ idle = FALSE
  /\ machine = "stopped"
  /\ monitor = "off"
  /\ cloned = (Remote = "local")
  /\ head = Main
  /\ work = [b \in Branches |-> {}]
  /\ local = {Main}
  /\ dirt = {}
  /\ loose = {}
  /\ awake = FALSE
  /\ slipped = FALSE

\* A command reaches the checkout.
Up == Remote = "local" \/ machine = "running"

-----------------------------------------------------------------------------
(* WorkstationManager.ensure_ready *)

NeedsBoot == row \in {"absent", "sleeping", "stopped"}

\* The row says booting before anything is started.
BeginBoot ==
  /\ NeedsBoot
  /\ row' = "booting"
  /\ UNCHANGED <<idle, machine, monitor, tree, leavings, histories>>

\* A row in any other state, "booting" included, counts as ready.
AlreadyReady ==
  /\ ~NeedsBoot
  /\ idle' = FALSE
  /\ UNCHANGED <<row, machine, monitor, tree, leavings, histories>>

\* The provider's start operation is awaited; the local executor has no machine.
StartMachine ==
  /\ machine' = IF Remote = "gcp" THEN "running" ELSE machine
  /\ UNCHANGED <<record, monitor, tree, leavings, histories>>

CommitActive ==
  /\ row' = "active"
  /\ idle' = FALSE
  /\ UNCHANGED <<machine, monitor, tree, leavings, histories>>

\* Mutant: the except clause forgets the row.
BootFailsKeepsRow ==
  /\ Remote = "gcp"
  /\ machine' \in {machine, "running"}
  /\ UNCHANGED <<row, idle, monitor, tree, leavings, histories>>

\* The start fails or takes too long; the machine may come up all the same.
BootFails ==
  /\ Remote = "gcp"
  /\ row' = "stopped"
  /\ machine' \in {machine, "running"}
  /\ UNCHANGED <<idle, monitor, tree, leavings, histories>>

-----------------------------------------------------------------------------
(* git on the checkout.  The result of a command is only looked at where a
   disjunct says so. *)

\* A command times out on a live machine, or git refuses.
Slip ==
  /\ MayFail("command")
  /\ slipped' = TRUE

\* Mutant: a branch that does not exist yet is not created.
BranchFromMissing(base, b) ==
  /\ UNCHANGED <<cloned, work, local>>
  /\ head' = IF b \in local THEN b ELSE base

\* On base: git checkout b, or git checkout -b b when that fails.
BranchFrom(base, b) ==
  /\ head' = b
  /\ local' = local \cup {b}
  /\ work' = IF b \in local THEN work ELSE [work EXCEPT ![b] = work[base]]
  /\ UNCHANGED cloned

\* LocalRemoteExecutor.sync_repo and base.checkout_branch: main, then the
\* branch, in one blocking call; success whatever git returned.  Where main
\* cannot be checked out the branch is made from the one that is.
LocalSync(b) ==
  /\ Remote = "local"
  /\ \/ BranchFrom(Main, b) /\ UNCHANGED slipped
     \/ /\ Slip
        /\ \E base \in {head, Main} :
             BranchFrom(base, b) \/ (head' = base /\ UNCHANGED <<cloned, work, local>>)
  /\ UNCHANGED <<record, machine, monitor, leavings, awake>>

\* test -d, and the clone if there is nothing: the one step of a sync whose
\* failure is reported.
EnterRepo(ok) ==
  /\ Remote = "gcp"
  /\ \/ /\ ok /\ Up
        /\ cloned' = TRUE
     \/ /\ ~ok /\ (~Up \/ MayFail("command"))
        /\ UNCHANGED cloned
  /\ UNCHANGED <<record, machine, monitor, head, work, local, leavings, histories>>

\* git fetch, git checkout main, git pull --rebase.
CheckoutMain ==
  /\ Remote = "gcp"
  /\ \/ Up /\ head' = Main /\ UNCHANGED slipped
     \/ Up /\ Slip /\ UNCHANGED head
     \/ ~Up /\ UNCHANGED <<head, slipped>>
  /\ UNCHANGED <<record, machine, monitor, cloned, work, local, leavings, awake>>

CheckoutBranch(b) ==
  /\ Remote = "gcp"
  /\ \/ Up /\ BranchFrom(head, b) /\ UNCHANGED slipped
     \/ Up /\ Slip /\ UNCHANGED tree
     \/ ~Up /\ UNCHANGED <<tree, slipped>>
  /\ UNCHANGED <<record, machine, monitor, leavings, awake>>

\* An agent commits everything it finds in the checkout to whatever branch that
\* is on.
Commit(r) ==
  /\ Up
  /\ ~({r} \cup dirt \subseteq work[head])
  /\ work' = [work EXCEPT ![head] = @ \cup {r} \cup dirt]
  /\ dirt' = {}
  /\ UNCHANGED <<record, machine, monitor, cloned, head, local, loose, histories>>

\* git checkout takes uncommitted edits along to the next branch.
LeaveEdits(r) ==
  /\ MayFail("agent")
  /\ dirt' = dirt \cup {r}
  /\ slipped' = TRUE
  /\ UNCHANGED <<record, machine, monitor, tree, loose, awake>>

\* Whoever waited for the agent is gone or gives up; killing the ssh client or
\* the worker does not kill the agent.
LetLoose(r) ==
  /\ MayFail("agent")
  /\ Up
  /\ loose' = loose \cup {r}
  /\ slipped' = TRUE
  /\ UNCHANGED <<record, machine, monitor, tree, dirt, awake>>

\* sync_repo_and_test counts as activity, if the row is there.
TouchActivity ==
  /\ idle' = (idle /\ row = "absent")
  /\ UNCHANGED <<row, machine, monitor, tree, leavings, histories>>

-----------------------------------------------------------------------------
(* WorkstationManager.hibernate_idle, and the world *)

\* With the machine every process on it goes.
PowerOff == machine' = "stopped" /\ loose' = {} /\ UNCHANGED dirt

\* The query; the new state stays in the session until the commit.
SelectIdle ==
  /\ monitor = "off"
  /\ row = "active" /\ idle
  /\ monitor' = "stopping"
  /\ UNCHANGED <<record, machine, tree, leavings, histories>>

\* An error of the provider is logged and the row goes to sleep regardless.
StopMachine ==
  /\ monitor = "stopping"
  /\ \/ Remote = "gcp" /\ PowerOff /\ awake' = FALSE
     \/ UNCHANGED <<machine, leavings>> /\ awake' = TRUE
  /\ monitor' = "commit"
  /\ UNCHANGED <<record, tree, slipped>>

\* Mutant: the row is committed before the machine is stopped.
CommitSleepFirst ==
  /\ monitor \in {"stopping", "commit"}
  /\ row' = "sleeping"
  /\ monitor' = "off"
  /\ UNCHANGED <<idle, machine, tree, leavings, histories>>

CommitSleep ==
  /\ monitor = "commit"
  /\ row' = "sleeping"
  /\ monitor' = "off"
  /\ UNCHANGED <<idle, machine, tree, leavings, histories>>

Monitor == SelectIdle \/ StopMachine \/ CommitSleep

\* Half an hour without ensure_ready or sync_repo_and_test; one coding command
\* alone may take that long.
HalfHourPasses ==
  /\ row # "absent" /\ ~idle
  /\ idle' = TRUE
  /\ UNCHANGED <<row, machine, monitor, tree, leavings, histories>>

\* The provider's own idle timeout, or a preemption.
ProviderStops ==
  /\ MayFail("stop")
  /\ machine = "running"
  /\ PowerOff
  /\ UNCHANGED <<record, monitor, tree, histories>>

World == Monitor \/ HalfHourPasses \/ ProviderStops \/ \E r \in loose : Commit(r)

-----------------------------------------------------------------------------

(* A row that says sleeping stands for a machine that is off, unless the
   provider refused the last stop: nothing else would ever look at a machine
   that runs behind a sleeping row (hibernate_idle reads active rows only). *)
SleepingIsStopped == (Remote = "gcp" /\ row = "sleeping" /\ ~awake) => machine = "stopped"

(* As long as no git command failed on a live machine and no agent ran loose
   or left edits uncommitted, work goes where the plan says: on a branch there
   is only work of runs whose plans name it, and main has none.  Stops of the
   machine and crashes of the worker alone change nothing of that, although all
   runs share one checkout and no checkout is verified.  (Two runs of one
   ticket may name one branch, and then they do share it.) *)
RunsDoNotMix ==
  ~slipped => \A b \in Branches : \A r \in work[b] : b = Branch(r)
=============================================================================
