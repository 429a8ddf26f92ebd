------------------------------ MODULE Deployment ------------------------------
(****************************************************************************)
(* The settings and the workspace row, as far as the coding stage reads     *)
(* them; what may fail around it, and the plans that get approved with the  *)
(* branches they name.  They stay as they are while the stage runs.         *)
(****************************************************************************)
EXTENDS Naturals, FiniteSets

CONSTANTS
  Runs,         \* run ids
  NoRun,
  Names,        \* names of working branches
  Deployments

Adapter == {"cli", "sdk", "extension", "absent"}

\* crash: the worker or the monitor; command: a git command or a read; agent: one
\* that is left running or leaves edits; editor: its calls; stop: the provider.
Fault == {"crash", "command", "agent", "editor", "stop"}

\* A local IDE beside a remote workstation would make two checkouts of one.
ASSUME DeploymentAssumption ==
  /\ NoRun \notin Runs
  /\ Deployments \subseteq [staged: BOOLEAN, configId: BOOLEAN, project: BOOLEAN,
                            localIde: BOOLEAN, adapter: Adapter, remote: {"gcp", "local"},
                            claude: BOOLEAN, faults: SUBSET Fault, plans: SUBSET Runs,
                            branchOf: [Runs -> Names]]
  /\ \A d \in Deployments : d.localIde => d.remote = "local"

VARIABLE deploy

\* The branch a run's plan names: thekedar/<issue key>-<first four words of the
\* request>.  Two runs of one ticket may well share it.
Branch(r) == deploy.branchOf[r]

\* No other run works on the branch of run r.
Alone(r) == \A s \in Runs : Branch(s) = Branch(r) => s = r

\* select_remote_executor
Remote == deploy.remote
MayFail(fault) == fault \in deploy.faults

\* ExecutionRouter.select
Select ==
  CASE deploy.staged /\ deploy.configId /\ deploy.project -> "cloud"
    [] deploy.localIde -> "local"
    [] deploy.project -> "cloud"
    [] OTHER -> "unavailable"

\* An adapter that cannot be run here: an error in staging and prod, elsewhere
\* the mock adapter or agy take its place.
Unsupported == deploy.adapter = "absent" /\ deploy.staged
=============================================================================
