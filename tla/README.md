# Thekedar in TLA+

Thekedar turns a chat message into a reviewed pull request: a message reaches an
orchestrator worker, which walks a *run* through context, impact, plan, coding, tests and
publish, and stops at three human reviews on the way. The run survives in two SQL tables, a
Redis list and the working branch, and four kinds of actors write to them without locks.
This directory models that system, the way of a message to a run, the workstation and the
editors a run is coded on, what it carries from stage to stage, and the way of a reply back to
the chat; it model-checks it on small instances and proves its central promises for every
instance.

Source paths below are relative to `src/packages/<package>/src/thekedar_<package>/`.

## Modules

| Module | What it is |
|---|---|
| `ReviewGate` | What the pipeline promises its reviewers: ask, grant, code, test, publish, in that order. No queue, worker or crash. |
| `CoderRun` | The orchestrator worker, the pipeline stages, the expiry sweep, the resume list and the deciders (dashboard, Slack, chat). Implements `ReviewGate`. |
| `MCCoderRun` | Symmetry sets for the runs of `CoderRun`. |
| `CoderRunProofs` | Theorems about `CoderRun` and the inductive invariant behind them. |
| `CoderRunSerialProofs` | Theorems about `CoderRun` with one worker and one dashboard request at a time. |
| `InboundBus` | Webhook ingress, idempotency claims, Redis list or Pub/Sub subscription, the worker's loop, dead letters and their replay. |
| `MCInboundBus` | A webhook body and sets of faults for `InboundBus`. |
| `InboundBusProofs` | Theorems about `InboundBus`, on both transports. |
| `Outbox` | Replies: enqueue, query, post with its retries, commit, backoff, give up, by one worker or several. |
| `OutboxProofs` | Theorems about `Outbox`. |
| `Deployment` | The settings the coding stage reads: which executor, which adapter, which remote executor; what may fail. |
| `Workstation` | One tenant's workstation: its row, the machine, the checkout all runs share, the monitor that puts it to sleep. |
| `IdeTasks` | Questions the coding step polls for: a task for an editor, a command a human has to allow. |
| `CodingStage` | The coding and testing nodes command by command, composed of the three modules above. |
| `MCCodingStage` | The deployments `CodingStage` is checked on. |
| `CodingStageProofs` | Theorems about `CodingStage` and the modules it composes. |
| `RunContents` | What a run carries from stage to stage: context snapshot, plan, artifacts, review payloads, step ledger, costs. |
| `MCRunContents` | The deployments `RunContents` is checked on. |
| `RunContentsProofs` | Theorems about `RunContents`. |

## Inventory

| Component | State | Operations | Hard behaviour | What makes it correct |
|---|---|---|---|---|
| Coder pipeline, worker (`orchestrator/worker.py`, `coder_pipeline.py`, `main.py`) | `agent_runs`, `pending_approvals`, working branch | receive a task, six stages, resume, finalize, reply | a session that read a row earlier, commits split over a stage, a status written late, crashes | no work behind a review without its approval; an approval used once; no coding after the verification a report shows; runs settle |
| Review channels (`dashboard-hub/routes/approvals.py`, `webhook-ingress/routes/slack_interactive.py`, chat) | the same two tables | approve, reject | check-then-commit, decisions on decided reviews, push after commit | one decision counts, and it reaches the worker |
| Resume list (`shared/checkpoint.py`, `resume.py`) | Redis list | push, pop | popped before processed | a decision is not lost |
| Expiry sweep (`worker.py`) | reads and writes both tables | scan, await, commit | overwrites decisions made during the await | a refused review is not acted on |
| Context index (`context/`) | `context_snapshots`, chunks | index, load, mark stale | deletes rows that others name | a run finds the snapshot its review was made on; coding is on fresh context |
| Webhook ingress, bus, DLQ (`webhook-ingress/`, `shared/bus.py`, `idempotency.py`, `dlq.py`) | claim keys, inbound list or subscription, dead letters | claim, publish, pop, ack, nack, replay | claim before publish, at-least-once redelivery under a new run id | an accepted message is processed, once |
| Outbox, resilience (`orchestrator/outbox.py`, `replies.py`, `resilience/`) | `outbound_notifications`, breaker | enqueue, deliver, retry, give up | crash between send and commit, attempts bound, open breaker | a reply is sent or reported dead, attempts are bounded |
| Run ledger (`shared/run_ledger.py`) | `run_steps` | begin, complete, fail | completed in a commit of its own, rows used again | a completed step has its result |
| Workstation, executors, worktrees (`orchestrator/integrations/workstation.py`, `execution/`) | workstation row, checkout, worktrees | boot, sync, test, hibernate, select | crash while booting, hibernate while coding, unchecked git commands, one checkout and shared branch names, checkout of main before the tests of a branch | commits go to the branch the plan names; a report has commits; tests are of the branch that was coded |
| IDE task queue (`ide-adapters/vscode.py`, `dashboard-hub/routes/ide_tasks.py`) | `ide_tasks` | enqueue, claim, complete, fail, time out | two editors, late results, many questions, a sweep that overwrites answers | a task is done only if somebody did it, a command runs on its own yes only, and the wait for it ends |
| LLM router (`orchestrator/llm/router.py`) | spend | complete with fallback | budget checked after the call, which is billed already, against a moving total | an answer over budget is not used |
| Plans, policy, commands (`plan.py`, `policy_gate.py`, `mcp-policy/engine.py`, `approval_commands.py`) | none | pure functions | precedence of rules, amendment bound | the plan that is coded is the plan that was reviewed |

`CoderRun` says when a run may go on, `RunContents` with what, and `CodingStage` what happens inside
the one stage that touches a machine. They are separate modules because their state is nearly
disjoint and their product is out of TLC's reach; where one takes a step of another as a
nondeterministic verdict, its comment says so.

The components interact through the database (runs and reviews), Redis (inbound list, resume
list, checkpoints, breaker) and direct calls (pipeline to indexer, workstation, executors and
GitHub). There is no lock and no optimistic version anywhere: whatever is right is right because
of the order of steps.

## CoderRun

### State and code

- `runStatus`, `runCtx` are the columns `status` and `context_snapshot_id` of `agent_runs`
  (`"new"`: no row yet; `runCtx` says whether the snapshot it names still exists).
- `approval` is `pending_approvals`; `resumeQ` is the list `thekedar:queue:resume`.
- `pc`, `job`, `seen`, `outcome`, `stale` are locals of a worker: the next step, the payload it
  works on, the approval status its SQLAlchemy session read, the status in the result dictionary
  on its way to `_finalize_run`, and what a sweep has read.
- `request` is a dashboard request between its 409 check, its commit and its push.
- `approved`, `advanced`, `branch`, `passed`, `published` are history: what has happened in the
  world outside the tables. No guard reads them. `branch` only orders coding and the verification
  step; that the step saw the coded commits, or that they are what GitHub gets, it does not say: in
  the cloud the tests run on main (`coding_tests`), and the branch of a pull request is made from the
  head of main (`github_client.py:53-73`).

One action is what a process does between two points where another can act: a commit, an await, a
Redis call. `ReadApproval`, `Decide` and `CheckDecision` are three steps of one function
(`coder_pipeline.resume`) because its session commits in between: `StatusSeen` is the rule that a
session reads a row again only after its own commit. The sweep is `ExpireScan` (its query),
`ExpireRow` once per row, as it awaits Redis between one row and the next and reads the run of a
later row after others wrote, and `ExpireCommit`; `HubRead`/`HubCommit`/`HubPublish` a dashboard
request. `Finalize` writes the result's status over whatever the row holds, as `_finalize_run` does.
A Slack click is one action that commits and pushes nothing: the endpoint is a coroutine, so the
`asyncio.run` it calls raises.

Faults are constants: `"crash"` (a worker dies at any step), `"step_error"` (a step raises:
`_execute_graph` marks the run failed, a resume leaves the main loop), `"lost_resume"` (the push
fails after the commit). `Executors` is the deployment setting; only the local executor sees the
checkout and therefore indexes it, which deletes older snapshots (`DropSnapshots`).

Left out: the text of plans and reports, amendments, the step ledger, the checkpoint cache (it is
written and deleted, and never read by the pipeline), the payload signature (both ends use one
secret), tenants, and reviews of other workflows. Verdicts of the LLM, the tests, the policy and
the freshness check are nondeterministic.

### Properties

Whatever the channels, faults and number of workers: `TypeOK`; `ThreeGates` (the work behind a
review needs an approval of that review, of that run); `ImplementsGate` (refinement of
`ReviewGate`).

For one worker and one dashboard request at a time, under every fault: `AdvancedOnce`,
`OneOpenGate`, `ReportIsCurrent` (nothing is coded between the verification a report shows its reviewer
and the end of the run), `RefusedNotAdvanced`, `PublishedStaysCompleted`. The code has
no guard for any of these: `resume` does not ask whether an approval was used. They hold because
an event is produced and consumed at most once. With two requests, two channels or two workers
they fail, and no document promises otherwise, so no run is spent on it. A branch may be public while
its run is failed (`Publish` and `RecordPublish` are two steps): the code leaves it so, and no property
says otherwise.

Liveness without faults: `RunsSettle` (a run always comes to an end or to a review somebody can
still decide, in spite of the status overwritten by `Finalize` and by the sweep) and
`ApprovedGateActedOn`.

### Fairness

`FairSpec` asks weak fairness of `WorkStep(k)`, the loop of `main.py` and the coroutine it runs, and
of a dashboard request that has passed its check: a thread of the web server runs it to the end.
Nothing is asked of senders, reviewers, the sweep, the push of a repository or of faults. Weak is
enough: nothing but the worker itself disables its next step. For coding and tests, which are one
step each here, this assumes that they end; where they need not, `CodingStage` says.

### Runs

| Run | Instance | Shows |
|---|---|---|
| `coder_serial` | 2 runs, 5 approvals, 1 worker, 1 request, both executors, all faults | the serial properties and the refinement |
| `coder_contended` | 1 run, 3 approvals, 2 workers, Slack and chat, crash and step errors | types, gates and refinement when approvals are overwritten and used twice |
| `coder_live` | 1 run, 3 approvals, 1 worker, 1 request, no faults | the liveness properties |
| `coder_slack` (violation) | Slack only, no faults | a click leaves the run `running` for ever |
| `coder_crash` (violation) | dashboard, crashes | a run is never taken up again |
| `coder_local` (violation) | local executor, no faults | the approved publish review fails: the coding stage has deleted its snapshot |

Bounds. `Approvals` bounds the rows ever created; three take a run to publication, and the serial
instance has enough for one run to finish and another to reach its plan review, so that one run's
indexing meets the other's reviews. In `coder_contended` a plan review consumed twice needs a fourth
row to end, and the worker then stops at the bound: this costs behaviours after the double use, not
the double use itself, and the theorems have no bound. `MaxQueue` bounds the list: a worker with one
request never sees more than two events. `advanced` saturates at 2 ("twice or more"). The queue path
with several workers is too large for TLC together with Slack and chat; the proofs cover it.

`CHECK_DEADLOCK FALSE` in every configuration: tasks are finitely many, and when all runs are over
and nothing is pending the system rightly stops.

The three violations disagree with `docs/CODING_PIPELINE.md` and `docs/RELIABILITY.md`; the
findings in `PROJECT.json` quote the lines.

## InboundBus

### State and code

- `claimed` are the Redis keys of `IdempotencyStore`, `inbound` and `dlq` the Redis lists; lists
  are written with the next to be popped first.
- `request[q]` is a webhook request inside `_enqueue_events`: between two Redis calls another
  request may run, so `Claim` and `Publish` are separate actions, and so are the events of a body.
- `sub` is the subscription: per message, nowhere, ready, leased to a worker, acknowledged or dead
  lettered. It is external, modelled from the calls of `PubSubMessageBus` and the terraform module
  (ack deadline, delivery attempts). A message that is given back comes again in no order.
- `step`, `hand` are the worker's loop in `main.py`: take, begin (`process_payload` inserts the
  run), work, ack (Pub/Sub only) or nack. `ConsumeResume` is enabled only where the loop reaches it.
- `ops` is a running `thekedar ops replay-dlq`; it pops, marks and publishes, or pops and pushes
  back, in steps, because it may die in between.
- `published`, `started`, `replays`, `done` are history.

One constant, `Transports`, says which deployment is considered; `FaultSets` says what may go wrong
together, so that one run compares behaviours without faults with behaviours with some.

`get_bus` asserts that the bus is the Redis one. With Pub/Sub configured the ingress therefore
answers every webhook with an error: `Receive` is disabled there, and the subscription is filled by
replaying what a time on Redis has left among the dead letters (`DeadLetters`). That still
exercises the consumer, which is written for both.

Left out: the expiry of a claim after 24 hours, the counters of the rate limiter, signatures (a
refused request changes nothing), the SQL mirror of the dead letters, and what a run does (that is
`CoderRun`). A pull that raises when it finds nothing is left out too: on Pub/Sub it would keep the loop
from ever asking for a resume event, and as unending new messages do the same, no property says that
resume events are served, and `FairSpec` owes them nothing.

### Properties

- `OneRunPerDelivery`: on Redis one run per message and replay, however the provider repeats itself.
- `NothingLost`: a claimed message is on its way or done, unless a process dies with the only copy.
- `AckedDone`: Pub/Sub forgets only what some worker has finished.
- `Handled`: every message ends done or as a dead letter.
- `AcceptedIsPublished` is what `docs/RELIABILITY.md` promises ("0 lost after ACK") and the code
  does not keep: the claim precedes the publication and is never released. The retry passes over the
  event whose publication failed, publishes those after it and is accepted.

`FairSpec` is weakly fair to a request in progress, to the loop of each worker (supervised, it is
started again when it dies), to the deadlines of Pub/Sub and to a replay that has begun. Senders and
operators owe nothing.

| Run | Instance | Shows |
|---|---|---|
| `bus` | 1 body of 2 events sent twice, 2 requests, 2 workers, 1 replay of up to 2, 2 deliveries, both transports, four sets of faults | all of the above except the promise |
| `bus_ack` (violation) | Redis, only the publication fails | a repeated body is accepted, and one of its two events is never published |

Two sends are enough for a race and for a retry, two deliveries for a lease that expires and one
that is final, two workers for a late acknowledgement. `CHECK_DEADLOCK FALSE`: bodies are finitely
many and a bus with nothing to do stops.

## Outbox

### State and code

`row` is `outbound_notifications` (`due` abstracts `next_attempt_at`); `todo`, `current`, `loaded`
are the locals and the SQLAlchemy session of `deliver_pending`. A session keeps the columns it has
read until its next commit (`expired`) and writes a column only where it differs from what was
read: `Commit` is exactly that rule, and it is why two workers on the same rows lose retry counts
and bring sent rows back. `left` counts the posts of `with_retry`. `attempts` and `delivered` are
history, saturating at one above `MaxAttempts` and at two.

Rows are delivered one after the other, each with its own commit. Faults: the provider refuses or is
down, a post arrives but its answer does not, the worker dies. `Crews` are the sets of workers that
deliver, so that one run holds behaviours of one worker and of two. The circuit breaker is not there:
`record_failure` is reached only through `ResilientClient`, which nothing uses, and through an LLM
router built without a registry, so no breaker ever opens.

### Properties

With any crew and any faults: `SentWasDelivered`, `FailedWasTried`, and `Resolved` (every reply is
sent or given up, even though counts are lost; without crashes). With one worker: `DeliveredOnce`
(without crashes and lost responses), the second half of `AttemptsBounded`, and `FinalStays`. Two
workers send twice: the code has no lock and no document promises one.

The first half of `AttemptsBounded` is about one or two workers. With three it is false, which TLC
shows on one reply and the proof attempt showed first: two workers that are late with the same row
bring it back as pending, the one by its count and the other by its status, and it is tried again.

`FairSpec` is weakly fair to `Deliver(k)` of every worker and to the passing of time. The loop of
`main.py` reaches `deliver_pending` only in a round without message and resume event; the model takes
those as finitely many.

| Run | Instance | Shows |
|---|---|---|
| `outbox` | 2 replies, 1 or 2 workers, 2 attempts of up to 2 posts, faults without and with crashes and lost responses | all seven properties |

Two rows let a session use one as read and one as read again; two attempts are one retry and one that
gives up; two posts are one retry within an attempt. `CHECK_DEADLOCK FALSE`: when all replies are
resolved nothing is left to do.

## Deployment, Workstation, IdeTasks, CodingStage

### State and code

`CodingStage` is `_node_execute_coding` and `_node_run_tests_and_report` with everything they call,
one action per remote command, commit or poll. `job` is the worker's place in it: the run, the next
step, and who called the operation (`heal`: the SHA gate, `baseline`, `coding`, `verify`), because
`ensure_ready` and `sync_repo` are each called from several places and go on differently. `outcome`
is the status of the run as far as this stage goes; `"stuck"` is a row that says coding with nobody
left who codes.

`Workstation` holds the operations without their callers. `row` and `idle` are `workstation_health`
(`idle`: the last activity is more than 30 minutes ago), `machine` is what the provider has,
`monitor` is `hibernate_idle` between its query, its stop and its commit. Of the checkout it keeps
`head`, the branches that exist, and `work[b]`, the runs whose commits a branch holds: enough to say
whose work is tested and reported. Branches have names of their own: a plan calls its branch by the
ticket and the first four words of the request (`plan.py:63-64`), so that two runs of one ticket
share it, and `branchOf` is any such assignment. A branch is made from whatever is checked out when
it does not exist (`BranchFrom`), which after a failed checkout of main is not main. Git commands
may fail without anybody noticing (`Slip`), as `sync_repo` looks at no exit code but that of the
clone; on a machine that is down every command fails. `dirt` are edits an agent left uncommitted,
`loose` agents nobody waits for: the time-out of a remote command kills the ssh client only.

`IdeTasks` has `task` (`ide_tasks.status`), `tool` (`pending_approvals.status` of a tool review, one per
command the agent asks about), which of them the agent waits for (`asking`), which the sweep has read
and will expire (`doomed`), the polls so far, and per poll loop of the extension its place. A human may
answer any question at any time and more than once, as a Slack button does, and the sweep writes over
the answer. Two loops stand for two windows or for
one window whose timer fired again while a task was worked on. `ReadClaim` and `CommitClaim` are two
steps, as in `claim_task`; a response may be lost after either.

`Deployment` has the settings as one constant record per deployment: `Select` is
`ExecutionRouter.select`, `Remote` is `select_remote_executor`. `faults` says what may go wrong there;
`claude` whether that command is installed: without it the extension writes a stub with `echo`, reports
one commit and completes the task.
A local IDE beside a remote workstation is excluded (`DeploymentAssumption`): it would make two
checkouts of one.

### Properties

- `SleepingIsStopped`: a sleeping row stands for a stopped machine, unless the provider refused.
- `BootingOwned`: a booting row has somebody who boots it, unless a worker died over it.
- `RunsDoNotMix`: stops of the machine and crashes alone never put a run's work on a branch its plan
  does not name, though nobody verifies what is checked out. Two runs of one ticket do share a branch;
  failed git commands, loose agents and edits left behind (`slipped`) do mix runs.
- `ReportHasWork`: no report without commits on the branch. They are the run's own when no other run
  works on that branch and nothing slipped; else the second run of a ticket may be reported ready on
  the commits of the first, and is so in the model.
- `CompletedWasBuilt`: where claude is installed a completed task was worked through, whoever claimed it.
- `NothingWithoutAnswer`: a command runs only on a yes to that very question, not on silence and not on
  the answer to another one.
- `WorkerComesFree` (liveness): if the worker stays with a run for good, it hangs in a call that has no
  limit (`NoLimit`: git and tests in its own checkout, the SDK's agent), never in a wait for a human, an
  editor, a machine that is down or a remote command.
- `TestsSeeTheChange` is what `docs/CODING_PIPELINE.md` promises and the cloud executor does not do:
  its tests run on `main`.

`Spec` is weakly fair to the worker but where it waits without a limit: `agent.run`
(`antigravity_sdk.py:170`), the tests of `LocalRemoteExecutor` (`remote.py:143-149`) and the git
commands in the worker's own checkout (`base.run_git`, `remote.py:101-126`) have no time-out, and a
behaviour in which one of them never ends is one of `Spec`. Elsewhere the wait has a time-out or a
bounded number of polls. Editors, humans, the monitor and the provider owe nothing.

| Run | Instance | Shows |
|---|---|---|
| `coding_stage` | 2 runs on two branches or one, 2 poll loops, 2 polls, 2 questions, at most 1 crash, thirteen deployments with their faults (1.5 million states) | all of the above except the promise |
| `coding_tests` (violation) | cloud, no faults | a report on commits no test has seen |

Two runs one after the other are what it takes for one to leave something behind for the other, two
questions for an answer that is not to the one that is asked. Two
polls are one that waits and one that gives up. One crash leaves every row as a second one finds it:
crashes interact only through the tables and the checkout, both of which the next run meets. The
deployments are the pairs of executor and adapter the code tells apart, each with the faults that can
tell on it. The extension with all its faults has one run only. `CHECK_DEADLOCK FALSE`: when the runs are
coded nothing is left to do.

## RunContents

### State and code

`index` is the sequence of commits ever indexed; a snapshot's id is its place. `live` are the rows that
are there: `RepoIndexer.index` deletes the others, but two that run at once do not see each other's row
and leave both (`Replace`). `runCtx` is `agent_runs.context_snapshot_id`.
`origin` and `head` are main on GitHub and the commit in the workspace. `gate[r][stage]` are the
reviews in the order of their creation, each with its payload; `plans` the plan artifacts; `ledger`
the rows of `run_steps`; `spent` the sum of the cost records in cents. A plan is the snapshot it was
made from and whether it was amended: what the properties tell apart. `job` is the state dictionary a
worker carries, and an action ends at a commit or an await.

The two freshness gates read the newest snapshot, then ask the workstation for its HEAD, which may
be out of reach (`Unknown`), and judge the one by the other although the context in hand may be older:
`ResumeGate` (abort, or the word "override") and `CodingGate` (heal, and carry on if that fails).
A sync of the local checkout may leave it where it was, as the exit codes of git are not looked at.
`Complete` is the chain of LLM providers with the three ways a call may fail: a provider that is down is
passed over, a response that is not JSON raises, and so does an answer that is not JSON but for Gemini.
`AskLlm` calls first and compares with the budget afterwards (`OverBudget`), without the record of the
call, which is committed with the report or rolled back; `calls` remembers what was billed.

Decisions come by chat here (`Decide`), because a worker takes them itself; the other channels are
in `CoderRun` and change when a run resumes, not with what. Left out: the text of everything, the
age of a snapshot (`needs_refresh`, one of the reasons to index), artifacts nobody reads back.

### Properties

- `CodesWhatWasApproved`: the agent gets the content of an approved plan review, whose plan was made
  for an approved impact review, also when two workers resume the run and make two plans.
- `OneContextPerRun`: report, plan and agent use one snapshot, unless the second gate healed it.
- `CodesOnGatedContext` (one worker, nobody else indexing): the context is of the commit the coding gate
  saw. It is not a promise about the workspace: the baseline sync after the gate may pull a newer main,
  which is compared with nothing.
- `PublishesWhatWasCoded` (one worker): the newest artifact, the reviewed report and the coded plan agree.
- `LedgerTellsTruth`: a completed step has its result in the tables, wherever a worker failed or died.
- `OverBudgetUnused`: an answer that was billed but not charged opens no review, and once the budget is
  overspent no more answers are used than the other workers had in flight. The calls themselves do not
  stop: each is made and billed before the budget is looked at.

| Run | Instance | Shows |
|---|---|---|
| `run_contents` | one worker with two runs; one run with every fault, other processes indexing in staging; two workers on one run; two workers and three runs on one budget (3.7 million states) | all of them |

`MaxPushes = 1` makes one stale snapshot; `MaxIndex = 3` the first one, one that replaces it while the
run waits, and one that heals. `MaxGates = 2` are two plan reviews of a run. Three decisions take a
run to publication, six two runs. The budget is overspent by the first call of the third run. A worker
whose step would exceed a bound stops there, which is why no liveness is checked here. `CHECK_DEADLOCK
FALSE`: runs and decisions are finitely many.

## Where code and documents differ without a run

Met while modelling; each is a missing call or a wrong constant rather than a behaviour a run would
show, or follows from a run above.

- `docs/CODING_PIPELINE.md` has the branch pushed to the origin. Publishing creates it at GitHub from
  the head of main (`github_client.py:53-73`); nothing pushes the commits of the workstation, so what is
  published is not what was coded or tested.
- `"pr" in intent` (`coder_pipeline.py:704`) holds for every intent with the word "approve", so
  "approve push branch" opens a pull request.
- Amendments: up to three rounds in `docs/CODING_PIPELINE.md:30`; the count starts anew with each
  resume, only words with the approval of the impact review are applied, and those with the plan
  review are dropped.
- The abort of a stale plan asks to reply with "override". That word alone is no decision, and the
  review it belonged to has been used.
- `README.md:112` has the budget checked "before each completing call". It is compared after the call
  (`router.py:60`, `router.py:80-86`): over budget every further call is made and billed by the provider,
  its answer is dropped and its record rolled back, so that the ledger of costs never shows it.
- `README.md:97` and `README.md:107-109` have each run in a worktree of its own and concurrent runs
  isolated. `worktree_manager.py` has no caller: all runs of a tenant share one checkout, and two runs of
  one ticket share a branch, so that the second can be reported on the commits of the first.
- `docs/CODING_PIPELINE.md:84` has coding blocked when the snapshot does not match the HEAD. Two gates
  compare them, and the baseline sync after them (`coder_pipeline.py:510`) may pull a newer main.
- Where claude is not installed the extension appends "Mocking edit for ..." to `index_stub.txt`, and
  completes the task (`taskRunner.ts:68-86`).
- The SDK's agent, local tests and local git have no time limit, and one that hangs keeps the worker.
- Tests count as passed when the machine is down, because no test runner is found.
- `coding_iterations` lives in the state of one call and never exceeds 1: `max_coding_iterations`
  (`coder_pipeline.py:453`) bounds nothing.
- The extension reports a branch without commits as one commit ahead (`taskRunner.ts:86`).

## Proofs

Six modules hold proofs, one per component and a second one for `CoderRun`. Each proves its theorems
for every value of the constants that the component's assumption admits, and each is built the same
way: an inductive invariant `IInv`, `Init => IInv`, `IInv /\ [Next]_vars => IInv'` with one step per
action, and the properties from `IInv`. TLC has checked every invariant on the component's run before
it was proved. The assumptions are fresh `No...` values, the ranges of settings and bounds, and
finitely many workers where they are counted (`Outbox`, `InboundBus`, `RunContents`).

| Module | Theorem | Property |
|---|---|---|
| `CoderRunProofs` | `TypeCorrect`, `GatesHold` | `TypeOK`, `ThreeGates` |
| | `PipelineImplementsGate` | `ImplementsGate` |
| `CoderRunSerialProofs` | `ApprovalUsedOnce`, `OneReviewAtATime` | `AdvancedOnce`, `OneOpenGate` |
| | `ReportsAreCurrent`, `RefusedIsNotUsed` | `ReportIsCurrent`, `RefusedNotAdvanced` |
| | `PublishedKept` | `PublishedStaysCompleted` |
| `InboundBusProofs` | `TypeCorrect`, `OneRun` | `TypeOK`, `OneRunPerDelivery` |
| | `ClaimedIsKept`, `AckMeansDone` | `NothingLost`, `AckedDone` |
| `OutboxProofs` | `OutboxTypeCorrect`, `SentReached` | `TypeOK`, `SentWasDelivered` |
| | `GivenUpTried`, `OnceDelivered` | `FailedWasTried`, `DeliveredOnce` |
| | `AttemptsEnd`, `FinalRowsStay` | `AttemptsBounded`, `FinalStays` |
| `CodingStageProofs` | `TypeCorrect`, `SleepStops`, `BootsAreOwned` | `TypeOK`, `SleepingIsStopped`, `BootingOwned` |
| | `RunsStayApart`, `ReportsHaveWork` | `RunsDoNotMix`, `ReportHasWork` |
| | `CompletedTasksAreBuilt`, `SilenceIsNoAnswer` | `CompletedWasBuilt`, `NothingWithoutAnswer` |
| `RunContentsProofs` | `TypeCorrect`, `OnlyApprovedIsCoded` | `TypeOK`, `CodesWhatWasApproved` |
| | `ContextIsKept`, `GatedContextIsCoded` | `OneContextPerRun`, `CodesOnGatedContext` |
| | `PublishedIsCoded`, `LedgerIsTrue` | `PublishesWhatWasCoded`, `LedgerTellsTruth` |
| | `OverBudgetIsUnused` | `OverBudgetUnused` |

These are all the safety properties the passing runs check.

### CoderRun: gates and refinement

`ThreeGates` is not inductive: that `RunCoding` happens behind an approved plan depends on what the
worker carries. The invariant `IInv` adds

- `RowsOK`: a status `approved` was put there by a decision, approvals of existing rows only;
- `CarriedOK`: events in the list, requests and sweeps name rows that exist, and an event names the
  run of its approval;
- `WorkerOK(k)`: at each program point, what the next step takes for granted: past the comparison
  the approval in hand was granted, its stage is the one the step belongs to, the run was coded
  before the verification step and passed it before its report.

The argument has two levels. `StepKinds` classifies every action by its effect on reviews and work
(`Quiet`, `Opens`, `Decides`, `Expires`, `Codes`, `Tests`, `Publishes`); everything about tables,
history and the refinement then uses a step only through its kind (`RowsStep`, `ThreeGatesStep`,
`GateStep`). `StepStable` says that rows keep their run and stage and that granted approvals and
work done stay; with it, workers that do not move keep `WorkerOK` (`OtherWorkers`), and `WorkerStep`
treats the one that moves, one step per action.

### CoderRun: one worker, one request

The hypothesis `Serial` is about constants: one worker, one dashboard request at a time, no other
channel. Runs, approvals, faults and executors stay arbitrary. No guard of the code keeps an
approval from being used twice; what does is that it is in one place at a time. The second
invariant `SInv` says so:

- `PlacesOK`: a review waits, is asked for by a request, is named by one event of the list, or is
  resumed from by the worker, and never two of these but for a request that has not committed;
- `UseOK`: as long as it is on its way no stage was passed on it, and one that was used is
  approved and stays so: a sweep that will write over it has read it before it was used;
- `OrderOK`: of the reviews of a run only the newest is on its way, so its stage comes last;
- `BranchOK`: from the report on nothing was coded after the verification step;
- `PublishedOK`: of a published run no review is on its way, but the one whose publication is being
  recorded, and no sweep or late reply that could write its status.

Steps of the worker that leave reviews, requests and list alone are summed up in `Walks`, for which
`WalkStep` proves the invariant once; the steps that move a review from one place to the next
(`OpenStep`, `ConsumeStep`, `HubReadStep`, `HubCommitStep`, `HubPublishStep`) and the sweep are
treated one by one. `OneOpenGate` follows from `OrderOK`: two pending reviews of a run would each
come before the other. `CompletedKept` goes through the writers of `runStatus`.

### InboundBus

`OneRunPerDelivery` counts runs, so its invariant counts copies: the runs started for a message plus
the copies that will start one (in the list, or in the hands of a worker that has not begun) are at
most one for its publication plus one per replay (`RunsOK`). That it is published at most once rests on
the claim: what a request is about to publish is claimed, unpublished and claimed for this request
alone (`ClaimsOK`). `TransportOK` separates the deployments: on Redis the subscription is empty; on
Pub/Sub a message is a dead letter, in the operator's hands, or on the topic, one at a time, and its
deliveries are counted. A worker has a message exactly while it works on it, and acknowledges only
what is done (`WorkerOK`), late acknowledgements included.

### Outbox

`FailedWasTried` compares a column that workers overwrite with what happened. Its invariant says that
nobody, table or session, counts more attempts than were made (`CountsOK`), and that a worker that
has posted has one more behind it than it has read about (`WorkerOK`); lost updates only lower the
count. The proof goes from what a step does to the rows (`RowsStep`) and to the sessions
(`LoadedStep`) to the tables, and treats workers that do not move once (`OtherWorkers`).

What holds for one or two workers has a second invariant, `HInv`. A row becomes final by the commit
of a worker that holds it no longer, so of two workers at most one can touch it again, and past the
limit nobody can (`HeldOK`); what a session read as final still is (`LoadedOK`); with one worker a
reply that has arrived is marked sent or about to be (`OnceOK`), and every attempt but the one under
way is counted (`TriesOK`).

### CodingStage

- `StationOK`: the monitor works on an active row and the worker boots a booting one, so neither
  acts on the machine under the other, although hibernation and boot are several commits each.
- `TreeOK` and `HeadOK`: a branch that is not in the checkout has no work; while git obeys, every
  command of a worker that finds the machine up finds the branch its sync left there, because only a
  boot starts a machine again.
- `RouteOK`, `ResultsOK`: the executor at work is the one `select` chose, and what vouches for a run
  with commits stays: work on its branch, or an agent in the editor that went through its task.
- `AnswersOK`: completed tasks were built where claude is installed, and a command ran only after a yes
  to its own question: a question is asked once, and its row is read under its own id.

### RunContents

`CoreInv` holds for any workers: completed rows of the ledger have their result (`LedgerOK`), a run
has one impact review, about the snapshot in its row, and its plan reviews are of plans made from
that snapshot after its approval (`GatesOK`); what was coded was approved (`HistoryOK`); each phase
of a worker carries a copy of an approved payload (`WorkerOK`), and only one worker ever starts a
run (`OneStarts`). `AloneInv` adds what one worker gives: one plan per run, and a context that is
the newest and of the commit checked out from one gate to the next; with nobody else indexing there
is one row (`OneRow`). `BudgetInv` bounds the answers charged late together with those in flight by
the number of workers; `BilledOK` says that a call that was billed and not charged has no review of
its run beside it, and that a worker about to save its report brings a charge along exactly if its
call was billed.

### Only model-checked

Liveness, which the prover does not handle: `RunsSettle`, `ApprovedGateActedOn`, `Handled`,
`Resolved`, `WorkerComesFree`. The five promises of documents that the code does not
keep are refuted by TLC and have nothing to prove.

## Plan

1. `CoderRun`, `ReviewGate`, proofs of types, gates and refinement. *Done.*
2. `InboundBus`: claim, publish, pop or pull, ack, dead letter, replay, and the proofs of its safety
   properties. *Done.*
3. `Outbox`: enqueue, deliver, retry up to `outbox_max_attempts`, and its proofs. *Done.*
4. `Deployment`, `Workstation`, `IdeTasks`, `CodingStage`: boot and hibernation, checkout, agents,
   tests, editors and mid-run approvals, and the proofs of their safety properties. *Done.*
5. `RunContents`: snapshots and freshness, plans and amendments, ledger, model calls and budget, and
   the proofs of its safety properties. *Done.*
6. `CoderRun` with one worker and one request: the serial properties proved. *Done.*
7. Next: abstract specifications for the other components and proofs that they are implemented: an
   outbox row as a reply that is pending, then sent or given up once; the bus as a set of claimed
   messages that are on their way or done.

## Not modelled

- Policy (`policy_gate.py`, `mcp-policy/engine.py`): pure functions of settings and arguments without
  state or order, where a unit test reaches every rule; their verdict is nondeterministic.
- Message adapters (payload parsing and signatures), Jira and GitHub calls beyond their effect on a run,
  dashboard views and login, settings, audit and metrics, deployment files: input and output, text or
  configuration.
- `checkpoints.load`, `rebuild_checkpoint_state`, `worktree_manager`, `ResilientClient` and the circuit
  breaker's failures: nothing in a deployment reaches them.
- Workflows other than the coder's (architect, status, help): one call and one reply, no review that
  anything resumes from.
- That an idle machine is put to sleep in the end: the monitor is a command somebody schedules, and a
  failed stop is not retried.

`PROJECT.json` lists every component with its status and every hazard with the properties that would
catch it.
