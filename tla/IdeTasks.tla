------------------------------- MODULE IdeTasks -------------------------------
(***************************************************************************)
(* Questions the coding step asks outside the orchestrator and waits for   *)
(* with a bounded number of polls: a coding task for an editor (table      *)
(* ide_tasks, the VS Code extension), and the commands an agent wants to   *)
(* run, each a question of its own (a tool_review row of                   *)
(* pending_approvals, answered by a human).                                *)
(*                                                                         *)
(* Nobody cancels a question: the one who asked stops looking, the row     *)
(* stays as it is and may be answered later.                               *)
(***************************************************************************)
EXTENDS Deployment

CONSTANTS
  Editors,     \* poll loops of the extension; one window may have several
  Questions,   \* the commands the agents may ask about, and their rows
  NoQuestion,
  MaxPolls     \* timeout / 5 seconds: 360 polls for a task, 180 for a command

ASSUME MaxPollsAssumption == MaxPolls \in Nat \ {0}
ASSUME QuestionsAssumption == NoQuestion \notin Questions

VARIABLES
  task,        \* ide_tasks.status of the one task a run asks for
  editor,      \* per poll loop: its step, the task it is at and those it still has to try
  tool,        \* pending_approvals.status of each question about a command
  asking,      \* the question the approval handler of the agent waits for
  doomed,      \* the questions the expiry sweep has read as pending and will expire
  polls,       \* polls the orchestrator made for its current task or question
  built,       \* history: the runs whose task some agent has worked through
  granted      \* history: the questions a human has answered with yes

toolReviews == <<tool, asking, doomed, granted>>
questions == <<task, editor, toolReviews, polls, built>>

TaskStatus == {"none", "pending", "claimed", "completed", "failed"}
ToolStatus == {"none", "pending", "approved", "rejected", "expired"}
Loop == [step: {"idle", "claim", "commit_claim", "work", "complete", "fail"},
         at: Runs \cup {NoRun}, todo: SUBSET Runs]
NoLoop == [step |-> "idle", at |-> NoRun, todo |-> {}]

QuestionsTypeOK ==
  /\ task \in [Runs -> TaskStatus]
  /\ editor \in [Editors -> Loop]
  /\ tool \in [Questions -> ToolStatus]
  /\ asking \in Questions \cup {NoQuestion}
  /\ doomed \in SUBSET Questions
  /\ polls \in 0..(MaxPolls - 1)
  /\ built \in SUBSET Runs
  /\ granted \in SUBSET Questions

QuestionsInit ==
  /\ task = [r \in Runs |-> "none"]
  /\ editor = [e \in Editors |-> NoLoop]
  /\ tool = [q \in Questions |-> "none"]
  /\ asking = NoQuestion
  /\ doomed = {}
  /\ polls = 0
  /\ built = {}
  /\ granted = {}

-----------------------------------------------------------------------------
(* The orchestrator asks and polls *)

Enqueue(r) ==
  /\ task' = [task EXCEPT ![r] = "pending"]
  /\ polls' = 0
  /\ UNCHANGED <<editor, toolReviews, built>>

\* Mutant: the clock is read before the sleep is counted.
PollAnswerOneMore(status, yes, no) ==
  CASE status \in yes -> "yes"
    [] status \in no -> "no"
    [] OTHER -> IF polls < MaxPolls THEN "wait" ELSE "no"

\* One poll: a sleep, a read, and the answer it gives ("wait" to poll again).
\* A read that fails counts like one that found nothing.
PollAnswer(status, yes, no) ==
  CASE status \in yes -> "yes"
    [] status \in no -> "no"
    [] OTHER -> IF polls + 1 < MaxPolls THEN "wait" ELSE "no"

\* Mutant: the elapsed time is not counted.
PollTaskForever(r, answer) ==
  /\ answer = PollAnswer(task[r], {"completed"}, {"failed"})
  /\ polls' = 0
  /\ UNCHANGED <<task, editor, toolReviews, built>>

PollTask(r, answer) ==
  /\ \/ answer = PollAnswer(task[r], {"completed"}, {"failed"})
     \/ MayFail("command") /\ answer = PollAnswer("none", {}, {})
  /\ polls' = (IF answer = "wait" THEN polls + 1 ELSE 0)
  /\ UNCHANGED <<task, editor, toolReviews, built>>

AskTool(q) ==
  /\ tool[q] = "none"
  /\ tool' = [tool EXCEPT ![q] = "pending"]
  /\ asking' = q
  /\ polls' = 0
  /\ UNCHANGED <<task, editor, doomed, granted, built>>

\* Mutant: the handler looks for any approval of a command of the tenant.
PollToolOfTenant(answer) ==
  LET seen == IF "approved" \in {tool[q] : q \in Questions} THEN "approved" ELSE tool[asking] IN
  /\ answer = PollAnswer(seen, {"approved"}, {"rejected"})
  /\ polls' = (IF answer = "wait" THEN polls + 1 ELSE 0)
  /\ asking' = (IF answer = "wait" THEN asking ELSE NoQuestion)
  /\ UNCHANGED <<task, editor, tool, doomed, granted, built>>

\* The handler reads the row it made.  An expired row is not an answer: it
\* polls on until its own timeout.
PollTool(answer) ==
  /\ \/ answer = PollAnswer(tool[asking], {"approved"}, {"rejected"})
     \/ MayFail("command") /\ answer = PollAnswer("none", {}, {})
  /\ polls' = (IF answer = "wait" THEN polls + 1 ELSE 0)
  /\ asking' = (IF answer = "wait" THEN asking ELSE NoQuestion)
  /\ UNCHANGED <<task, editor, tool, doomed, granted, built>>

-----------------------------------------------------------------------------
(* Humans and the expiry sweep *)

\* A Slack button writes whatever the status is; the dashboard asks for a
\* pending row.
AnswerTool(q, status) ==
  /\ tool[q] # "none"
  /\ tool' = [tool EXCEPT ![q] = status]
  /\ granted' = IF status = "approved" THEN granted \cup {q} ELSE granted
  /\ UNCHANGED <<task, editor, asking, doomed, polls, built>>

\* The query of the sweep, for those of the pending rows that are old enough.
SweepReads ==
  /\ doomed = {}
  /\ \E old \in SUBSET {q \in Questions : tool[q] = "pending"} :
       old # {} /\ doomed' = old
  /\ UNCHANGED <<task, editor, tool, asking, granted, polls, built>>

\* Its commit, over whatever was answered in between.
SweepWrites ==
  /\ doomed # {}
  /\ tool' = [q \in Questions |-> IF q \in doomed THEN "expired" ELSE tool[q]]
  /\ doomed' = {}
  /\ UNCHANGED <<task, editor, asking, granted, polls, built>>

-----------------------------------------------------------------------------
(* The extension.  Every call it makes may be lost; it then goes on as if the
   server had refused. *)

AtStep(e, step) == editor[e].step = step

Move(e, step) == editor' = [editor EXCEPT ![e].step = step]

TryOneOf(e, list) ==
  \/ list = {} /\ editor' = [editor EXCEPT ![e] = NoLoop]
  \/ \E r \in list : editor' = [editor EXCEPT ![e] = [step |-> "claim", at |-> r, todo |-> list]]

\* The next task of the list, or back to waiting for the timer.
NextOf(e) == TryOneOf(e, editor[e].todo \ {editor[e].at})

\* setInterval starts a poll whether or not the last one has ended.
PollPending(e) ==
  LET pending == {r \in Runs : task[r] = "pending"} IN
  /\ AtStep(e, "idle")
  /\ pending # {}
  /\ TryOneOf(e, pending)
  /\ UNCHANGED <<task, toolReviews, polls, built>>

\* claim_task reads the row: pending, or claimed already, will do.
ReadClaim(e) ==
  /\ AtStep(e, "claim")
  /\ IF task[editor[e].at] \in {"pending", "claimed"} THEN Move(e, "commit_claim") ELSE NextOf(e)
  /\ UNCHANGED <<task, toolReviews, polls, built>>

\* The commit is blind.  If the response is lost the task stays claimed and
\* nobody works on it.
CommitClaim(e) ==
  /\ AtStep(e, "commit_claim")
  /\ task' = [task EXCEPT ![editor[e].at] = "claimed"]
  /\ \/ Move(e, "work")
     \/ MayFail("editor") /\ NextOf(e)
  /\ UNCHANGED <<toolReviews, polls, built>>

\* Mutant: the agent's exit is not awaited.
ExecuteAgentUnawaited(e) ==
  /\ AtStep(e, "work")
  /\ Move(e, "complete")
  /\ UNCHANGED <<task, toolReviews, polls, built>>

\* The branch is checked out in the editor's folder and claude runs there; where
\* it is not installed an echo writes a stub, and the task completes as well.
ExecuteAgent(e) ==
  /\ AtStep(e, "work")
  /\ \/ /\ Move(e, "complete")
        /\ built' = IF deploy.claude THEN built \cup {editor[e].at} ELSE built
     \/ Move(e, "fail") /\ UNCHANGED built
  /\ UNCHANGED <<task, toolReviews, polls>>

\* complete_task and fail_task write whatever the status is.
Report(e) ==
  /\ \/ AtStep(e, "complete") /\ task' = [task EXCEPT ![editor[e].at] = "completed"]
     \/ AtStep(e, "fail") /\ task' = [task EXCEPT ![editor[e].at] = "failed"]
     \/ MayFail("editor") /\ (AtStep(e, "complete") \/ AtStep(e, "fail")) /\ UNCHANGED task
  /\ NextOf(e)
  /\ UNCHANGED <<toolReviews, polls, built>>

\* The window is closed, at any step.
CloseEditor(e) ==
  /\ MayFail("editor")
  /\ ~AtStep(e, "idle")
  /\ editor' = [editor EXCEPT ![e] = NoLoop]
  /\ UNCHANGED <<task, toolReviews, polls, built>>

Outside ==
  \/ \E q \in Questions, status \in {"approved", "rejected"} : AnswerTool(q, status)
  \/ SweepReads \/ SweepWrites
  \/ \E e \in Editors : \/ PollPending(e) \/ ReadClaim(e) \/ CommitClaim(e)
                        \/ ExecuteAgent(e) \/ Report(e) \/ CloseEditor(e)

-----------------------------------------------------------------------------

(* Where claude is installed, a task is completed only after it worked the
   task through, however many poll loops claimed it, and whichever of their
   answers came last.  (Where it is not, tasks complete on the stub alone.) *)
CompletedWasBuilt ==
  deploy.claude =>
    /\ \A r \in Runs : task[r] = "completed" => r \in built
    /\ \A e \in Editors : AtStep(e, "complete") => editor[e].at \in built
=============================================================================
