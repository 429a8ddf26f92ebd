------------------------- MODULE RunContentsProofs -------------------------
(***************************************************************************)
(* Proofs about RunContents, for any number of runs and workers, any chain *)
(* of providers and any deployments: the types, that a run is coded from   *)
(* what was approved and published as it was coded, that the step ledger   *)
(* tells the truth, and what becomes of the answers that are paid for.     *)
(***************************************************************************)
EXTENDS RunContents, FiniteSetTheorems, SequenceTheorems, TLAPS

-----------------------------------------------------------------------------
(* The phases of a worker that carry something from one place to the next. *)

In(k, step, places) == job[k].step = step /\ pc[k] \in places

\* Between the request and the impact review, and before that review is there.
Starting(k) ==
  \/ In(k, "load_context", {"begin", "read_context", "check_context", "complete"})
  \/ In(k, "assess_impact", {"begin", "ask_llm", "save_impact", "complete"})
Opening(k)    == Starting(k) /\ ~In(k, "assess_impact", {"complete"})
Loaded(k)     == Starting(k) /\ ~In(k, "load_context", {"begin", "read_context", "check_context"})
Planning(k)   == In(k, "generate_plan", {"begin", "plan"})
ReadyToCode(k) == In(k, "execute_coding", {"begin", "read_latest", "coding_gate"})
Coding(k)     == \/ pc[k] = "resume_gate"
                 \/ ReadyToCode(k)
                 \/ In(k, "execute_coding", {"baseline", "code"})
Testing(k)    == \/ In(k, "execute_coding", {"complete"})
                 \/ In(k, "run_tests_and_report", {"begin", "tests", "report"})
Publishing(k) == In(k, "publish", {"begin", "publish"})

\* A place belongs to a step, but for those that several steps pass.
Placed(k) ==
  /\ pc[k] \in {"read_context", "check_context"} => job[k].step = "load_context"
  /\ pc[k] \in {"ask_llm", "save_impact"} => job[k].step = "assess_impact"
  /\ pc[k] = "plan" => job[k].step = "generate_plan"
  /\ pc[k] \in {"read_latest", "coding_gate", "baseline", "code"} => job[k].step = "execute_coding"
  /\ pc[k] \in {"tests", "report"} => job[k].step = "run_tests_and_report"
  /\ pc[k] = "publish" => job[k].step = "publish"

-----------------------------------------------------------------------------
(* The inductive invariant *)

\* What the completion of a step vouches for.
Result(r, step) ==
  CASE step = "load_context"         -> runCtx[r] # 0
    [] step = "assess_impact"        -> gate[r]["impact"] # <<>>
    [] step = "generate_plan"        -> gate[r]["plan"] # <<>> /\ plans[r] # <<>>
    [] step = "execute_coding"       -> \E c \in coded : c.run = r
    [] step = "run_tests_and_report" -> gate[r]["publish"] # <<>>
    [] step = "publish"              -> \E p \in published : p.run = r

Done(r, step) == \E n \in DOMAIN ledger[r][step] : ledger[r][step][n] = "completed"

LedgerOK == \A r \in Runs, step \in Steps : Done(r, step) => Result(r, step)

CodedPlan(r, plan) == \E c \in coded : c.run = r /\ c.plan = plan

ApprovedCopy(r, stage, n) ==
  n \in DOMAIN gate[r][stage] /\ gate[r][stage][n].status = "approved"

\* A run has one impact review, of the snapshot in its row; plan reviews are of
\* plans made from that snapshot after it was approved; what a publish review is
\* about was coded.
GatesOK ==
  \A r \in Runs :
    /\ runCtx[r] <= Len(index)
    /\ Len(gate[r]["impact"]) <= 1
    /\ gate[r]["impact"] # <<>> => ledger[r]["load_context"] # <<>>
    /\ \A n \in DOMAIN gate[r]["impact"] : gate[r]["impact"][n].payload.snap = runCtx[r]
    /\ \A n \in DOMAIN gate[r]["plan"] :
         /\ gate[r]["plan"][n].payload.snap = runCtx[r]
         /\ ApprovedCopy(r, "impact", 1)
         /\ plans[r] # <<>>
    /\ \A n \in DOMAIN gate[r]["publish"] : CodedPlan(r, gate[r]["publish"][n].payload)

HistoryOK ==
  /\ \A c \in coded :
       /\ \E n \in DOMAIN gate[c.run]["plan"] :
            ApprovedCopy(c.run, "plan", n) /\ gate[c.run]["plan"][n].payload = c.plan
       /\ c.healed \/ c.ctx = c.plan.snap
       /\ c.ctx <= Len(index)
  /\ \A p \in published :
       /\ CodedPlan(p.run, p.report)
       /\ \E n \in DOMAIN plans[p.run] : plans[p.run][n] = p.plan

\* Worker k has what its next step takes for granted.
WorkerOK(k) ==
  LET now == job[k]
      r == now.run
  IN
  /\ pc[k] = "idle" <=> r = NoRun
  /\ pc[k] # "idle" => k \in deploy.workers
  /\ Placed(k)
  /\ now.ctx <= Len(index) /\ now.latest <= Len(index)
  /\ pc[k] \in {"check_context", "save_impact"} => now.ctx # 0
  /\ pc[k] = "complete" => Result(r, now.step)
  /\ Starting(k) => \/ In(k, "load_context", {"begin"})
                    \/ ledger[r]["load_context"] # <<>>
  /\ Opening(k) => gate[r]["impact"] = <<>>
  /\ Loaded(k) => now.ctx \in {0, runCtx[r]}
  /\ pc[k] = "resume" => now.copy \in DOMAIN gate[r][now.stage]
  /\ Planning(k) => ApprovedCopy(r, "impact", 1) /\ now.ctx = runCtx[r]
  /\ Coding(k) =>
       /\ ApprovedCopy(r, "plan", now.copy)
       /\ gate[r]["plan"][now.copy].payload = now.plan
       /\ now.healed \/ now.ctx = now.plan.snap
       /\ now.ctx # 0
  /\ Testing(k) => CodedPlan(r, now.plan)
  /\ Publishing(k) =>
       /\ now.copy \in DOMAIN gate[r]["publish"]
       /\ \E n \in DOMAIN plans[r] : plans[r][n] = now.plan

\* Only one worker ever starts a run.
OneStarts ==
  \A j, k \in Workers : Starting(j) /\ Starting(k) /\ job[j].run = job[k].run => j = k

CoreInv == TypeOK /\ LedgerOK /\ GatesOK /\ HistoryOK /\ OneStarts /\ \A k \in Workers : WorkerOK(k)

\* With one worker a run has one plan, which its plan review is about: a review
\* is resumed while it is pending, the impact review before there is a plan.
OnePlan ==
  \A r \in Runs :
    /\ Len(plans[r]) <= 1
    /\ plans[r] # <<>> => ApprovedCopy(r, "impact", 1)
    /\ \A n \in DOMAIN gate[r]["plan"] : gate[r]["plan"][n].payload = plans[r][1]

ResumesOnce(k) ==
  /\ pc[k] = "resume" => gate[job[k].run][job[k].stage][job[k].copy].status = "pending"
  /\ Planning(k) => plans[job[k].run] = <<>>

\* With one worker and nobody else indexing, the context that passed a gate is
\* the newest and of the commit checked out, until the stage itself moves on.
Excused(k) == job[k].blind \/ job[k].said = "override"
FreshWorker(k) ==
  LET now == job[k] IN
  /\ pc[k] = "resume_gate" => now.ctx = Len(index) /\ now.latest = Len(index)
  /\ ReadyToCode(k) => now.ctx = Len(index) /\ (Excused(k) \/ index[now.ctx] = head)
  /\ pc[k] = "coding_gate" => now.latest = Len(index)
  /\ In(k, "execute_coding", {"baseline", "code"}) => Excused(k) \/ index[now.ctx] = now.saw

Controlled == deploy.staged /\ ~deploy.outside

\* One indexer at a time leaves one row.
OneRow == Alone /\ ~deploy.outside => live \subseteq {Len(index)}

AloneInv ==
  /\ CodesOnGatedContext
  /\ OneRow
  /\ Alone => OnePlan /\ \A k \in Workers : ResumesOnce(k) /\ (Controlled => FreshWorker(k))

\* The workers whose call of the model is made and not yet charged.
InFlight == {k \in deploy.workers : pc[k] = "save_impact" /\ job[k].charged}

\* The runs whose call was charged late.
Late == {r \in Runs : calls[r] = "late"}

BudgetInv ==
  /\ IsFiniteSet(Late)
  /\ spent <= Budget => Late = {}
  /\ spent > Budget => Cardinality(Late) + Cardinality(InFlight) < Cardinality(deploy.workers)

\* An answer that is billed and not charged is about to be, or of no use.
BilledOK ==
  /\ \A r \in Runs : calls[r] = "billed" => gate[r]["impact"] = <<>>
  /\ \A k \in Workers : pc[k] = "save_impact" =>
       (job[k].charged <=> calls[job[k].run] = "billed")

IInv == CoreInv /\ AloneInv /\ BudgetInv /\ BilledOK

-----------------------------------------------------------------------------
(* Types *)

LEMMA BoundsTyped ==
  Budget \in Nat /\ MaxPushes \in Nat /\ MaxIndex \in Nat /\ MaxIndex # 0 /\ MaxGates \in Nat
  BY RunContentsAssumption

LEMMA NoRunIsNone == NoRun \notin Runs
  BY RunContentsAssumption

USE BoundsTyped, NoRunIsNone

LEMMA DeployTyped ==
  ASSUME TypeOK
  PROVE  /\ deploy.workers \in SUBSET Workers /\ deploy.workers # {}
         /\ deploy.runs \in SUBSET Runs /\ deploy.decisions \in Nat
         /\ deploy.staged \in BOOLEAN /\ deploy.local \in BOOLEAN /\ deploy.outside \in BOOLEAN
  BY RunContentsAssumption DEF TypeOK

LEMMA JobTyped ==
  ASSUME TypeOK, NEW k \in Workers
  PROVE  /\ job[k] \in Job
         /\ pc[k] \in Places
         /\ job[k].run \in Runs \cup {NoRun} /\ job[k].step \in Steps /\ job[k].row \in Nat
         /\ job[k].stage \in Stages /\ job[k].copy \in 0..MaxGates
         /\ job[k].approve \in BOOLEAN /\ job[k].said \in Said
         /\ job[k].ctx \in 0..MaxIndex /\ job[k].latest \in 0..MaxIndex
         /\ job[k].plan \in Plan /\ job[k].saw \in Shas
         /\ job[k].blind \in BOOLEAN /\ job[k].healed \in BOOLEAN /\ job[k].charged \in BOOLEAN
<1>1. job[k] \in Job /\ pc[k] \in Places
  BY DEF TypeOK
<1> QED
  BY <1>1 DEF Job

\* Who moves is one worker.
LEMMA Moves ==
  ASSUME TypeOK, NEW k \in Workers, NEW place, NEW now, Goto(k, place, now)
  PROVE  /\ pc'[k] = place /\ job'[k] = now
         /\ \A j \in Workers : j # k => pc'[j] = pc[j] /\ job'[j] = job[j]
  BY DEF Goto, TypeOK

LEMMA MovesTyped ==
  ASSUME TypeOK, NEW k \in Workers, NEW place \in Places, NEW now \in Job, Goto(k, place, now)
  PROVE  pc' \in [Workers -> Places] /\ job' \in [Workers -> Job]
  BY DEF Goto, TypeOK

LEMMA NoJobTyped == NoJob \in Job
  BY DEF NoJob, NoPlan, Job, Steps, Stages, Said, Plan, Shas, Unknown

LEMMA EntersTyped ==
  ASSUME TypeOK, NEW k \in Workers, NEW step \in Steps, NEW now \in Job, Enter(k, step, now)
  PROVE  pc' \in [Workers -> Places] /\ job' \in [Workers -> Job]
<1>1. [now EXCEPT !.step = step] \in Job
  BY DEF Job
<1> QED
  BY <1>1, MovesTyped DEF Enter, Places

LEMMA EndsTyped ==
  ASSUME TypeOK, NEW k \in Workers, End(k)
  PROVE  pc' \in [Workers -> Places] /\ job' \in [Workers -> Job]
  BY MovesTyped, NoJobTyped DEF End, Places

LEMMA LatestTyped == ASSUME TypeOK PROVE Latest \in 0..MaxIndex /\ Len(index) \in Nat
  BY DEF TypeOK, Latest

LEMMA IndexTyped ==
  ASSUME TypeOK, NEW sha \in 0..Branch, Index(sha)
  PROVE  /\ index' \in Seq(0..Branch) /\ Len(index') <= MaxIndex /\ Len(index') \in Nat
         /\ live' \subseteq DOMAIN index'
<1>1. index \in Seq(0..Branch) /\ index' = Append(index, sha) /\ Len(index) \in Nat
  BY DEF TypeOK, Index
<1>2. DOMAIN index = 1..Len(index) /\ DOMAIN index' = 1..(Len(index) + 1)
  BY <1>1
<1>3. live' \subseteq live \cup {Len(index) + 1} /\ live \subseteq DOMAIN index
  BY DEF Index, Replace, Latest, TypeOK
<1>4. live' \subseteq DOMAIN index'
  BY <1>1, <1>2, <1>3
<1> QED
  BY <1>1, <1>4 DEF Index

LEMMA OpensTyped ==
  ASSUME TypeOK, NEW r \in Runs, NEW stage \in Stages, NEW payload \in Plan,
         OpenGate(r, stage, payload)
  PROVE  /\ gate' \in [Runs -> [Stages -> Seq(Gate)]]
         /\ \A q \in Runs, s \in Stages : Len(gate'[q][s]) <= MaxGates
<1>1. [status |-> "pending", payload |-> payload] \in Gate
  BY DEF Gate
<1>2. gate[r][stage] \in Seq(Gate)
  BY DEF TypeOK
<1> DEFINE g == Append(gate[r][stage], [status |-> "pending", payload |-> payload])
<1>3. g \in Seq(Gate) /\ Len(g) <= MaxGates
  BY <1>1, <1>2 DEF OpenGate
<1>4. gate' = [gate EXCEPT ![r][stage] = g]
  BY DEF OpenGate, TypeOK
<1> HIDE DEF g
<1>5. gate' \in [Runs -> [Stages -> Seq(Gate)]]
  BY <1>3, <1>4 DEF TypeOK
<1>6. \A q \in Runs, s \in Stages : Len(gate'[q][s]) <= MaxGates
  BY <1>3, <1>4 DEF TypeOK
<1> QED
  BY <1>5, <1>6

\* An assignment to an element of a sequence, whether or not it has that element.
LEMMA SeqAssigned ==
  ASSUME NEW S, NEW q \in Seq(S), NEW i, NEW e \in S
  PROVE  /\ [q EXCEPT ![i] = e] \in Seq(S)
         /\ Len([q EXCEPT ![i] = e]) = Len(q)
         /\ \A j \in DOMAIN q : [q EXCEPT ![i] = e][j] = IF j = i THEN e ELSE q[j]
<1>1. CASE i \in 1..Len(q)
  BY <1>1, ExceptSeq, LenProperties
<1>2. CASE i \notin 1..Len(q)
  <2>1. [q EXCEPT ![i] = e] = q
    BY <1>2, LenProperties
  <2> QED
    BY <1>2, <2>1, LenProperties
<1> QED
  BY <1>1, <1>2

LEMMA LedgerTyped ==
  ASSUME TypeOK, NEW k \in Workers, NEW status \in {"running", "completed", "failed"},
         SetStep(k, status)
  PROVE  ledger' \in [Runs -> [Steps -> Seq({"running", "completed", "failed"})]]
<1> DEFINE S == {"running", "completed", "failed"}
           r == job[k].run
           s == job[k].step
           new == [ledger[r][s] EXCEPT ![job[k].row] = status]
<1>1. CASE r \in Runs
  <2>1. ledger[r][s] \in Seq(S) /\ s \in Steps
    BY <1>1, JobTyped DEF TypeOK
  <2>2. new \in Seq(S)
    BY <2>1, SeqAssigned
  <2>3. ledger' = [ledger EXCEPT ![r][s] = new]
    BY DEF SetStep
  <2> QED
    BY <1>1, <2>1, <2>2, <2>3 DEF TypeOK
<1>2. CASE r \notin Runs
  BY <1>2 DEF SetStep, TypeOK
<1> QED
  BY <1>1, <1>2

\* What is left when the places, jobs and rows of the workers are typed.
LEMMA RestTyped ==
  ASSUME TypeOK, UNCHANGED <<deploy, repository, runCtx, gate, plans, spent, history>>,
         ledger' \in [Runs -> [Steps -> Seq({"running", "completed", "failed"})]],
         pc' \in [Workers -> Places] /\ job' \in [Workers -> Job]
  PROVE  TypeOK'
  BY DEF TypeOK, repository, history

\* A worker that is not idle works on a run.
LEMMA AtRun ==
  ASSUME TypeOK, NEW k \in Workers, WorkerOK(k), pc[k] # "idle"
  PROVE  job[k].run \in Runs
  BY JobTyped DEF WorkerOK

LEMMA DeliveryTypes ==
  ASSUME TypeOK, NEW k \in Workers, WorkerOK(k)
  PROVE  /\ \A r \in Runs : Receive(k, r) => TypeOK'
         /\ BeginStep(k) => TypeOK'
         /\ CompleteStep(k) => TypeOK'
         /\ StepFails(k) => TypeOK'
         /\ WorkerDies(k) => TypeOK'
<1>1. ASSUME NEW r \in Runs, Receive(k, r) PROVE TypeOK'
  <2>1. [NoJob EXCEPT !.run = r] \in Job /\ "load_context" \in Steps
    BY NoJobTyped DEF Job, Steps
  <2>2. pc' \in [Workers -> Places] /\ job' \in [Workers -> Job]
    BY <1>1, <2>1, EntersTyped DEF Receive
  <2> QED
    BY <1>1, <2>2, RestTyped DEF Receive, tables, TypeOK
<1>2. ASSUME BeginStep(k) PROVE TypeOK'
  <2> DEFINE now == job[k]
             rows == ledger[now.run][now.step]
             again == rows # <<>> /\ rows[Len(rows)] = "completed"
  <2>1. now.run \in Runs /\ now.step \in Steps /\ now \in Job
    BY <1>2, AtRun, JobTyped DEF BeginStep, At
  <2>2. rows \in Seq({"running", "completed", "failed"}) /\ Len(rows) \in Nat
    BY <2>1 DEF TypeOK
  <2> DEFINE row == IF again THEN Len(rows) ELSE Len(rows) + 1
  <2>3. PICK place \in Places : Goto(k, place, [now EXCEPT !.row = row])
    BY <1>2, <2>1 DEF BeginStep, Places, Steps
  <2>a. row \in Nat
    <3> HIDE DEF rows, again
    <3> QED
      BY <2>2
  <2> HIDE DEF row
  <2>4. [now EXCEPT !.row = row] \in Job
    BY <2>1, <2>a DEF Job
  <2>5. pc' \in [Workers -> Places] /\ job' \in [Workers -> Job]
    BY <2>3, <2>4, MovesTyped
  <2>6. Append(rows, "running") \in Seq({"running", "completed", "failed"})
    BY <2>2
  <2>7. ledger' \in [Runs -> [Steps -> Seq({"running", "completed", "failed"})]]
    BY <1>2, <2>1, <2>6 DEF BeginStep, TypeOK
  <2> QED
    BY <1>2, <2>5, <2>7, RestTyped DEF BeginStep
<1>3. ASSUME CompleteStep(k) PROVE TypeOK'
  <2>1. job[k] \in Job /\ job[k].run \in Runs /\ job[k].plan \in Plan
    BY <1>3, AtRun, JobTyped DEF CompleteStep, At
  <2>2. [NoJob EXCEPT !.run = job[k].run, !.plan = job[k].plan] \in Job
    BY <2>1, NoJobTyped DEF Job
  <2>3. \/ Enter(k, "assess_impact", job[k])
        \/ Enter(k, "run_tests_and_report", [NoJob EXCEPT !.run = job[k].run, !.plan = job[k].plan])
        \/ End(k)
    BY <1>3 DEF CompleteStep
  <2>4. pc' \in [Workers -> Places] /\ job' \in [Workers -> Job]
    BY <2>1, <2>2, <2>3, EntersTyped, EndsTyped DEF Steps
  <2> QED
    BY <1>3, <2>4, LedgerTyped, RestTyped DEF CompleteStep
<1>4. ASSUME StepFails(k) PROVE TypeOK'
  BY <1>4, EndsTyped, LedgerTyped, RestTyped DEF StepFails
<1>5. ASSUME WorkerDies(k) PROVE TypeOK'
  BY <1>5, EndsTyped, RestTyped DEF WorkerDies, tables, TypeOK
<1> QED
  BY <1>1, <1>2, <1>3, <1>4, <1>5

LEMMA SyncTyped ==
  ASSUME TypeOK, SyncRepo
  PROVE  /\ head' \in 0..Branch /\ index' \in Seq(0..Branch) /\ Len(index') \in 0..MaxIndex
         /\ live' \subseteq DOMAIN index'
<1>1. origin \in 0..Branch
  BY DEF TypeOK, Branch
<1> QED
  BY <1>1, IndexTyped, LatestTyped DEF SyncRepo, KeepIndex, TypeOK, Latest

\* HEAD as a worker sees it.
LEMMA SeenTyped == ASSUME TypeOK, NEW sha \in HeadSeen PROVE sha \in Shas
  BY DEF TypeOK, HeadSeen, Shas, Unknown, Branch

LEMMA StartTypes ==
  ASSUME TypeOK, NEW k \in Workers, WorkerOK(k)
  PROVE  /\ ReadContext(k) => TypeOK'
         /\ ContextMissing(k) => TypeOK'
         /\ AssessWithoutContext(k) => TypeOK'
         /\ CheckContext(k) => TypeOK'
         /\ AskLlm(k) => TypeOK'
         /\ SaveImpact(k) => TypeOK'
<1>0. job[k] \in Job /\ head \in 0..Branch /\ index \in Seq(0..Branch) /\ Len(index) \in 0..MaxIndex
      /\ live \subseteq DOMAIN index
  BY JobTyped, LatestTyped DEF TypeOK, Latest
<1>1. ASSUME ReadContext(k) PROVE TypeOK'
  <2>1. /\ head' \in 0..Branch /\ index' \in Seq(0..Branch) /\ Len(index') \in 0..MaxIndex
        /\ live' \subseteq DOMAIN index'
    BY <1>0, <1>1, SyncTyped, IndexTyped DEF ReadContext, KeepIndex
  <2>2. [job[k] EXCEPT !.ctx = Len(index'), !.latest = Len(index')] \in Job
    BY <1>0, <2>1 DEF Job
  <2>3. pc' \in [Workers -> Places] /\ job' \in [Workers -> Job]
    BY <1>1, <2>2, MovesTyped DEF ReadContext, Places
  <2> QED
    BY <1>1, <2>1, <2>3 DEF ReadContext, TypeOK, tables, history
<1>2. ASSUME ContextMissing(k) PROVE TypeOK'
  <2>1. /\ head' \in 0..Branch /\ index' \in Seq(0..Branch) /\ Len(index') \in 0..MaxIndex
        /\ live' \subseteq DOMAIN index'
    BY <1>2, SyncTyped DEF ContextMissing
  <2>2. pc' \in [Workers -> Places] /\ job' \in [Workers -> Job]
    BY <1>0, <1>2, EntersTyped DEF ContextMissing, Steps
  <2>3. ledger' \in [Runs -> [Steps -> Seq({"running", "completed", "failed"})]]
    BY <1>2, LedgerTyped DEF ContextMissing
  <2> QED
    BY <1>2, <2>1, <2>2, <2>3 DEF ContextMissing, TypeOK, history
<1>3. ASSUME AssessWithoutContext(k) PROVE TypeOK'
  BY <1>3, EndsTyped, RestTyped DEF AssessWithoutContext, tables, TypeOK
<1>4. ASSUME CheckContext(k) PROVE TypeOK'
  <2>1. /\ head' \in 0..Branch /\ index' \in Seq(0..Branch) /\ Len(index') \in 0..MaxIndex
        /\ live' \subseteq DOMAIN index'
    BY <1>0, <1>4, SyncTyped, IndexTyped DEF CheckContext, KeepIndex
  <2>2. PICK ctx \in 0..MaxIndex :
          /\ runCtx' = [runCtx EXCEPT ![job[k].run] = ctx]
          /\ Goto(k, "complete", [job[k] EXCEPT !.ctx = ctx, !.latest = 0])
    BY <1>4, <2>1, JobTyped DEF CheckContext
  <2>3. [job[k] EXCEPT !.ctx = ctx, !.latest = 0] \in Job
    <3>1. 0 \in 0..MaxIndex
      BY BoundsTyped
    <3> QED
      BY <1>0, <3>1 DEF Job
  <2>4. pc' \in [Workers -> Places] /\ job' \in [Workers -> Job]
    BY <2>2, <2>3, MovesTyped DEF Places
  <2>5. runCtx' \in [Runs -> 0..MaxIndex]
    BY <2>2 DEF TypeOK
  <2> QED
    BY <1>4, <2>1, <2>4, <2>5, SMTT(20) DEF CheckContext, TypeOK, history
<1>5. ASSUME AskLlm(k) PROVE TypeOK'
  <2>0. calls' \in [Runs -> {"none", "billed", "charged", "late"}]
    <3>1. PICK c \in {"none", "billed"} : calls' = [calls EXCEPT ![job[k].run] = c]
      BY <1>5 DEF AskLlm
    <3> QED
      BY <3>1 DEF TypeOK
  <2>a. ASSUME ledger' \in [Runs -> [Steps -> Seq({"running", "completed", "failed"})]],
               pc' \in [Workers -> Places] /\ job' \in [Workers -> Job]
        PROVE  TypeOK'
    BY <1>5, <2>0, <2>a DEF AskLlm, TypeOK, repository
  <2>1. CASE SetStep(k, "failed") /\ End(k)
    BY <2>1, <2>a, EndsTyped, LedgerTyped
  <2>2. CASE (\E b \in BOOLEAN : Goto(k, "save_impact", [job[k] EXCEPT !.charged = b])) /\ UNCHANGED ledger
    <3>1. PICK b \in BOOLEAN : Goto(k, "save_impact", [job[k] EXCEPT !.charged = b])
      BY <2>2
    <3>2. [job[k] EXCEPT !.charged = b] \in Job
      BY <1>0 DEF Job
    <3>3. pc' \in [Workers -> Places] /\ job' \in [Workers -> Job]
      BY <3>1, <3>2, MovesTyped DEF Places
    <3>4. ledger' \in [Runs -> [Steps -> Seq({"running", "completed", "failed"})]]
      BY <2>2 DEF TypeOK
    <3> QED
      BY <2>a, <3>3, <3>4
  <2> QED
    BY <1>5, <2>1, <2>2 DEF AskLlm
<1>6. ASSUME SaveImpact(k) PROVE TypeOK'
  <2>1. job[k].run \in Runs
    BY <1>6, AtRun DEF SaveImpact, At
  <2>2. [snap |-> job[k].ctx, amended |-> FALSE] \in Plan /\ "impact" \in Stages
    BY JobTyped DEF Plan, Stages
  <2>3. /\ gate' \in [Runs -> [Stages -> Seq(Gate)]]
        /\ \A r \in Runs, s \in Stages : Len(gate'[r][s]) <= MaxGates
    BY <1>6, <2>1, <2>2, OpensTyped DEF SaveImpact
  <2>4. pc' \in [Workers -> Places] /\ job' \in [Workers -> Job]
    BY <1>0, <1>6, MovesTyped DEF SaveImpact, Places
  <2>5. spent' \in Nat
    BY <1>6 DEF SaveImpact, TypeOK
  <2>6. calls' \in [Runs -> {"none", "billed", "charged", "late"}]
    <3>1. calls' = calls \/ \E c \in {"late", "charged"} : calls' = [calls EXCEPT ![job[k].run] = c]
      BY <1>6 DEF SaveImpact
    <3> QED
      BY <3>1 DEF TypeOK
  <2> QED
    BY <1>6, <2>3, <2>4, <2>5, <2>6 DEF SaveImpact, TypeOK, repository
<1> QED
  BY <1>1, <1>2, <1>3, <1>4, <1>5, <1>6

LEMMA ResumeTypes ==
  ASSUME TypeOK, HistoryOK, GatesOK, NEW k \in Workers, WorkerOK(k)
  PROVE  /\ \A r \in Runs, stage \in Stages : \A n \in DOMAIN gate[r][stage], text \in Texts(stage) :
              Decide(k, r, stage, n, text) => TypeOK'
         /\ Resume(k) => TypeOK'
         /\ ResumeGate(k) => TypeOK'
         /\ GeneratePlan(k) => TypeOK'
<1>0. job[k] \in Job /\ head \in 0..Branch /\ index \in Seq(0..Branch) /\ Len(index) \in 0..MaxIndex
      /\ live \subseteq DOMAIN index
      /\ 0 \in 0..MaxIndex
  BY JobTyped, LatestTyped, BoundsTyped DEF TypeOK, Latest
<1>1. ASSUME NEW r \in Runs, NEW stage \in Stages, NEW n \in DOMAIN gate[r][stage],
             NEW text \in Texts(stage), Decide(k, r, stage, n, text)
      PROVE  TypeOK'
  <2>1. n \in 0..MaxGates
    <3>1. gate[r][stage] \in Seq(Gate) /\ Len(gate[r][stage]) <= MaxGates
      BY DEF TypeOK
    <3> QED
      BY <3>1
  <2>2. Parse(text).approve \in BOOLEAN /\ Parse(text).said \in Said
    BY DEF Parse, Texts, Said
  <2> DEFINE approve == Parse(text).approve
             said == Parse(text).said
  <2>3. Goto(k, "resume", [NoJob EXCEPT !.run = r, !.stage = stage, !.copy = n,
                             !.approve = approve, !.said = said])
    BY <1>1 DEF Decide
  <2> HIDE DEF approve, said
  <2>4. [NoJob EXCEPT !.run = r, !.stage = stage, !.copy = n, !.approve = approve,
           !.said = said] \in Job
    BY <2>1, <2>2, NoJobTyped DEF Job, approve, said
  <2>5. pc' \in [Workers -> Places] /\ job' \in [Workers -> Job]
    BY <2>3, <2>4, MovesTyped DEF Places
  <2>6. decisions' \in 0..deploy.decisions
    <3>1. deploy.decisions \in Nat /\ decisions \in 0..deploy.decisions
      BY DeployTyped DEF TypeOK
    <3>2. decisions < deploy.decisions /\ decisions' = decisions + 1
      BY <1>1 DEF Decide
    <3> QED
      BY <3>1, <3>2
  <2> QED
    BY <1>1, <2>5, <2>6 DEF Decide, TypeOK, repository, tables
<1>2. ASSUME Resume(k) PROVE TypeOK'
  <2> DEFINE now == job[k]
             r == now.run
             status == gate[r][now.stage][now.copy].status
             decided == IF status # "pending" THEN status
                        ELSE IF now.approve THEN "approved" ELSE "rejected"
             ctx == ContextOfRun(r)
             next == [now EXCEPT !.ctx = ctx, !.latest = Latest]
             old == gate[r][now.stage]
             row == [old[now.copy] EXCEPT !.status = decided]
             new == [old EXCEPT ![now.copy] = row]
  <2>1. r \in Runs /\ now.stage \in Stages /\ now.copy \in DOMAIN gate[r][now.stage]
    BY <1>2, AtRun, JobTyped DEF Resume, At, WorkerOK
  <2>2. old \in Seq(Gate) /\ old[now.copy] \in Gate
    BY <2>1, ElementOfSeq, LenProperties DEF TypeOK
  <2>3. status \in {"pending", "approved", "rejected"} /\ old[now.copy].payload \in Plan
    BY <2>2 DEF Gate
  <2>4. decided \in {"pending", "approved", "rejected"}
    BY <2>3
  <2>5. gate' = [gate EXCEPT ![r][now.stage] = new]
    BY <1>2, <2>1 DEF Resume, TypeOK
  <2>6. row \in Gate
    <3> HIDE DEF decided
    <3> QED
      BY <2>2, <2>4 DEF Gate
  <2>7. new \in Seq(Gate) /\ Len(new) = Len(old)
    <3>1. ASSUME NEW i PROVE [old EXCEPT ![i] = row] \in Seq(Gate) /\ Len([old EXCEPT ![i] = row]) = Len(old)
      <4> HIDE DEF row, old
      <4> QED
        BY <2>2, <2>6, SeqAssigned
    <3> QED
      BY <3>1
  <2> HIDE DEF new
  <2>8. /\ gate' \in [Runs -> [Stages -> Seq(Gate)]]
        /\ \A q \in Runs, s \in Stages : Len(gate'[q][s]) <= MaxGates
    <3>1. gate' \in [Runs -> [Stages -> Seq(Gate)]]
      BY <2>1, <2>5, <2>7 DEF TypeOK
    <3> QED
      BY <2>1, <2>5, <2>7, <3>1 DEF TypeOK
  <2>9. ctx \in 0..MaxIndex /\ Latest \in 0..MaxIndex
    BY <1>0 DEF ContextOfRun, Latest, TypeOK
  <2>10. next \in Job
    <3> HIDE DEF ctx
    <3> QED
      BY <1>0, <2>9 DEF Job
  <2> HIDE DEF next
  <2>11. ASSUME now.stage = "plan"
         PROVE  [next EXCEPT !.plan = PlanOfReview(r, now.copy)] \in Job
    <3>1. PlanOfReview(r, now.copy) \in Plan
      BY <2>3, <2>11 DEF PlanOfReview
    <3> QED
      BY <2>10, <3>1 DEF Job
  <2>12. ASSUME now.stage = "publish"
         PROVE  [next EXCEPT !.plan = plans[r][Len(plans[r])]] \in Job
    <3>1. PICK c \in coded : c.run = r
      BY <2>1, <2>12 DEF GatesOK, CodedPlan
    <3>2. gate[r]["plan"] # <<>>
      BY <3>1 DEF HistoryOK
    <3>3. plans[r] # <<>> /\ plans[r] \in Seq(Plan)
      BY <2>1, <3>1 DEF HistoryOK, GatesOK, TypeOK
    <3>4. plans[r][Len(plans[r])] \in Plan
      BY <3>3, EmptySeq, ElementOfSeq
    <3> QED
      BY <2>10, <3>4 DEF Job
  <2>13. pc' \in [Workers -> Places] /\ job' \in [Workers -> Job]
    <3>1. \/ End(k)
          \/ Enter(k, "generate_plan", next)
          \/ /\ now.stage = "plan"
             /\ \/ Goto(k, "resume_gate", [next EXCEPT !.plan = PlanOfReview(r, now.copy)])
                \/ Enter(k, "execute_coding", [next EXCEPT !.plan = PlanOfReview(r, now.copy)])
          \/ /\ now.stage = "publish"
             /\ Enter(k, "publish", [next EXCEPT !.plan = plans[r][Len(plans[r])]])
      BY <1>2 DEF Resume, next
    <3> QED
      BY <2>10, <2>11, <2>12, <3>1, EndsTyped, EntersTyped, MovesTyped DEF Steps, Places
  <2> QED
    BY <1>2, <2>8, <2>13 DEF Resume, TypeOK, repository, history
<1>3. ASSUME ResumeGate(k) PROVE TypeOK'
  <2>1. PICK sha \in HeadSeen :
          \/ End(k)
          \/ Enter(k, "execute_coding", [job[k] EXCEPT !.latest = 0, !.blind = (sha = Unknown)])
    BY <1>3 DEF ResumeGate
  <2> DEFINE blind == sha = Unknown
  <2>2. blind \in BOOLEAN
    OBVIOUS
  <2> HIDE DEF blind
  <2>3. [job[k] EXCEPT !.latest = 0, !.blind = blind] \in Job
    BY <1>0, <2>2 DEF Job
  <2>4. pc' \in [Workers -> Places] /\ job' \in [Workers -> Job]
    BY <2>1, <2>3, EndsTyped, EntersTyped DEF Steps, blind
  <2> QED
    BY <1>3, <2>4, RestTyped DEF ResumeGate, tables, TypeOK
<1>4. ASSUME GeneratePlan(k) PROVE TypeOK'
  <2> DEFINE now == job[k]
             plan == [snap |-> now.ctx, amended |-> now.said = "amend"]
  <2>1. now.run \in Runs
    BY <1>4, AtRun DEF GeneratePlan, At
  <2>2. plan \in Plan /\ "plan" \in Stages
    BY JobTyped DEF Plan, Stages
  <2>3. plans' = [plans EXCEPT ![now.run] = Append(@, plan)] /\ OpenGate(now.run, "plan", plan)
    BY <1>4 DEF GeneratePlan, SavedPlan
  <2> HIDE DEF plan
  <2>4. /\ gate' \in [Runs -> [Stages -> Seq(Gate)]]
        /\ \A r \in Runs, s \in Stages : Len(gate'[r][s]) <= MaxGates
    BY <2>1, <2>2, <2>3, OpensTyped
  <2>5. plans' \in [Runs -> Seq(Plan)]
    BY <2>1, <2>2, <2>3 DEF TypeOK
  <2>6. pc' \in [Workers -> Places] /\ job' \in [Workers -> Job]
    BY <1>0, <1>4, MovesTyped DEF GeneratePlan, Places
  <2>7. spent' \in Nat
    BY <1>4 DEF GeneratePlan, TypeOK
  <2> QED
    BY <1>4, <2>4, <2>5, <2>6, <2>7 DEF GeneratePlan, TypeOK, repository, history
<1> QED
  BY <1>1, <1>2, <1>3, <1>4

LEMMA CodingTypes ==
  ASSUME TypeOK, HistoryOK, NEW k \in Workers, WorkerOK(k)
  PROVE  /\ ReadLatest(k) => TypeOK'
         /\ CodingGate(k) => TypeOK'
         /\ Baseline(k) => TypeOK'
         /\ Code(k) => TypeOK'
         /\ RunTests(k) => TypeOK'
         /\ Report(k) => TypeOK'
         /\ Publish(k) => TypeOK'
<1>0. job[k] \in Job /\ head \in 0..Branch /\ index \in Seq(0..Branch) /\ Len(index) \in 0..MaxIndex
      /\ live \subseteq DOMAIN index
      /\ 0 \in 0..MaxIndex
  BY JobTyped, LatestTyped, BoundsTyped DEF TypeOK, Latest
<1>1. ASSUME ReadLatest(k) PROVE TypeOK'
  <2>1. [job[k] EXCEPT !.latest = Latest] \in Job
    BY <1>0 DEF Job, Latest
  <2>2. pc' \in [Workers -> Places] /\ job' \in [Workers -> Job]
    BY <1>1, <2>1, MovesTyped DEF ReadLatest, Places
  <2> QED
    BY <1>1, <2>2, RestTyped DEF ReadLatest, tables, TypeOK
<1>2. ASSUME CodingGate(k) PROVE TypeOK'
  <2>1. PICK sha \in HeadSeen :
          LET seen == [job[k] EXCEPT !.latest = 0, !.saw = sha,
                                     !.blind = job[k].blind \/ sha = Unknown]
          IN \/ UNCHANGED <<head, index, live>> /\ Goto(k, "baseline", seen)
             \/ SyncRepo /\ Goto(k, "baseline", [seen EXCEPT !.ctx = Len(index'), !.healed = TRUE])
    BY <1>2 DEF CodingGate, KeepIndex
  <2> DEFINE blind == job[k].blind \/ sha = Unknown
             seen == [job[k] EXCEPT !.latest = 0, !.saw = sha, !.blind = blind]
  <2>2. blind \in BOOLEAN /\ sha \in Shas
    BY JobTyped, SeenTyped
  <2>3. seen \in Job
    <3> HIDE DEF blind
    <3> QED
      BY <1>0, <2>2 DEF Job
  <2>4. /\ head' \in 0..Branch /\ index' \in Seq(0..Branch) /\ Len(index') \in 0..MaxIndex
        /\ live' \subseteq DOMAIN index'
    BY <1>0, <2>1, SyncTyped
  <2> HIDE DEF seen
  <2>5. [seen EXCEPT !.ctx = Len(index'), !.healed = TRUE] \in Job
    BY <2>3, <2>4 DEF Job
  <2>6. pc' \in [Workers -> Places] /\ job' \in [Workers -> Job]
    BY <2>1, <2>3, <2>5, MovesTyped DEF Places, seen
  <2> QED
    BY <1>2, <2>4, <2>6 DEF CodingGate, TypeOK, tables, history
<1>3. ASSUME Baseline(k) PROVE TypeOK'
  <2>1. /\ head' \in 0..Branch /\ index' \in Seq(0..Branch) /\ Len(index') \in 0..MaxIndex
        /\ live' \subseteq DOMAIN index'
    BY <1>3, SyncTyped DEF Baseline
  <2>2. pc' \in [Workers -> Places] /\ job' \in [Workers -> Job]
    BY <1>0, <1>3, MovesTyped DEF Baseline, Places
  <2> QED
    BY <1>3, <2>1, <2>2 DEF Baseline, TypeOK, tables, history
<1>4. ASSUME Code(k) PROVE TypeOK'
  <2> DEFINE now == job[k]
             excused == now.blind \/ now.said = "override"
             c == [run |-> now.run, plan |-> now.plan, ctx |-> now.ctx, saw |-> now.saw,
                   healed |-> now.healed, excused |-> excused]
  <2>1. now.run \in Runs
    BY <1>4, AtRun DEF Code, At
  <2>2. now.ctx \in 1..MaxIndex
    <3>1. now.ctx # 0
      BY <1>4 DEF Code, At, WorkerOK, Coding, ReadyToCode, In, Placed
    <3> QED
      BY <3>1, JobTyped
  <2>3. c \in [run: Runs, plan: Plan, ctx: 1..MaxIndex, saw: Shas, healed: BOOLEAN, excused: BOOLEAN]
    <3>1. excused \in BOOLEAN
      BY JobTyped
    <3> HIDE DEF excused
    <3> QED
      BY <2>1, <2>2, <3>1, JobTyped
  <2>4. coded' = coded \cup {c}
    BY <1>4 DEF Code
  <2> HIDE DEF c
  <2>5. head' \in 0..Branch
    BY <1>0, <1>4, BoundsTyped DEF Code, Branch
  <2>6. pc' \in [Workers -> Places] /\ job' \in [Workers -> Job]
    BY <1>0, <1>4, MovesTyped DEF Code, Places
  <2> QED
    BY <1>4, <2>3, <2>4, <2>5, <2>6 DEF Code, TypeOK, tables
<1>5. ASSUME RunTests(k) PROVE TypeOK'
  <2>1. pc' \in [Workers -> Places] /\ job' \in [Workers -> Job]
    BY <1>0, <1>5, MovesTyped DEF RunTests, Places
  <2> QED
    BY <1>5, <2>1 DEF RunTests, TypeOK, repository, history
<1>6. ASSUME Report(k) PROVE TypeOK'
  <2>1. job[k].run \in Runs /\ job[k].plan \in Plan /\ "publish" \in Stages
    BY <1>6, AtRun, JobTyped DEF Report, At, Stages
  <2>2. /\ gate' \in [Runs -> [Stages -> Seq(Gate)]]
        /\ \A r \in Runs, s \in Stages : Len(gate'[r][s]) <= MaxGates
    BY <1>6, <2>1, OpensTyped DEF Report
  <2>3. pc' \in [Workers -> Places] /\ job' \in [Workers -> Job]
    BY <1>0, <1>6, MovesTyped DEF Report, Places
  <2> QED
    BY <1>6, <2>2, <2>3 DEF Report, TypeOK, repository, history
<1>7. ASSUME Publish(k) PROVE TypeOK'
  <2> DEFINE now == job[k]
             report == gate[now.run]["publish"][now.copy].payload
  <2>1. now.run \in Runs /\ now.copy \in DOMAIN gate[now.run]["publish"] /\ "publish" \in Stages
    BY <1>7, AtRun DEF Publish, At, WorkerOK, Publishing, In, Placed, Stages
  <2>2. gate[now.run]["publish"][now.copy] \in Gate
    BY <2>1, ElementOfSeq, LenProperties DEF TypeOK
  <2>3. report \in Plan /\ now.plan \in Plan
    BY <2>2, JobTyped DEF Gate
  <2>4. pc' \in [Workers -> Places] /\ job' \in [Workers -> Job]
    BY <1>0, <1>7, MovesTyped DEF Publish, Places
  <2>5. published' \subseteq [run: Runs, plan: Plan, report: Plan]
    BY <1>7, <2>1, <2>3 DEF Publish, TypeOK
  <2> QED
    BY <1>7, <2>4, <2>5 DEF Publish, TypeOK, repository, tables
<1> QED
  BY <1>1, <1>2, <1>3, <1>4, <1>5, <1>6, <1>7

LEMMA TypeStep == ASSUME CoreInv, Next PROVE TypeOK'
<1>0. TypeOK /\ HistoryOK /\ GatesOK /\ \A k \in Workers : WorkerOK(k)
  BY DEF CoreInv
<1>1. ASSUME Push PROVE TypeOK'
  BY <1>0, <1>1 DEF Push, TypeOK, tables, history
<1>2. ASSUME OtherIndex PROVE TypeOK'
  <2>1. PICK sha \in 0..Branch : Index(sha)
    BY <1>0, <1>2, BoundsTyped DEF OtherIndex, TypeOK, Branch
  <2>2. index' \in Seq(0..Branch) /\ Len(index') <= MaxIndex /\ live' \subseteq DOMAIN index'
    BY <1>0, <2>1, IndexTyped
  <2> QED
    BY <1>0, <1>2, <2>2 DEF OtherIndex, TypeOK, tables, history
<1>3. ASSUME NEW k \in Workers, Worker(k) \/ StepFails(k) \/ WorkerDies(k) PROVE TypeOK'
  BY <1>0, <1>3, DeliveryTypes, StartTypes, ResumeTypes, CodingTypes DEF Worker, Node
<1> QED
  BY <1>1, <1>2, <1>3 DEF Next

-----------------------------------------------------------------------------
(* Which steps write which table, and what they leave there *)

ByStarting(k)  == \/ \E r \in Runs : Receive(k, r)
                  \/ ReadContext(k) \/ ContextMissing(k) \/ AssessWithoutContext(k)
                  \/ CheckContext(k) \/ AskLlm(k) \/ SaveImpact(k)
ByResuming(k)  == \/ \E r \in Runs, stage \in Stages :
                       \E n \in DOMAIN gate[r][stage], text \in Texts(stage) :
                         Decide(k, r, stage, n, text)
                  \/ Resume(k) \/ ResumeGate(k) \/ GeneratePlan(k)
ByCoding(k)    == ReadLatest(k) \/ CodingGate(k) \/ Baseline(k) \/ Code(k)
ByPublishing(k) == RunTests(k) \/ Report(k) \/ Publish(k)
ByLedger(k)    == BeginStep(k) \/ CompleteStep(k) \/ StepFails(k) \/ WorkerDies(k)

LEMMA StepKinds ==
  ASSUME Next
  PROVE  \/ Push \/ OtherIndex
         \/ \E k \in Workers : \/ ByStarting(k) \/ ByResuming(k) \/ ByCoding(k)
                               \/ ByPublishing(k) \/ ByLedger(k)
  BY DEF Next, Worker, Node, ByStarting, ByResuming, ByCoding, ByPublishing, ByLedger

LEMMA StartingWrites ==
  ASSUME TypeOK, NEW k \in Workers, ByStarting(k)
  PROVE  /\ deploy' = deploy /\ plans' = plans /\ coded' = coded /\ published' = published
         /\ index' = index \/ (\E sha \in 0..Branch : Index(sha))
         /\ live' = live \/ (\E sha \in 0..Branch : Index(sha))
         /\ runCtx' = runCtx \/ CheckContext(k)
         /\ gate' = gate \/ SaveImpact(k)
         /\ ledger' = ledger \/ SetStep(k, "failed")
<1>1. head \in 0..Branch /\ origin \in 0..Branch
  BY DEF TypeOK, Branch
<1> QED
  BY <1>1 DEF ByStarting, Receive, ReadContext, ContextMissing, AssessWithoutContext, CheckContext,
         AskLlm, SaveImpact, SyncRepo, KeepIndex, tables, history, repository

LEMMA ResumingWrites ==
  ASSUME NEW k \in Workers, ByResuming(k)
  PROVE  /\ deploy' = deploy /\ live' = live /\ index' = index /\ runCtx' = runCtx /\ ledger' = ledger
         /\ coded' = coded /\ published' = published
         /\ plans' = plans \/ GeneratePlan(k)
         /\ gate' = gate \/ Resume(k) \/ GeneratePlan(k)
  BY DEF ByResuming, Decide, Resume, ResumeGate, GeneratePlan, tables, history, repository

LEMMA CodingWrites ==
  ASSUME TypeOK, NEW k \in Workers, ByCoding(k)
  PROVE  /\ deploy' = deploy /\ UNCHANGED tables /\ published' = published
         /\ index' = index \/ (\E sha \in 0..Branch : Index(sha))
         /\ live' = live \/ (\E sha \in 0..Branch : Index(sha))
         /\ coded' = coded \/ Code(k)
<1>1. head \in 0..Branch /\ origin \in 0..Branch
  BY DEF TypeOK, Branch
<1> QED
  BY <1>1 DEF ByCoding, ReadLatest, CodingGate, Baseline, Code, SyncRepo, KeepIndex, tables, history, repository

LEMMA PublishingWrites ==
  ASSUME NEW k \in Workers, ByPublishing(k)
  PROVE  /\ deploy' = deploy /\ live' = live /\ index' = index /\ runCtx' = runCtx /\ ledger' = ledger
         /\ plans' = plans /\ coded' = coded
         /\ gate' = gate \/ Report(k)
         /\ published' = published \/ Publish(k)
  BY DEF ByPublishing, RunTests, Report, Publish, tables, history, repository

LEMMA LedgerWrites ==
  ASSUME NEW k \in Workers, ByLedger(k)
  PROVE  /\ deploy' = deploy /\ live' = live /\ index' = index /\ runCtx' = runCtx /\ gate' = gate
         /\ plans' = plans /\ coded' = coded /\ published' = published
         /\ ledger' = ledger \/ BeginStep(k) \/ CompleteStep(k) \/ SetStep(k, "failed")
  BY DEF ByLedger, BeginStep, CompleteStep, StepFails, WorkerDies, tables, history, repository

LEMMA WorldWrites ==
  ASSUME TypeOK, Push \/ OtherIndex
  PROVE  /\ deploy' = deploy /\ UNCHANGED <<tables, pc, job, history>>
         /\ index' = index \/ (\E sha \in 0..Branch : Index(sha))
         /\ live' = live \/ (\E sha \in 0..Branch : Index(sha))
<1>1. head \in 0..Branch /\ 0..origin \subseteq 0..Branch
  BY BoundsTyped DEF TypeOK, Branch
<1> QED
  BY <1>1 DEF Push, OtherIndex, tables, history

LEMMA OpensGate ==
  ASSUME TypeOK, NEW r \in Runs, NEW stage \in Stages, NEW payload, OpenGate(r, stage, payload)
  PROVE  LET old == gate[r][stage]
             new == gate'[r][stage]
         IN
         /\ DOMAIN old = 1..Len(old) /\ DOMAIN new = 1..Len(old) + 1
         /\ Len(new) = Len(old) + 1
         /\ \A n \in DOMAIN old : new[n] = old[n]
         /\ new[Len(old) + 1].status = "pending" /\ new[Len(old) + 1].payload = payload
         /\ \A q \in Runs, s \in Stages : q # r \/ s # stage => gate'[q][s] = gate[q][s]
<1> DEFINE old == gate[r][stage]
           row == [status |-> "pending", payload |-> payload]
<1>1. old \in Seq(Gate)
  BY DEF TypeOK
<1>2. gate' = [gate EXCEPT ![r][stage] = Append(old, row)]
  BY DEF OpenGate, TypeOK
<1>3. gate'[r][stage] = Append(old, row)
  BY <1>2 DEF TypeOK
<1>4. row.status = "pending" /\ row.payload = payload
  OBVIOUS
<1>5. \A q \in Runs, s \in Stages : q # r \/ s # stage => gate'[q][s] = gate[q][s]
  BY <1>2 DEF TypeOK
<1> HIDE DEF row, old
<1>6. /\ DOMAIN old = 1..Len(old) /\ DOMAIN Append(old, row) = 1..Len(old) + 1
      /\ Len(Append(old, row)) = Len(old) + 1
      /\ \A n \in DOMAIN old : Append(old, row)[n] = old[n]
      /\ Append(old, row)[Len(old) + 1] = row
  BY <1>1
<1> QED
  BY <1>3, <1>4, <1>5, <1>6 DEF old

\* The status a resume leaves in its review.
Decided(k) ==
  LET status == gate[job[k].run][job[k].stage][job[k].copy].status IN
  IF status # "pending" THEN status ELSE IF job[k].approve THEN "approved" ELSE "rejected"

LEMMA DecidesGate ==
  ASSUME TypeOK, NEW k \in Workers, WorkerOK(k), Resume(k)
  PROVE  LET r == job[k].run
             stage == job[k].stage
             old == gate[r][stage]
             new == gate'[r][stage]
         IN
         /\ r \in Runs /\ stage \in Stages
         /\ DOMAIN old = 1..Len(old) /\ job[k].copy \in DOMAIN old
         /\ DOMAIN new = DOMAIN old /\ Len(new) = Len(old)
         /\ \A n \in DOMAIN old : n # job[k].copy => new[n] = old[n]
         /\ new[job[k].copy].status = Decided(k)
         /\ new[job[k].copy].payload = old[job[k].copy].payload
         /\ \A q \in Runs, s \in Stages : q # r \/ s # stage => gate'[q][s] = gate[q][s]
<1> DEFINE r == job[k].run
           stage == job[k].stage
           copy == job[k].copy
           old == gate[r][stage]
           row == [old[copy] EXCEPT !.status = Decided(k)]
<1>1. r \in Runs /\ stage \in Stages /\ copy \in DOMAIN old
  BY AtRun, JobTyped DEF Resume, At, WorkerOK
<1>2. old \in Seq(Gate) /\ old[copy] \in Gate
  BY <1>1, ElementOfSeq, LenProperties DEF TypeOK
<1>3. row.status = Decided(k) /\ row.payload = old[copy].payload
  BY <1>2 DEF Gate
<1>4. gate' = [gate EXCEPT ![r][stage] = [old EXCEPT ![copy] = row]]
  BY <1>1 DEF Resume, Decided, TypeOK
<1>5. gate'[r][stage] = [old EXCEPT ![copy] = row]
  BY <1>1, <1>4 DEF TypeOK
<1>6. \A q \in Runs, s \in Stages : q # r \/ s # stage => gate'[q][s] = gate[q][s]
  BY <1>4 DEF TypeOK
<1> HIDE DEF row, old, copy, stage, r
<1>7. row \in Gate
  <2>1. Decided(k) \in {"pending", "approved", "rejected"}
    <3>1. old[copy].status \in {"pending", "approved", "rejected"}
      BY <1>2 DEF Gate
    <3> QED
      BY <3>1, JobTyped DEF Decided, old, copy, stage, r
  <2> QED
    BY <1>2, <2>1 DEF Gate, row
<1>8. /\ Len([old EXCEPT ![copy] = row]) = Len(old)
      /\ [old EXCEPT ![copy] = row] \in Seq(Gate)
      /\ \A j \in DOMAIN old : [old EXCEPT ![copy] = row][j] = IF j = copy THEN row ELSE old[j]
  BY <1>2, <1>7, SeqAssigned
<1>9. DOMAIN old = 1..Len(old) /\ DOMAIN [old EXCEPT ![copy] = row] = DOMAIN old
  BY <1>2
<1> QED
  BY <1>1, <1>3, <1>5, <1>6, <1>8, <1>9 DEF row, old, copy, stage, r

LEMMA PlanAdded ==
  ASSUME TypeOK, NEW k \in Workers, WorkerOK(k), GeneratePlan(k)
  PROVE  LET r == job[k].run
             plan == [snap |-> job[k].ctx, amended |-> job[k].said = "amend"]
         IN
         /\ r \in Runs /\ Planning(k) /\ OpenGate(r, "plan", plan) /\ plan \in Plan
         /\ plan.snap = job[k].ctx
         /\ plans'[r] = Append(plans[r], plan)
         /\ Len(plans[r]) \in Nat /\ DOMAIN plans[r] = 1..Len(plans[r])
         /\ Len(plans'[r]) = Len(plans[r]) + 1 /\ DOMAIN plans'[r] = 1..Len(plans[r]) + 1
         /\ plans'[r][Len(plans[r]) + 1] = plan
         /\ \A n \in DOMAIN plans[r] : plans'[r][n] = plans[r][n]
         /\ \A q \in Runs : q # r => plans'[q] = plans[q]
<1> DEFINE r == job[k].run
           plan == [snap |-> job[k].ctx, amended |-> job[k].said = "amend"]
<1>1. r \in Runs /\ Planning(k)
  BY AtRun DEF GeneratePlan, At, WorkerOK, Placed, Planning, In
<1>2. plan \in Plan /\ plan.snap = job[k].ctx
  BY JobTyped DEF Plan
<1>3. plans' = [plans EXCEPT ![r] = Append(plans[r], plan)] /\ OpenGate(r, "plan", plan)
  BY DEF GeneratePlan, SavedPlan
<1> HIDE DEF plan
<1>4. plans[r] \in Seq(Plan)
  BY <1>1 DEF TypeOK
<1>5. plans'[r] = Append(plans[r], plan) /\ \A q \in Runs : q # r => plans'[q] = plans[q]
  BY <1>1, <1>3 DEF TypeOK
<1>6. /\ Len(plans[r]) \in Nat /\ DOMAIN plans[r] = 1..Len(plans[r])
      /\ Len(plans'[r]) = Len(plans[r]) + 1 /\ DOMAIN plans'[r] = 1..Len(plans[r]) + 1
      /\ plans'[r][Len(plans[r]) + 1] = plan
      /\ \A n \in DOMAIN plans[r] : plans'[r][n] = plans[r][n]
  BY <1>2, <1>4, <1>5
<1> QED
  BY <1>1, <1>2, <1>3, <1>5, <1>6 DEF plan

\* What the impact node is handed over, and what it keeps.
LEMMA ContextSaved ==
  ASSUME TypeOK, NEW k \in Workers, WorkerOK(k), CheckContext(k)
  PROVE  /\ job[k].run \in Runs /\ Opening(k)
         /\ runCtx'[job[k].run] # 0 /\ runCtx'[job[k].run] <= Len(index')
         /\ pc'[k] = "complete" /\ job'[k].run = job[k].run /\ job'[k].step = job[k].step
         /\ job'[k].ctx = runCtx'[job[k].run] /\ job'[k].latest = 0
         /\ \A r \in Runs : r # job[k].run => runCtx'[r] = runCtx[r]
<1> DEFINE now == job[k]
<1>1. now.run \in Runs /\ Opening(k) /\ now \in Job
  BY AtRun, JobTyped DEF CheckContext, At, WorkerOK, Placed, Opening, Starting, In
<1>2. now.ctx # 0 /\ now.ctx \in Nat /\ now.ctx <= Len(index)
  BY JobTyped DEF CheckContext, At, WorkerOK
<1>3. Len(index) \in Nat /\ head \in 0..Branch /\ origin \in 0..Branch /\ index \in Seq(0..Branch)
  BY LatestTyped DEF TypeOK, Branch
<1>4. PICK ctx : /\ \/ ctx = now.ctx /\ UNCHANGED <<head, index>>
                    \/ ctx = Len(index') /\ (Index(head) \/ SyncRepo)
                 /\ runCtx' = [runCtx EXCEPT ![now.run] = ctx]
                 /\ Goto(k, "complete", [now EXCEPT !.ctx = ctx, !.latest = 0])
  BY DEF CheckContext, KeepIndex
<1>5. ctx # 0 /\ ctx <= Len(index')
  BY <1>2, <1>3, <1>4 DEF SyncRepo, KeepIndex, Index
<1>6. pc'[k] = "complete" /\ job'[k] = [now EXCEPT !.ctx = ctx, !.latest = 0]
  BY <1>4, Moves
<1>7. job'[k].run = now.run /\ job'[k].step = now.step /\ job'[k].ctx = ctx /\ job'[k].latest = 0
  BY <1>1, <1>6 DEF Job
<1>8. runCtx'[now.run] = ctx /\ \A r \in Runs : r # now.run => runCtx'[r] = runCtx[r]
  BY <1>1, <1>4 DEF TypeOK
<1> QED
  BY <1>1, <1>5, <1>6, <1>7, <1>8

\* Sequences grow, reviews keep their payload and their approval, histories grow.
Grows ==
  /\ deploy' = deploy
  /\ Len(index) <= Len(index')
  /\ \A i \in 1..Len(index) : index'[i] = index[i]
  /\ \A r \in Runs :
       /\ runCtx[r] # 0 => runCtx'[r] # 0
       /\ \A n \in DOMAIN plans[r] : n \in DOMAIN plans'[r] /\ plans'[r][n] = plans[r][n]
       /\ \A s \in Stages : \A n \in DOMAIN gate[r][s] :
            /\ n \in DOMAIN gate'[r][s]
            /\ gate'[r][s][n].payload = gate[r][s][n].payload
            /\ gate[r][s][n].status = "approved" => gate'[r][s][n].status = "approved"
       /\ \A s \in Steps : ledger[r][s] # <<>> => ledger'[r][s] # <<>>
  /\ coded \subseteq coded' /\ published \subseteq published'

LEMMA IndexGrows ==
  ASSUME TypeOK, index' = index \/ \E sha \in 0..Branch : Index(sha)
  PROVE  Len(index) <= Len(index') /\ \A i \in 1..Len(index) : index'[i] = index[i]
<1>1. index \in Seq(0..Branch) /\ Len(index) \in Nat
  BY DEF TypeOK
<1> QED
  BY <1>1 DEF Index

LEMMA GateGrows ==
  ASSUME TypeOK, \A k \in Workers : WorkerOK(k),
         \/ gate' = gate
         \/ \E k \in Workers : SaveImpact(k) \/ Resume(k) \/ GeneratePlan(k) \/ Report(k)
  PROVE  \A r \in Runs, s \in Stages : \A n \in DOMAIN gate[r][s] :
            /\ n \in DOMAIN gate'[r][s]
            /\ gate'[r][s][n].payload = gate[r][s][n].payload
            /\ gate[r][s][n].status = "approved" => gate'[r][s][n].status = "approved"
<1>1. ASSUME NEW r \in Runs, NEW stage \in Stages, NEW payload, OpenGate(r, stage, payload)
      PROVE  \A q \in Runs, s \in Stages : \A n \in DOMAIN gate[q][s] :
               n \in DOMAIN gate'[q][s] /\ gate'[q][s][n] = gate[q][s][n]
  <2> SUFFICES ASSUME NEW q \in Runs, NEW s \in Stages, NEW n \in DOMAIN gate[q][s]
               PROVE  n \in DOMAIN gate'[q][s] /\ gate'[q][s][n] = gate[q][s][n]
    OBVIOUS
  <2>1. CASE q = r /\ s = stage
    <3>1. Len(gate[r][stage]) \in Nat
      BY DEF TypeOK
    <3> QED
      BY <1>1, <2>1, <3>1, OpensGate
  <2>2. CASE q # r \/ s # stage
    BY <1>1, <2>2, OpensGate
  <2> QED
    BY <2>1, <2>2
<1>2. ASSUME NEW k \in Workers, Resume(k)
      PROVE  \A r \in Runs, s \in Stages : \A n \in DOMAIN gate[r][s] :
            /\ n \in DOMAIN gate'[r][s]
            /\ gate'[r][s][n].payload = gate[r][s][n].payload
            /\ gate[r][s][n].status = "approved" => gate'[r][s][n].status = "approved"
  BY <1>2, DecidesGate, ZenonT(40) DEF Decided
<1>3. ASSUME NEW k \in Workers, SaveImpact(k) \/ GeneratePlan(k) \/ Report(k)
      PROVE  \E r \in Runs, stage \in Stages, payload \in Plan : OpenGate(r, stage, payload)
  <2>1. job[k].run \in Runs /\ job[k].plan \in Plan /\ job[k].ctx \in 0..MaxIndex
    BY <1>3, AtRun, JobTyped DEF SaveImpact, GeneratePlan, Report, At
  <2>2. \A b \in BOOLEAN : [snap |-> job[k].ctx, amended |-> b] \in Plan
    BY <2>1 DEF Plan
  <2>3. "impact" \in Stages /\ "plan" \in Stages /\ "publish" \in Stages
    BY DEF Stages
  <2> QED
    BY <1>3, <2>1, <2>2, <2>3 DEF SaveImpact, GeneratePlan, Report
<1> QED
  BY <1>1, <1>2, <1>3

\* The ledger: a row becomes "completed" where a step's result is there.
LEMMA LedgerChanges ==
  ASSUME TypeOK, \A k \in Workers : WorkerOK(k),
         \/ ledger' = ledger
         \/ \E k \in Workers : BeginStep(k) \/ CompleteStep(k) \/ SetStep(k, "failed")
  PROVE  \A r \in Runs, s \in Steps :
           /\ ledger[r][s] # <<>> => ledger'[r][s] # <<>>
           /\ Done(r, s)' => \/ Done(r, s)
                             \/ \E k \in Workers : CompleteStep(k) /\ job[k].run = r /\ job[k].step = s
<1> DEFINE S == {"running", "completed", "failed"}
<1>0. \A r \in Runs, s \in Steps : ledger[r][s] \in Seq(S)
  BY DEF TypeOK
<1>1. ASSUME NEW k \in Workers, NEW status \in S, SetStep(k, status), NEW r \in Runs, NEW s \in Steps
      PROVE  /\ ledger[r][s] # <<>> => ledger'[r][s] # <<>>
             /\ ~Done(r, s) /\ Done(r, s)' => status = "completed" /\ job[k].run = r /\ job[k].step = s
  <2> DEFINE old == ledger[r][s]
             row == job[k].row
  <2>1. CASE job[k].run = r /\ job[k].step = s
    <3>1. ledger'[r][s] = [old EXCEPT ![row] = status]
      BY <1>1, <2>1 DEF SetStep, TypeOK
    <3> HIDE DEF row
    <3>2. /\ [old EXCEPT ![row] = status] \in Seq(S) /\ Len([old EXCEPT ![row] = status]) = Len(old)
          /\ \A j \in DOMAIN old : [old EXCEPT ![row] = status][j] = IF j = row THEN status ELSE old[j]
      <4>1. old \in Seq(S) /\ status \in S
        BY <1>0
      <4> HIDE DEF old, S
      <4> QED
        BY <4>1, SeqAssigned
    <3>3. old # <<>> => ledger'[r][s] # <<>>
      BY <1>0, <3>1, <3>2
    <3>4. DOMAIN ledger'[r][s] = DOMAIN old
      BY <1>0, <3>1, <3>2
    <3>5. status # "completed" => (Done(r, s)' => Done(r, s))
      BY <3>1, <3>2, <3>4 DEF Done
    <3> QED
      BY <2>1, <3>3, <3>5
  <2>2. CASE ~(job[k].run = r /\ job[k].step = s)
    <3>1. ledger'[r][s] = ledger[r][s]
      BY <1>1, <2>2 DEF SetStep, TypeOK
    <3> QED
      BY <3>1 DEF Done
  <2> QED
    BY <2>1, <2>2
<1>2. ASSUME NEW k \in Workers, BeginStep(k), NEW r \in Runs, NEW s \in Steps
      PROVE  /\ ledger[r][s] # <<>> => ledger'[r][s] # <<>>
             /\ Done(r, s)' => Done(r, s)
  <2> DEFINE old == ledger[r][s]
  <2>1. ledger'[r][s] = old \/ ledger'[r][s] = Append(old, "running")
    <3>1. job[k].run \in Runs /\ job[k].step \in Steps
      BY <1>2, AtRun, JobTyped DEF BeginStep, At
    <3>2. \/ ledger' = ledger
          \/ ledger' = [ledger EXCEPT ![job[k].run][job[k].step] = Append(@, "running")]
      BY <1>2 DEF BeginStep
    <3>3. CASE job[k].run = r /\ job[k].step = s
      BY <3>1, <3>2, <3>3 DEF TypeOK
    <3>4. CASE job[k].run # r
      BY <3>1, <3>2, <3>4 DEF TypeOK
    <3>5. CASE job[k].run = r /\ job[k].step # s
      BY <3>1, <3>2, <3>5 DEF TypeOK
    <3> QED
      BY <3>3, <3>4, <3>5
  <2>2. Append(old, "running") # <<>> /\ DOMAIN Append(old, "running") = 1..Len(old) + 1
        /\ DOMAIN old = 1..Len(old) /\ Len(old) \in Nat
        /\ \A n \in DOMAIN old : Append(old, "running")[n] = old[n]
        /\ Append(old, "running")[Len(old) + 1] = "running"
    BY <1>0
  <2>3. Done(r, s)' => Done(r, s)
    <3>1. CASE ledger'[r][s] = old
      BY <3>1 DEF Done
    <3>2. CASE ledger'[r][s] = Append(old, "running")
      <4>1. ASSUME NEW n \in DOMAIN ledger'[r][s], ledger'[r][s][n] = "completed" PROVE n \in DOMAIN old /\ old[n] = "completed"
        <5>1. n \in 1..Len(old) + 1 /\ n # Len(old) + 1
          BY <2>2, <3>2, <4>1
        <5> QED
          BY <2>2, <3>2, <4>1, <5>1
      <4> QED
        BY <4>1 DEF Done
    <3> QED
      BY <2>1, <3>1, <3>2
  <2> QED
    BY <2>1, <2>2, <2>3
<1>3. ASSUME NEW k \in Workers, CompleteStep(k) PROVE SetStep(k, "completed")
  BY <1>3 DEF CompleteStep
<1>4. ASSUME ledger' = ledger, NEW r \in Runs, NEW s \in Steps
      PROVE  /\ ledger[r][s] # <<>> => ledger'[r][s] # <<>>
             /\ Done(r, s)' => Done(r, s)
  BY <1>4 DEF Done
<1> QED
  BY <1>1, <1>2, <1>3, <1>4

LEMMA GrowsStep == ASSUME CoreInv, Next PROVE Grows
<1>0. TypeOK /\ \A k \in Workers : WorkerOK(k)
  BY DEF CoreInv
<1> DEFINE PlansGrow == \A r \in Runs : \A n \in DOMAIN plans[r] :
                          n \in DOMAIN plans'[r] /\ plans'[r][n] = plans[r][n]
           CtxGrows == \A r \in Runs : runCtx[r] # 0 => runCtx'[r] # 0
<1>1. ASSUME NEW k \in Workers, GeneratePlan(k) PROVE PlansGrow
  <2> SUFFICES ASSUME NEW r \in Runs, NEW n \in DOMAIN plans[r]
               PROVE  n \in DOMAIN plans'[r] /\ plans'[r][n] = plans[r][n]
    OBVIOUS
  <2>1. CASE r = job[k].run
    <3>1. /\ Len(plans[r]) \in Nat /\ DOMAIN plans[r] = 1..Len(plans[r])
          /\ DOMAIN plans'[r] = 1..Len(plans[r]) + 1
          /\ \A i \in DOMAIN plans[r] : plans'[r][i] = plans[r][i]
      BY <1>0, <1>1, <2>1, PlanAdded
    <3>2. n \in 1..Len(plans[r]) + 1
      BY <3>1
    <3> QED
      BY <3>1, <3>2
  <2>2. CASE r # job[k].run
    BY <1>0, <1>1, <2>2, PlanAdded
  <2> QED
    BY <2>1, <2>2
<1>2. ASSUME NEW k \in Workers, CheckContext(k) PROVE CtxGrows
  BY <1>0, <1>2, ContextSaved
<1>3. ASSUME NEW k \in Workers, Code(k) \/ Publish(k)
      PROVE  coded \subseteq coded' /\ published \subseteq published'
  BY <1>3 DEF Code, Publish
<1>4. ASSUME Push \/ OtherIndex PROVE Grows
  BY <1>0, <1>4, WorldWrites, IndexGrows, GateGrows DEF Grows, tables, history
<1>5. ASSUME NEW k \in Workers, ByStarting(k) PROVE Grows
  BY <1>0, <1>2, <1>5, StartingWrites, IndexGrows, GateGrows, LedgerChanges DEF Grows
<1>6. ASSUME NEW k \in Workers, ByResuming(k) PROVE Grows
  BY <1>0, <1>1, <1>6, ResumingWrites, IndexGrows, GateGrows DEF Grows
<1>7. ASSUME NEW k \in Workers, ByCoding(k) PROVE Grows
  BY <1>0, <1>3, <1>7, CodingWrites, IndexGrows, GateGrows DEF Grows, tables
<1>8. ASSUME NEW k \in Workers, ByPublishing(k) PROVE Grows
  BY <1>0, <1>3, <1>8, PublishingWrites, IndexGrows, GateGrows DEF Grows
<1>9. ASSUME NEW k \in Workers, ByLedger(k) PROVE Grows
  BY <1>0, <1>9, LedgerWrites, IndexGrows, GateGrows, LedgerChanges DEF Grows
<1> QED
  BY <1>4, <1>5, <1>6, <1>7, <1>8, <1>9, StepKinds

-----------------------------------------------------------------------------
(* The tables *)

\* A sequence with an element has a first one.
LEMMA NotEmpty ==
  ASSUME NEW S, NEW q \in Seq(S)
  PROVE  q # <<>> <=> 1 \in DOMAIN q
OBVIOUS

LEMMA TablesTyped ==
  ASSUME TypeOK, NEW r \in Runs
  PROVE  /\ runCtx[r] \in 0..MaxIndex
         /\ plans[r] \in Seq(Plan)
         /\ \A s \in Stages : gate[r][s] \in Seq(Gate)
         /\ \A s \in Steps : ledger[r][s] \in Seq({"running", "completed", "failed"})
  BY DEF TypeOK

\* What a worker relies on stays.
LEMMA Stays ==
  ASSUME TypeOK, TypeOK', Grows, NEW r \in Runs
  PROVE  /\ \A s \in Stages : gate[r][s] # <<>> => gate'[r][s] # <<>>
         /\ plans[r] # <<>> => plans'[r] # <<>>
         /\ \A s \in Stages : \A n : ApprovedCopy(r, s, n) => ApprovedCopy(r, s, n)'
         /\ \A plan : CodedPlan(r, plan) => CodedPlan(r, plan)'
         /\ \A step \in Steps : Result(r, step) => Result(r, step)'
<1>1. \A s \in Stages : gate[r][s] \in Seq(Gate) /\ gate'[r][s] \in Seq(Gate)
  BY DEF TypeOK
<1>2. plans[r] \in Seq(Plan) /\ plans'[r] \in Seq(Plan)
  BY DEF TypeOK
<1>3. \A s \in Stages : gate[r][s] # <<>> => gate'[r][s] # <<>>
  BY <1>1, NotEmpty DEF Grows
<1>4. plans[r] # <<>> => plans'[r] # <<>>
  BY <1>2, NotEmpty DEF Grows
<1>5. \A s \in Stages : \A n : ApprovedCopy(r, s, n) => ApprovedCopy(r, s, n)'
  BY DEF Grows, ApprovedCopy
<1>6. \A plan : CodedPlan(r, plan) => CodedPlan(r, plan)'
  BY DEF Grows, CodedPlan
<1>7. ASSUME NEW step \in Steps, Result(r, step) PROVE Result(r, step)'
  BY <1>3, <1>4, <1>7 DEF Grows, Result, Steps, Stages
<1> QED
  BY <1>3, <1>4, <1>5, <1>6, <1>7

LEMMA LedgerStep == ASSUME CoreInv, Next PROVE LedgerOK'
<1>0. TypeOK /\ TypeOK' /\ LedgerOK /\ Grows /\ \A k \in Workers : WorkerOK(k)
  BY TypeStep, GrowsStep DEF CoreInv
<1>1. \/ ledger' = ledger
      \/ \E k \in Workers : BeginStep(k) \/ CompleteStep(k) \/ SetStep(k, "failed")
  BY <1>0, StepKinds, StartingWrites, ResumingWrites, CodingWrites, PublishingWrites, LedgerWrites,
     WorldWrites DEF tables
<1> SUFFICES ASSUME NEW r \in Runs, NEW step \in Steps, Done(r, step)' PROVE Result(r, step)'
  BY DEF LedgerOK
<1>2. \/ Done(r, step)
      \/ \E k \in Workers : CompleteStep(k) /\ job[k].run = r /\ job[k].step = step
  BY <1>0, <1>1, LedgerChanges
<1>3. Result(r, step)
  BY <1>0, <1>2 DEF LedgerOK, WorkerOK, CompleteStep, At
<1> QED
  BY <1>0, <1>3, Stays

\* A new review is of the impact, the plan or the publication a worker is at.
LEMMA NewGate ==
  ASSUME CoreInv, Next, NEW r \in Runs, NEW s \in Stages, NEW n \in DOMAIN gate'[r][s],
         n \notin DOMAIN gate[r][s]
  PROVE  \E k \in Workers :
           /\ job[k].run = r
           /\ Len(gate'[r][s]) = Len(gate[r][s]) + 1
           /\ gate'[r][s][n].status = "pending"
           /\ \/ s = "impact" /\ SaveImpact(k) /\ gate'[r][s][n].payload.snap = job[k].ctx
              \/ s = "plan" /\ GeneratePlan(k) /\ gate'[r][s][n].payload.snap = job[k].ctx
                 /\ gate'[r][s][n].payload = plans'[r][Len(plans[r]) + 1]
              \/ s = "publish" /\ Report(k) /\ gate'[r][s][n].payload = job[k].plan
<1>0. TypeOK /\ \A k \in Workers : WorkerOK(k)
  BY DEF CoreInv
<1>1. gate' # gate
  OBVIOUS
<1>2. PICK k \in Workers : SaveImpact(k) \/ Resume(k) \/ GeneratePlan(k) \/ Report(k)
  BY <1>0, <1>1, StepKinds, StartingWrites, ResumingWrites, CodingWrites, PublishingWrites,
     LedgerWrites, WorldWrites DEF tables
<1>3. ~Resume(k)
  <2>1. SUFFICES ASSUME Resume(k) PROVE FALSE
    OBVIOUS
  <2>2. DOMAIN gate'[r][s] = DOMAIN gate[r][s]
    <3>1. CASE r = job[k].run /\ s = job[k].stage
      BY <1>0, <2>1, <3>1, DecidesGate
    <3>2. CASE r # job[k].run \/ s # job[k].stage
      BY <1>0, <2>1, <3>2, DecidesGate
    <3> QED
      BY <3>1, <3>2
  <2> QED
    BY <2>2
<1>4. job[k].run \in Runs
  BY <1>0, <1>2, AtRun DEF SaveImpact, Resume, GeneratePlan, Report, At
<1>5. ASSUME NEW stage \in Stages, NEW payload, OpenGate(job[k].run, stage, payload)
      PROVE  /\ r = job[k].run /\ s = stage
             /\ Len(gate'[r][s]) = Len(gate[r][s]) + 1
             /\ gate'[r][s][n].status = "pending" /\ gate'[r][s][n].payload = payload
  <2>1. r = job[k].run /\ s = stage
    BY <1>0, <1>4, <1>5, OpensGate
  <2>2. Len(gate[r][s]) \in Nat
    BY <1>0, TablesTyped
  <2>3. /\ DOMAIN gate[r][s] = 1..Len(gate[r][s]) /\ DOMAIN gate'[r][s] = 1..Len(gate[r][s]) + 1
        /\ Len(gate'[r][s]) = Len(gate[r][s]) + 1
        /\ gate'[r][s][Len(gate[r][s]) + 1].status = "pending"
        /\ gate'[r][s][Len(gate[r][s]) + 1].payload = payload
    <3>1. OpenGate(r, s, payload)
      BY <1>5, <2>1
    <3> HIDE <1>5
    <3> QED
      BY <1>0, <3>1, OpensGate
  <2>4. n = Len(gate[r][s]) + 1
    BY <2>2, <2>3
  <2> QED
    BY <2>1, <2>3, <2>4
<1>6. "impact" \in Stages /\ "plan" \in Stages /\ "publish" \in Stages
  BY DEF Stages
<1>7. CASE SaveImpact(k)
  <2>1. OpenGate(job[k].run, "impact", [snap |-> job[k].ctx, amended |-> FALSE])
    BY <1>7 DEF SaveImpact
  <2> QED
    BY <1>5, <1>6, <1>7, <2>1
<1>8. CASE GeneratePlan(k)
  <2> DEFINE plan == [snap |-> job[k].ctx, amended |-> job[k].said = "amend"]
  <2>1. /\ OpenGate(job[k].run, "plan", plan) /\ plan.snap = job[k].ctx
        /\ plans'[job[k].run][Len(plans[job[k].run]) + 1] = plan
    BY <1>0, <1>8, PlanAdded
  <2> HIDE DEF plan
  <2> QED
    BY <1>5, <1>6, <1>8, <2>1
<1>9. CASE Report(k)
  <2>1. OpenGate(job[k].run, "publish", job[k].plan)
    BY <1>9 DEF Report
  <2> QED
    BY <1>5, <1>6, <1>9, <2>1
<1> QED
  BY <1>2, <1>3, <1>7, <1>8, <1>9

\* The snapshot of a run is replaced only while it has no review yet.
LEMMA NewContext ==
  ASSUME CoreInv, Next, NEW r \in Runs, runCtx'[r] # runCtx[r]
  PROVE  \E k \in Workers :
           /\ CheckContext(k) /\ job[k].run = r
           /\ gate[r]["impact"] = <<>> /\ gate' = gate /\ runCtx'[r] <= Len(index')
<1>0. TypeOK /\ \A k \in Workers : WorkerOK(k)
  BY DEF CoreInv
<1>1. PICK k \in Workers : CheckContext(k)
  BY <1>0, StepKinds, StartingWrites, ResumingWrites, CodingWrites, PublishingWrites,
     LedgerWrites, WorldWrites DEF tables
<1>2. job[k].run = r /\ Opening(k) /\ runCtx'[r] <= Len(index')
  BY <1>0, <1>1, ContextSaved
<1>3. gate[r]["impact"] = <<>> /\ gate' = gate
  BY <1>0, <1>1, <1>2 DEF WorkerOK, CheckContext
<1> QED
  BY <1>1, <1>2, <1>3

LEMMA GatesStep == ASSUME CoreInv, Next PROVE GatesOK'
<1>0. TypeOK /\ TypeOK' /\ GatesOK /\ Grows /\ \A k \in Workers : WorkerOK(k)
  BY TypeStep, GrowsStep DEF CoreInv
<1> SUFFICES ASSUME NEW r \in Runs
    PROVE  /\ runCtx'[r] <= Len(index')
           /\ Len(gate'[r]["impact"]) <= 1
           /\ gate'[r]["impact"] # <<>> => ledger'[r]["load_context"] # <<>>
           /\ \A n \in DOMAIN gate'[r]["impact"] : gate'[r]["impact"][n].payload.snap = runCtx'[r]
           /\ \A n \in DOMAIN gate'[r]["plan"] :
                /\ gate'[r]["plan"][n].payload.snap = runCtx'[r]
                /\ ApprovedCopy(r, "impact", 1)'
                /\ plans'[r] # <<>>
           /\ \A n \in DOMAIN gate'[r]["publish"] :
                \E c \in coded' : c.run = r /\ c.plan = gate'[r]["publish"][n].payload
  BY DEF GatesOK, CodedPlan
<1>a. "impact" \in Stages /\ "plan" \in Stages /\ "publish" \in Stages /\ "load_context" \in Steps
  BY DEF Stages, Steps
<1>b. \A s \in Stages : gate[r][s] \in Seq(Gate) /\ gate'[r][s] \in Seq(Gate)
  BY <1>0 DEF TypeOK
<1>c. runCtx[r] \in Nat /\ Len(index) \in Nat /\ Len(index') \in Nat
  <2>1. runCtx[r] \in 0..MaxIndex /\ MaxIndex \in Nat
    BY <1>0, TablesTyped, BoundsTyped
  <2>2. Len(index) \in Nat /\ Len(index') \in Nat
    BY <1>0 DEF TypeOK
  <2> QED
    BY <2>1, <2>2
<1>1. runCtx'[r] <= Len(index')
  <2>1. CASE runCtx'[r] = runCtx[r]
    BY <1>0, <1>c, <2>1 DEF GatesOK, Grows
  <2> QED
    BY <2>1, NewContext
<1>2. gate[r]["impact"] # <<>> => runCtx'[r] = runCtx[r]
  BY NewContext
<1>3. ASSUME NEW n \in DOMAIN gate'[r]["impact"], n \notin DOMAIN gate[r]["impact"]
      PROVE  /\ gate[r]["impact"] = <<>>
             /\ Len(gate'[r]["impact"]) = 1
             /\ ledger[r]["load_context"] # <<>>
             /\ gate'[r]["impact"][n].payload.snap = runCtx'[r]
  <2>1. PICK k \in Workers :
          /\ job[k].run = r /\ SaveImpact(k)
          /\ Len(gate'[r]["impact"]) = Len(gate[r]["impact"]) + 1
          /\ gate'[r]["impact"][n].payload.snap = job[k].ctx
    BY <1>3, <1>a, NewGate
  <2>2. In(k, "assess_impact", {"save_impact"})
    BY <1>0, <2>1 DEF WorkerOK, Placed, SaveImpact, At, In
  <2>3. Starting(k) /\ Opening(k) /\ Loaded(k) /\ ~In(k, "load_context", {"begin"})
    BY <2>2 DEF Starting, Opening, Loaded, In
  <2>4. gate[r]["impact"] = <<>> /\ ledger[r]["load_context"] # <<>> /\ job[k].ctx = runCtx[r]
    BY <1>0, <2>1, <2>2, <2>3 DEF WorkerOK, In
  <2>5. runCtx' = runCtx
    BY <2>1 DEF SaveImpact
  <2> QED
    BY <2>1, <2>4, <2>5
<1>4. Len(gate'[r]["impact"]) <= 1
  <2>1. CASE \E n \in DOMAIN gate'[r]["impact"] : n \notin DOMAIN gate[r]["impact"]
    <3>1. Len(gate'[r]["impact"]) = 1
      BY <1>3, <2>1
    <3> QED
      BY <3>1
  <2>2. CASE \A n \in DOMAIN gate'[r]["impact"] : n \in DOMAIN gate[r]["impact"]
    <3>1. Len(gate[r]["impact"]) <= 1
      BY <1>0 DEF GatesOK
    <3> DEFINE new == gate'[r]["impact"]
               old == gate[r]["impact"]
    <3>2. new \in Seq(Gate) /\ old \in Seq(Gate)
      BY <1>a, <1>b
    <3> HIDE DEF new, old
    <3>3. Len(new) > 1 => Len(new) \in DOMAIN new /\ Len(new) \notin DOMAIN old
      BY <3>1, <3>2 DEF old
    <3> QED
      BY <2>2, <3>2, <3>3 DEF new, old
  <2> QED
    BY <2>1, <2>2
<1>5. gate'[r]["impact"] # <<>> => ledger'[r]["load_context"] # <<>>
  <2>1. ASSUME gate'[r]["impact"] # <<>> PROVE ledger[r]["load_context"] # <<>>
    <3>1. 1 \in DOMAIN gate'[r]["impact"]
      BY <1>a, <1>b, <2>1, NotEmpty
    <3>2. CASE 1 \in DOMAIN gate[r]["impact"]
      BY <1>0, <1>a, <1>b, <3>2, NotEmpty DEF GatesOK
    <3> QED
      BY <1>3, <3>1, <3>2
  <2> QED
    BY <1>0, <1>a, <2>1 DEF Grows
<1>6. \A n \in DOMAIN gate'[r]["impact"] : gate'[r]["impact"][n].payload.snap = runCtx'[r]
  <2>1. ASSUME NEW n \in DOMAIN gate[r]["impact"]
        PROVE  gate'[r]["impact"][n].payload.snap = runCtx'[r]
    <3>1. gate[r]["impact"] # <<>>
      OBVIOUS
    <3> QED
      BY <1>0, <1>2, <1>a, <3>1 DEF GatesOK, Grows
  <2> QED
    BY <1>3, <2>1
<1>7. ASSUME NEW n \in DOMAIN gate'[r]["plan"]
      PROVE  /\ gate'[r]["plan"][n].payload.snap = runCtx'[r]
             /\ ApprovedCopy(r, "impact", 1)'
             /\ plans'[r] # <<>>
  <2>1. CASE n \in DOMAIN gate[r]["plan"]
    <3>1. /\ gate[r]["plan"][n].payload.snap = runCtx[r]
          /\ ApprovedCopy(r, "impact", 1)
          /\ plans[r] # <<>>
      BY <1>0, <2>1 DEF GatesOK
    <3>2. gate[r]["impact"] # <<>>
      BY <3>1 DEF ApprovedCopy
    <3> QED
      BY <1>0, <1>2, <1>a, <2>1, <3>1, <3>2, Stays DEF Grows
  <2>2. CASE n \notin DOMAIN gate[r]["plan"]
    <3>1. PICK k \in Workers : /\ job[k].run = r /\ GeneratePlan(k)
                               /\ gate'[r]["plan"][n].payload.snap = job[k].ctx
      BY <1>7, <1>a, <2>2, NewGate
    <3>2. Planning(k) /\ runCtx' = runCtx
      BY <1>0, <3>1, PlanAdded DEF GeneratePlan
    <3>3. ApprovedCopy(r, "impact", 1) /\ job[k].ctx = runCtx[r]
      BY <1>0, <3>1, <3>2 DEF WorkerOK
    <3>4. Len(plans[r]) \in Nat /\ DOMAIN plans'[r] = 1..Len(plans[r]) + 1
      BY <1>0, <3>1, PlanAdded
    <3>5. plans'[r] # <<>>
      BY <3>4
    <3> QED
      BY <1>0, <1>a, <3>1, <3>2, <3>3, <3>5, Stays
  <2> QED
    BY <2>1, <2>2
<1>8. ASSUME NEW n \in DOMAIN gate'[r]["publish"]
      PROVE  \E c \in coded' : c.run = r /\ c.plan = gate'[r]["publish"][n].payload
  <2>1. CodedPlan(r, gate'[r]["publish"][n].payload)
    <3>1. CASE n \in DOMAIN gate[r]["publish"]
      BY <1>0, <1>a, <3>1 DEF GatesOK, Grows
    <3>2. CASE n \notin DOMAIN gate[r]["publish"]
      <4>1. PICK k \in Workers : /\ job[k].run = r /\ Report(k)
                                 /\ gate'[r]["publish"][n].payload = job[k].plan
        BY <1>8, <1>a, <3>2, NewGate
      <4>2. Testing(k)
        BY <1>0, <4>1 DEF WorkerOK, Report, At, Placed, Testing, In
      <4> QED
        BY <1>0, <4>1, <4>2 DEF WorkerOK
    <3> QED
      BY <3>1, <3>2
  <2> QED
    BY <1>0, <2>1 DEF Grows, CodedPlan
<1> QED
  BY <1>1, <1>4, <1>5, <1>6, <1>7, <1>8

LEMMA HistoryStep == ASSUME CoreInv, Next PROVE HistoryOK'
<1>0. TypeOK /\ TypeOK' /\ HistoryOK /\ Grows /\ \A k \in Workers : WorkerOK(k)
  BY TypeStep, GrowsStep DEF CoreInv
<1>a. "plan" \in Stages /\ "publish" \in Stages
  BY DEF Stages
<1>b. Len(index) \in Nat /\ Len(index') \in Nat /\ \A c \in coded' : c.run \in Runs /\ c.ctx \in Nat
  BY <1>0, BoundsTyped DEF TypeOK
<1> DEFINE Reviewed(c) == \E n \in DOMAIN gate[c.run]["plan"] :
                            /\ ApprovedCopy(c.run, "plan", n)
                            /\ gate[c.run]["plan"][n].payload = c.plan
           CodedOK(c) == Reviewed(c) /\ (c.healed \/ c.ctx = c.plan.snap) /\ c.ctx <= Len(index)
<1>1. ASSUME NEW c \in coded', c \notin coded PROVE CodedOK(c)
  <2>1. PICK k \in Workers : Code(k)
    BY <1>0, <1>1, StepKinds, StartingWrites, ResumingWrites, CodingWrites, PublishingWrites,
       LedgerWrites, WorldWrites DEF history
  <2>2. /\ c.run = job[k].run /\ c.plan = job[k].plan /\ c.ctx = job[k].ctx
        /\ c.healed = job[k].healed
    BY <1>1, <2>1 DEF Code
  <2>3. Coding(k)
    BY <1>0, <2>1 DEF WorkerOK, Code, At, Placed, Coding, In
  <2>4. /\ ApprovedCopy(job[k].run, "plan", job[k].copy)
        /\ gate[job[k].run]["plan"][job[k].copy].payload = job[k].plan
        /\ job[k].healed \/ job[k].ctx = job[k].plan.snap
        /\ job[k].ctx <= Len(index)
    BY <1>0, <2>3 DEF WorkerOK
  <2> QED
    BY <2>2, <2>4 DEF ApprovedCopy
<1>2. \A c \in coded' : CodedOK(c)
  BY <1>0, <1>1 DEF HistoryOK
<1>3. ASSUME NEW c \in coded'
      PROVE  /\ \E n \in DOMAIN gate'[c.run]["plan"] :
                  /\ n \in DOMAIN gate'[c.run]["plan"]
                  /\ gate'[c.run]["plan"][n].status = "approved"
                  /\ gate'[c.run]["plan"][n].payload = c.plan
             /\ c.healed \/ c.ctx = c.plan.snap
             /\ c.ctx <= Len(index')
  <2>1. c.ctx <= Len(index')
    <3>1. c.ctx <= Len(index) /\ Len(index) <= Len(index')
      BY <1>0, <1>2 DEF Grows
    <3> QED
      BY <1>b, <3>1
  <2>2. PICK n \in DOMAIN gate[c.run]["plan"] :
          gate[c.run]["plan"][n].status = "approved" /\ gate[c.run]["plan"][n].payload = c.plan
    BY <1>2 DEF ApprovedCopy
  <2>3. /\ n \in DOMAIN gate'[c.run]["plan"]
        /\ gate'[c.run]["plan"][n].status = "approved"
        /\ gate'[c.run]["plan"][n].payload = c.plan
    BY <1>0, <1>a, <1>b, <2>2 DEF Grows
  <2> QED
    BY <1>2, <2>1, <2>3
<1>4. ASSUME NEW p \in published', p \notin published
      PROVE  CodedPlan(p.run, p.report) /\ \E n \in DOMAIN plans[p.run] : plans[p.run][n] = p.plan
  <2>1. PICK k \in Workers : Publish(k)
    BY <1>0, <1>4, StepKinds, StartingWrites, ResumingWrites, CodingWrites, PublishingWrites,
       LedgerWrites, WorldWrites DEF history
  <2>2. /\ p.run = job[k].run /\ p.plan = job[k].plan
        /\ p.report = gate[job[k].run]["publish"][job[k].copy].payload
    BY <1>4, <2>1 DEF Publish
  <2>3. Publishing(k) /\ job[k].run \in Runs
    BY <1>0, <2>1, AtRun DEF WorkerOK, Publish, At, Placed, Publishing, In
  <2>4. /\ job[k].copy \in DOMAIN gate[job[k].run]["publish"]
        /\ \E n \in DOMAIN plans[job[k].run] : plans[job[k].run][n] = job[k].plan
    BY <1>0, <2>3 DEF WorkerOK
  <2>5. CodedPlan(job[k].run, gate[job[k].run]["publish"][job[k].copy].payload)
    BY <2>3, <2>4 DEF CoreInv, GatesOK
  <2> QED
    BY <2>2, <2>4, <2>5
<1>5. ASSUME NEW p \in published'
      PROVE  /\ \E c \in coded' : c.run = p.run /\ c.plan = p.report
             /\ \E n \in DOMAIN plans'[p.run] : plans'[p.run][n] = p.plan
  <2>1. CodedPlan(p.run, p.report) /\ \E n \in DOMAIN plans[p.run] : plans[p.run][n] = p.plan
    BY <1>0, <1>4 DEF HistoryOK
  <2>2. p.run \in Runs
    BY <1>0 DEF TypeOK
  <2> QED
    BY <1>0, <2>1, <2>2 DEF Grows, CodedPlan
<1> QED
  BY <1>3, <1>5 DEF HistoryOK, ApprovedCopy, CodedPlan

-----------------------------------------------------------------------------
(* The workers *)

\* What others do leaves a worker what it relies on.
LEMMA WorkerStays ==
  ASSUME CoreInv, Next, NEW j \in Workers, pc'[j] = pc[j], job'[j] = job[j]
  PROVE  WorkerOK(j)'
<1>0. TypeOK /\ TypeOK' /\ Grows /\ OneStarts /\ WorkerOK(j)
  BY TypeStep, GrowsStep DEF CoreInv
<1> DEFINE now == job[j]
           r == now.run
<1>a. /\ deploy' = deploy /\ Len(index) \in Nat /\ Len(index') \in Nat /\ Len(index) <= Len(index')
      /\ now.ctx \in Nat /\ now.latest \in Nat /\ now.step \in Steps /\ now.stage \in Stages
      /\ "impact" \in Stages /\ "plan" \in Stages /\ "publish" \in Stages /\ "load_context" \in Steps
  <2>1. now.ctx \in Nat /\ now.latest \in Nat /\ now.step \in Steps /\ now.stage \in Stages
    BY <1>0, JobTyped, BoundsTyped
  <2>2. Len(index) \in Nat /\ Len(index') \in Nat
    BY <1>0 DEF TypeOK
  <2> QED
    BY <1>0, <2>1, <2>2 DEF Grows, Stages, Steps
<1>b. pc[j] # "idle" => r \in Runs
  BY <1>0, AtRun
<1>1. /\ pc[j] = "idle" <=> r = NoRun
      /\ pc[j] # "idle" => j \in deploy.workers
      /\ Placed(j)
      /\ now.ctx <= Len(index) /\ now.latest <= Len(index)
      /\ pc[j] \in {"check_context", "save_impact"} => now.ctx # 0
  BY <1>0 DEF WorkerOK
<1>2. Placed(j)' /\ now.ctx <= Len(index') /\ now.latest <= Len(index')
  BY <1>a, <1>1 DEF Placed
<1>3. pc[j] = "complete" => Result(r, now.step) /\ Result(r, now.step)'
  BY <1>0, <1>a, <1>b, Stays DEF WorkerOK
<1>4. Starting(j) => \/ In(j, "load_context", {"begin"})
                     \/ ledger'[r]["load_context"] # <<>>
  <2>1. Starting(j) => pc[j] # "idle"
    BY DEF Starting, In
  <2> QED
    BY <1>0, <1>a, <1>b, <2>1 DEF WorkerOK, Grows
<1>5. ASSUME Opening(j) PROVE gate'[r]["impact"] = <<>>
  <2>1. r \in Runs /\ gate[r]["impact"] = <<>>
    BY <1>0, <1>5, <1>b DEF WorkerOK, Opening, Starting, In
  <2>2. ASSUME gate'[r]["impact"] # <<>> PROVE FALSE
    <3>1. 1 \in DOMAIN gate'[r]["impact"] /\ 1 \notin DOMAIN gate[r]["impact"]
      BY <1>0, <1>a, <2>1, <2>2, NotEmpty DEF TypeOK
    <3>2. PICK k \in Workers : job[k].run = r /\ SaveImpact(k)
      BY <1>a, <2>1, <3>1, NewGate
    <3>3. Starting(k) /\ pc[k] = "save_impact"
      BY <3>2 DEF CoreInv, WorkerOK, Placed, SaveImpact, At, Starting, In
    <3>4. k = j
      BY <1>0, <1>5, <3>2, <3>3 DEF OneStarts, Opening
    <3>5. pc'[k] = "complete"
      BY <1>0, <3>2, Moves DEF SaveImpact
    <3> QED
      BY <3>3, <3>4, <3>5
  <2> QED
    BY <2>2
<1>6. ASSUME Loaded(j) PROVE now.ctx \in {0, runCtx'[r]}
  <2>1. r \in Runs /\ now.ctx \in {0, runCtx[r]}
    BY <1>0, <1>6, <1>b DEF WorkerOK, Loaded, Starting, In
  <2>2. ASSUME runCtx'[r] # runCtx[r] PROVE FALSE
    <3>1. PICK k \in Workers : CheckContext(k) /\ job[k].run = r
      BY <2>1, <2>2, NewContext
    <3>2. Starting(k) /\ pc[k] = "check_context" /\ pc'[k] = "complete"
      BY <1>0, <3>1, ContextSaved DEF CoreInv, CheckContext, At, Opening
    <3>3. k = j
      BY <1>0, <1>6, <3>1, <3>2 DEF OneStarts, Loaded
    <3> QED
      BY <3>2, <3>3
  <2> QED
    BY <2>1, <2>2
<1>7. pc[j] = "resume" => now.copy \in DOMAIN gate'[r][now.stage]
  BY <1>0, <1>a, <1>b DEF WorkerOK, Grows
<1>8. ASSUME Planning(j) PROVE ApprovedCopy(r, "impact", 1)' /\ now.ctx = runCtx'[r]
  <2>1. r \in Runs /\ ApprovedCopy(r, "impact", 1) /\ now.ctx = runCtx[r]
    BY <1>0, <1>8, <1>b DEF WorkerOK, Planning, In
  <2>2. gate[r]["impact"] # <<>>
    BY <2>1 DEF ApprovedCopy
  <2> QED
    BY <1>0, <1>a, <2>1, <2>2, Stays, NewContext
<1>9. ASSUME Coding(j)
      PROVE  /\ ApprovedCopy(r, "plan", now.copy)'
             /\ gate'[r]["plan"][now.copy].payload = now.plan
             /\ now.healed \/ now.ctx = now.plan.snap
             /\ now.ctx # 0
  <2>1. /\ r \in Runs /\ ApprovedCopy(r, "plan", now.copy)
        /\ gate[r]["plan"][now.copy].payload = now.plan
        /\ now.healed \/ now.ctx = now.plan.snap
        /\ now.ctx # 0
    BY <1>0, <1>9, <1>b DEF WorkerOK, Coding, ReadyToCode, In
  <2>2. now.copy \in DOMAIN gate[r]["plan"]
    BY <2>1 DEF ApprovedCopy
  <2> QED
    BY <1>0, <1>a, <2>1, <2>2, Stays DEF Grows
<1>10. Testing(j) => \E c \in coded' : c.run = r /\ c.plan = now.plan
  BY <1>0 DEF WorkerOK, CodedPlan, Grows
<1>11. ASSUME Publishing(j)
       PROVE  /\ now.copy \in DOMAIN gate'[r]["publish"]
              /\ \E n \in DOMAIN plans'[r] : plans'[r][n] = now.plan
  <2>1. /\ r \in Runs /\ now.copy \in DOMAIN gate[r]["publish"]
        /\ \E n \in DOMAIN plans[r] : plans[r][n] = now.plan
    BY <1>0, <1>11, <1>b DEF WorkerOK, Publishing, In
  <2> QED
    BY <1>0, <1>a, <2>1 DEF Grows
<1>c. /\ Starting(j)' <=> Starting(j)
      /\ Opening(j)' <=> Opening(j)
      /\ Loaded(j)' <=> Loaded(j)
      /\ Planning(j)' <=> Planning(j)
      /\ Coding(j)' <=> Coding(j)
      /\ Testing(j)' <=> Testing(j)
      /\ Publishing(j)' <=> Publishing(j)
      /\ In(j, "load_context", {"begin"})' <=> In(j, "load_context", {"begin"})
  BY DEF Starting, Opening, Loaded, Planning, Coding, ReadyToCode, Testing, Publishing, In
<1> QED
  BY <1>a, <1>1, <1>2, <1>3, <1>4, <1>5, <1>6, <1>7, <1>8, <1>9, <1>10, <1>11, <1>c
  DEF WorkerOK, CodedPlan

\* A worker at the start of a run was so before, unless it received the run.
KeepsStart(k) == Starting(k)' => Starting(k) /\ job'[k].run = job[k].run

\* What every step of a busy worker can count on.
LEMMA Busy ==
  ASSUME CoreInv, Next, NEW k \in Workers, pc[k] # "idle"
  PROVE  /\ TypeOK /\ TypeOK' /\ Grows /\ WorkerOK(k) /\ Placed(k)
         /\ job[k] \in Job /\ job[k].run \in Runs /\ job[k].run # NoRun
         /\ k \in deploy'.workers
         /\ Len(index) \in Nat /\ Len(index') \in Nat /\ Len(index) <= Len(index')
         /\ job[k].ctx \in Nat /\ job[k].ctx <= Len(index) /\ job[k].ctx <= Len(index')
         /\ job[k].latest \in Nat /\ job[k].latest <= Len(index) /\ job[k].latest <= Len(index')
<1>1. TypeOK /\ TypeOK' /\ Grows /\ WorkerOK(k)
  BY TypeStep, GrowsStep DEF CoreInv
<1>2. job[k] \in Job /\ job[k].run \in Runs
  BY <1>1, AtRun, JobTyped
<1>3. job[k].run # NoRun /\ k \in deploy.workers /\ deploy' = deploy /\ Placed(k)
  BY <1>1 DEF WorkerOK, Grows
<1>4. Len(index) \in Nat /\ Len(index') \in Nat
  BY <1>1 DEF TypeOK
<1>5. /\ job[k].ctx \in Nat /\ job[k].ctx <= Len(index)
      /\ job[k].latest \in Nat /\ job[k].latest <= Len(index) /\ Len(index) <= Len(index')
  BY <1>1, JobTyped, BoundsTyped DEF WorkerOK, Grows
<1> QED
  BY <1>1, <1>2, <1>3, <1>4, <1>5

LEMMA EndsOK ==
  ASSUME TypeOK, TypeOK', NEW k \in Workers, End(k)
  PROVE  WorkerOK(k)' /\ KeepsStart(k)
<1>1. pc'[k] = "idle" /\ job'[k] = NoJob
  BY Moves DEF End
<1>2. job'[k].run = NoRun /\ job'[k].ctx = 0 /\ job'[k].latest = 0
  BY <1>1 DEF NoJob
<1>3. Len(index') \in Nat
  BY DEF TypeOK
<1> QED
  BY <1>1, <1>2, <1>3 DEF WorkerOK, KeepsStart, Placed, In, Starting, Opening, Loaded, Planning,
     Coding, ReadyToCode, Testing, Publishing

\* Beginning a step touches the ledger and the place, nothing the worker carries.
LEMMA BeginLeads ==
  ASSUME TypeOK, NEW k \in Workers, BeginStep(k)
  PROVE  LET now == job[k]
             new == job'[k]
         IN
         /\ pc[k] = "begin"
         /\ new.run = now.run /\ new.step = now.step /\ new.ctx = now.ctx /\ new.latest = now.latest
         /\ new.copy = now.copy /\ new.plan = now.plan /\ new.healed = now.healed
         /\ new.blind = now.blind /\ new.said = now.said
         /\ \/ now.step = "load_context" /\ pc'[k] = "read_context"
            \/ now.step = "assess_impact" /\ pc'[k] = "ask_llm"
            \/ now.step = "generate_plan" /\ pc'[k] = "plan"
            \/ now.step = "execute_coding" /\ pc'[k] = "read_latest"
            \/ now.step = "run_tests_and_report" /\ pc'[k] = "tests"
            \/ now.step = "publish" /\ pc'[k] = "publish"
<1> DEFINE now == job[k]
           place == CASE now.step = "load_context" -> "read_context"
                      [] now.step = "assess_impact" -> "ask_llm"
                      [] now.step = "generate_plan" -> "plan"
                      [] now.step = "execute_coding" -> "read_latest"
                      [] now.step = "run_tests_and_report" -> "tests"
                      [] now.step = "publish" -> "publish"
<1>1. PICK row : Goto(k, place, [now EXCEPT !.row = row])
  BY DEF BeginStep
<1>2. pc[k] = "begin" /\ now \in Job /\ now.step \in Steps
  BY JobTyped DEF BeginStep, At
<1> HIDE DEF place
<1>3. pc'[k] = place /\ job'[k] = [now EXCEPT !.row = row]
  BY <1>1, Moves
<1>4. \/ now.step = "load_context" /\ pc'[k] = "read_context"
      \/ now.step = "assess_impact" /\ pc'[k] = "ask_llm"
      \/ now.step = "generate_plan" /\ pc'[k] = "plan"
      \/ now.step = "execute_coding" /\ pc'[k] = "read_latest"
      \/ now.step = "run_tests_and_report" /\ pc'[k] = "tests"
      \/ now.step = "publish" /\ pc'[k] = "publish"
  BY <1>2, <1>3 DEF Steps, place
<1> QED
  BY <1>2, <1>3, <1>4 DEF Job

LEMMA LedgerMovers ==
  ASSUME CoreInv, Next, NEW k \in Workers
  PROVE  /\ BeginStep(k) => WorkerOK(k)' /\ KeepsStart(k)
         /\ CompleteStep(k) => WorkerOK(k)' /\ KeepsStart(k)
         /\ StepFails(k) => WorkerOK(k)' /\ KeepsStart(k)
         /\ WorkerDies(k) => WorkerOK(k)' /\ KeepsStart(k)
<1>0. TypeOK /\ TypeOK' /\ Grows
  BY TypeStep, GrowsStep DEF CoreInv
<1> DEFINE now == job[k]
           r == now.run
<1>1. ASSUME BeginStep(k) PROVE WorkerOK(k)' /\ KeepsStart(k)
  <2>0. /\ WorkerOK(k) /\ pc[k] = "begin" /\ now \in Job /\ r \in Runs /\ r # NoRun
        /\ k \in deploy'.workers /\ Len(index') \in Nat /\ now.step \in Steps
        /\ now.ctx <= Len(index') /\ now.latest <= Len(index')
        /\ index' = index /\ runCtx' = runCtx /\ gate' = gate /\ plans' = plans
        /\ coded' = coded /\ published' = published
    BY <1>1, Busy, JobTyped DEF BeginStep, At, repository, history
  <2>1. /\ job'[k].run = r /\ job'[k].step = now.step /\ job'[k].ctx = now.ctx
        /\ job'[k].latest = now.latest /\ job'[k].copy = now.copy /\ job'[k].plan = now.plan
        /\ job'[k].healed = now.healed
        /\ \/ now.step = "load_context" /\ pc'[k] = "read_context"
           \/ now.step = "assess_impact" /\ pc'[k] = "ask_llm"
           \/ now.step = "generate_plan" /\ pc'[k] = "plan"
           \/ now.step = "execute_coding" /\ pc'[k] = "read_latest"
           \/ now.step = "run_tests_and_report" /\ pc'[k] = "tests"
           \/ now.step = "publish" /\ pc'[k] = "publish"
    BY <1>0, <1>1, BeginLeads
  <2>2. ledger'[r][now.step] # <<>>
    <3> DEFINE rows == ledger[r][now.step]
    <3>1. rows \in Seq({"running", "completed", "failed"})
      BY <1>0, <2>0, TablesTyped
    <3>2. \/ rows # <<>> /\ ledger' = ledger
          \/ ledger' = [ledger EXCEPT ![r][now.step] = Append(rows, "running")]
      BY <1>1 DEF BeginStep
    <3>3. Append(rows, "running") # <<>>
      BY <3>1
    <3>4. ASSUME NEW new, ledger' = [ledger EXCEPT ![r][now.step] = new]
          PROVE  ledger'[r][now.step] = new
      BY <1>0, <2>0, <3>4 DEF TypeOK
    <3>5. ledger' = ledger => ledger'[r][now.step] = rows
      OBVIOUS
    <3> HIDE DEF rows
    <3> QED
      BY <3>2, <3>3, <3>4, <3>5
  <2>3. ledger[r]["load_context"] # <<>> => ledger'[r]["load_context"] # <<>>
    BY <1>0, <2>0 DEF Grows, Steps
  <2> QED
    BY <2>0, <2>1, <2>2, <2>3 DEF WorkerOK, KeepsStart, Placed, In, Starting, Opening, Loaded,
       Planning, Coding, ReadyToCode, Testing, Publishing, ApprovedCopy, CodedPlan
<1>2. ASSUME CompleteStep(k) PROVE WorkerOK(k)' /\ KeepsStart(k)
  <2>0. /\ WorkerOK(k) /\ pc[k] = "complete" /\ now \in Job /\ r \in Runs /\ r # NoRun
        /\ k \in deploy'.workers /\ Len(index') \in Nat
        /\ now.ctx <= Len(index') /\ now.latest <= Len(index')
        /\ index' = index /\ runCtx' = runCtx /\ gate' = gate /\ plans' = plans
        /\ coded' = coded /\ published' = published
    BY <1>2, Busy DEF CompleteStep, At, repository, history
  <2>1. \/ now.step = "load_context" /\ Enter(k, "assess_impact", now)
        \/ /\ now.step = "execute_coding"
           /\ Enter(k, "run_tests_and_report", [NoJob EXCEPT !.run = r, !.plan = now.plan])
        \/ End(k)
    BY <1>2 DEF CompleteStep
  <2>2. CASE now.step = "load_context" /\ Enter(k, "assess_impact", now)
    <3>1. pc'[k] = "begin" /\ job'[k] = [now EXCEPT !.step = "assess_impact"]
      BY <1>0, <2>2, Moves DEF Enter
    <3>2. /\ job'[k].run = r /\ job'[k].step = "assess_impact" /\ job'[k].ctx = now.ctx
          /\ job'[k].latest = now.latest
      BY <2>0, <3>1 DEF Job
    <3>3. ledger[r]["load_context"] # <<>> => ledger'[r]["load_context"] # <<>>
      BY <1>0, <2>0 DEF Grows, Steps
    <3> QED
      BY <2>0, <2>2, <3>1, <3>2, <3>3 DEF WorkerOK, KeepsStart, Placed, In, Starting, Opening, Loaded,
         Planning, Coding, ReadyToCode, Testing, Publishing
  <2>3. CASE /\ now.step = "execute_coding"
             /\ Enter(k, "run_tests_and_report", [NoJob EXCEPT !.run = r, !.plan = now.plan])
    <3> DEFINE new == [NoJob EXCEPT !.run = r, !.plan = now.plan]
    <3>1. pc'[k] = "begin" /\ job'[k] = [new EXCEPT !.step = "run_tests_and_report"]
      BY <1>0, <2>3, Moves DEF Enter
    <3>2. /\ job'[k].run = r /\ job'[k].step = "run_tests_and_report" /\ job'[k].ctx = 0
          /\ job'[k].latest = 0 /\ job'[k].plan = now.plan
      BY <3>1 DEF NoJob
    <3> QED
      BY <2>0, <2>3, <3>1, <3>2 DEF WorkerOK, KeepsStart, Placed, In, Starting, Opening, Loaded,
         Planning, Coding, ReadyToCode, Testing, Publishing, CodedPlan
  <2> QED
    BY <1>0, <2>1, <2>2, <2>3, EndsOK
<1>3. ASSUME StepFails(k) \/ WorkerDies(k) PROVE WorkerOK(k)' /\ KeepsStart(k)
  BY <1>0, <1>3, EndsOK DEF StepFails, WorkerDies
<1> QED
  BY <1>1, <1>2, <1>3

LEMMA StartMovers ==
  ASSUME CoreInv, Next, NEW k \in Workers
  PROVE  /\ \A r \in Runs : Receive(k, r) =>
              WorkerOK(k)' /\ job'[k].run = r /\ \A j \in Workers : job[j].run # r
         /\ ReadContext(k) => WorkerOK(k)' /\ KeepsStart(k)
         /\ ContextMissing(k) => WorkerOK(k)' /\ KeepsStart(k)
         /\ AssessWithoutContext(k) => WorkerOK(k)' /\ KeepsStart(k)
         /\ CheckContext(k) => WorkerOK(k)' /\ KeepsStart(k)
         /\ AskLlm(k) => WorkerOK(k)' /\ KeepsStart(k)
         /\ SaveImpact(k) => WorkerOK(k)' /\ KeepsStart(k)
<1>0. TypeOK /\ TypeOK' /\ Grows /\ GatesOK
  BY TypeStep, GrowsStep DEF CoreInv
<1> DEFINE now == job[k]
           r == now.run
<1>a. "impact" \in Stages /\ "load_context" \in Steps
  BY DEF Stages, Steps
<1>1. ASSUME NEW q \in Runs, Receive(k, q)
      PROVE  WorkerOK(k)' /\ job'[k].run = q /\ \A j \in Workers : job[j].run # q
  <2>1. pc'[k] = "begin" /\ job'[k] = [[NoJob EXCEPT !.run = q] EXCEPT !.step = "load_context"]
    BY <1>0, <1>1, Moves DEF Receive, Enter
  <2>2. job'[k].run = q /\ job'[k].step = "load_context" /\ job'[k].ctx = 0 /\ job'[k].latest = 0
    BY <2>1 DEF NoJob
  <2>3. gate[q]["impact"] = <<>> /\ gate' = gate /\ q # NoRun
    BY <1>0, <1>1 DEF Receive, GatesOK, tables
  <2>4. k \in deploy'.workers /\ Len(index') \in Nat
    BY <1>0, <1>1 DEF Receive, At, TypeOK
  <2>5. WorkerOK(k)'
    BY <2>1, <2>2, <2>3, <2>4 DEF WorkerOK, Placed, In, Starting, Opening, Loaded,
       Planning, Coding, ReadyToCode, Testing, Publishing
  <2> QED
    BY <1>1, <2>2, <2>5 DEF Receive
<1>2. ASSUME ReadContext(k) PROVE WorkerOK(k)' /\ KeepsStart(k)
  <2>0. /\ WorkerOK(k) /\ pc[k] = "read_context" /\ now \in Job /\ r \in Runs /\ r # NoRun
        /\ k \in deploy'.workers /\ Len(index') \in Nat /\ Placed(k) /\ gate' = gate
    BY <1>2, Busy DEF ReadContext, At, tables
  <2>1. pc'[k] = "check_context" /\ job'[k] = [now EXCEPT !.ctx = Len(index'), !.latest = Len(index')]
    BY <1>0, <1>2, Moves DEF ReadContext
  <2>2. /\ job'[k].run = r /\ job'[k].step = "load_context" /\ job'[k].ctx = Len(index')
        /\ job'[k].latest = Len(index') /\ Len(index') # 0
    <3>1. Len(index') # 0
      BY <1>0, <1>2 DEF ReadContext, TypeOK
    <3> QED
      BY <2>0, <2>1, <3>1 DEF Job, Placed
  <2>3. ledger[r]["load_context"] # <<>> => ledger'[r]["load_context"] # <<>>
    BY <1>0, <1>a, <2>0 DEF Grows
  <2> QED
    BY <2>0, <2>1, <2>2, <2>3 DEF WorkerOK, KeepsStart, Placed, In, Starting, Opening, Loaded,
       Planning, Coding, ReadyToCode, Testing, Publishing
<1>3. ASSUME ContextMissing(k) PROVE WorkerOK(k)' /\ KeepsStart(k)
  <2>0. /\ WorkerOK(k) /\ pc[k] = "read_context" /\ now \in Job /\ r \in Runs /\ r # NoRun
        /\ k \in deploy'.workers /\ Len(index') \in Nat /\ Placed(k) /\ gate' = gate
        /\ now.ctx \in Nat /\ now.ctx <= Len(index') /\ now.latest <= Len(index')
        /\ index = <<>> /\ now.ctx <= Len(index)
    BY <1>3, Busy DEF ContextMissing, At
  <2>1. now.ctx = 0
    BY <2>0
  <2>2. pc'[k] = "begin" /\ job'[k] = [now EXCEPT !.step = "assess_impact"]
    BY <1>0, <1>3, Moves DEF ContextMissing, Enter
  <2>3. /\ job'[k].run = r /\ job'[k].step = "assess_impact" /\ job'[k].ctx = 0
        /\ job'[k].latest = now.latest
    BY <2>0, <2>1, <2>2 DEF Job
  <2>4. ledger[r]["load_context"] # <<>> => ledger'[r]["load_context"] # <<>>
    BY <1>0, <1>a, <2>0 DEF Grows
  <2> QED
    BY <2>0, <2>2, <2>3, <2>4 DEF WorkerOK, KeepsStart, Placed, In, Starting, Opening, Loaded,
       Planning, Coding, ReadyToCode, Testing, Publishing
<1>4. ASSUME AssessWithoutContext(k) PROVE WorkerOK(k)' /\ KeepsStart(k)
  BY <1>0, <1>4, EndsOK DEF AssessWithoutContext
<1>5. ASSUME CheckContext(k) PROVE WorkerOK(k)' /\ KeepsStart(k)
  <2>0. /\ WorkerOK(k) /\ pc[k] = "check_context" /\ r \in Runs /\ r # NoRun
        /\ k \in deploy'.workers /\ Len(index') \in Nat /\ Placed(k) /\ gate' = gate
    BY <1>5, Busy DEF CheckContext, At
  <2>1. /\ runCtx'[r] # 0 /\ runCtx'[r] <= Len(index')
        /\ pc'[k] = "complete" /\ job'[k].run = r /\ job'[k].step = now.step
        /\ job'[k].ctx = runCtx'[r] /\ job'[k].latest = 0
    BY <1>0, <1>5, <2>0, ContextSaved
  <2>2. ledger[r]["load_context"] # <<>> => ledger'[r]["load_context"] # <<>>
    BY <1>0, <1>a, <2>0 DEF Grows
  <2>3. now.step = "load_context"
    BY <2>0 DEF Placed
  <2>4. Result(r, "load_context")'
    BY <2>1 DEF Result
  <2> QED
    BY <2>0, <2>1, <2>2, <2>3, <2>4 DEF WorkerOK, KeepsStart, Placed, In, Starting, Opening, Loaded,
       Planning, Coding, ReadyToCode, Testing, Publishing
<1>6. ASSUME AskLlm(k) PROVE WorkerOK(k)' /\ KeepsStart(k)
  <2>0. /\ WorkerOK(k) /\ pc[k] = "ask_llm" /\ now \in Job /\ r \in Runs /\ r # NoRun
        /\ k \in deploy'.workers /\ Len(index') \in Nat /\ Placed(k)
        /\ gate' = gate /\ runCtx' = runCtx /\ now.ctx # 0
        /\ now.ctx <= Len(index') /\ now.latest <= Len(index')
    BY <1>6, Busy DEF AskLlm, At
  <2>1. End(k) \/ \E b \in BOOLEAN : Goto(k, "save_impact", [now EXCEPT !.charged = b])
    BY <1>6 DEF AskLlm
  <2>2. CASE \E b \in BOOLEAN : Goto(k, "save_impact", [now EXCEPT !.charged = b])
    <3>1. PICK b \in BOOLEAN : Goto(k, "save_impact", [now EXCEPT !.charged = b])
      BY <2>2
    <3>2. pc'[k] = "save_impact" /\ job'[k] = [now EXCEPT !.charged = b]
      BY <1>0, <3>1, Moves
    <3>3. /\ job'[k].run = r /\ job'[k].step = "assess_impact" /\ job'[k].ctx = now.ctx
          /\ job'[k].latest = now.latest
      BY <2>0, <3>2 DEF Job, Placed
    <3>4. ledger[r]["load_context"] # <<>> => ledger'[r]["load_context"] # <<>>
      BY <1>0, <1>a, <2>0 DEF Grows
    <3> QED
      BY <2>0, <3>2, <3>3, <3>4 DEF WorkerOK, KeepsStart, Placed, In, Starting, Opening, Loaded,
         Planning, Coding, ReadyToCode, Testing, Publishing
  <2> QED
    BY <1>0, <2>1, <2>2, EndsOK
<1>7. ASSUME SaveImpact(k) PROVE WorkerOK(k)' /\ KeepsStart(k)
  <2>0. /\ WorkerOK(k) /\ pc[k] = "save_impact" /\ now \in Job /\ r \in Runs /\ r # NoRun
        /\ k \in deploy'.workers /\ Len(index') \in Nat /\ Placed(k) /\ runCtx' = runCtx
        /\ now.ctx <= Len(index') /\ now.latest <= Len(index')
    BY <1>7, Busy DEF SaveImpact, At
  <2>1. pc'[k] = "complete" /\ job'[k] = now
    BY <1>0, <1>7, Moves DEF SaveImpact
  <2>2. ledger[r]["load_context"] # <<>> => ledger'[r]["load_context"] # <<>>
    BY <1>0, <1>a, <2>0 DEF Grows
  <2>3. gate'[r]["impact"] # <<>>
    <3>1. OpenGate(r, "impact", [snap |-> now.ctx, amended |-> FALSE])
      BY <1>7 DEF SaveImpact
    <3>2. Len(gate[r]["impact"]) \in Nat /\ Len(gate'[r]["impact"]) = Len(gate[r]["impact"]) + 1
      <4>1. Len(gate[r]["impact"]) \in Nat
        BY <1>0, <1>a, <2>0, TablesTyped
      <4>2. ASSUME NEW q \in Runs, NEW payload, OpenGate(q, "impact", payload)
            PROVE  Len(gate'[q]["impact"]) = Len(gate[q]["impact"]) + 1
        BY <1>0, <1>a, <4>2, OpensGate
      <4> QED
        BY <2>0, <3>1, <4>1, <4>2
    <3>3. gate'[r]["impact"] \in Seq(Gate)
      BY <1>0, <1>a, <2>0 DEF TypeOK
    <3> QED
      BY <3>2, <3>3
  <2>4. Result(r, "assess_impact")'
    BY <2>1, <2>3 DEF Result
  <2> QED
    BY <2>0, <2>1, <2>2, <2>4 DEF WorkerOK, KeepsStart, Placed, In, Starting, Opening, Loaded,
       Planning, Coding, ReadyToCode, Testing, Publishing
<1> QED
  BY <1>1, <1>2, <1>3, <1>4, <1>5, <1>6, <1>7

\* Where a decision leads, and what the worker takes along.
LEMMA ResumeLeads ==
  ASSUME TypeOK, NEW k \in Workers, WorkerOK(k), Resume(k)
  PROVE  LET now == job[k]
             new == job'[k]
             r == now.run
         IN
         \/ End(k)
         \/ /\ Decided(k) = "approved"
            /\ new.run = r /\ new.copy = now.copy /\ new.said = now.said /\ new.healed = now.healed
            /\ new.ctx # 0 /\ new.ctx = runCtx[r] /\ new.ctx \in live /\ new.ctx <= Len(index)
            /\ new.latest = Len(index)
            /\ \/ now.stage = "impact" /\ pc'[k] = "begin" /\ new.step = "generate_plan"
               \/ /\ now.stage = "plan" /\ new.plan = gate[r]["plan"][now.copy].payload
                  /\ pc'[k] = "resume_gate" \/ (~deploy.staged /\ pc'[k] = "begin" /\ new.step = "execute_coding")
               \/ /\ now.stage = "publish" /\ pc'[k] = "begin" /\ new.step = "publish"
                  /\ new.plan = plans[r][Len(plans[r])]
<1> DEFINE now == job[k]
           new == job'[k]
           r == now.run
           ctx == ContextOfRun(r)
           next == [now EXCEPT !.ctx = ctx, !.latest = Latest]
           plan == gate[r]["plan"][now.copy].payload
           last == plans[r][Len(plans[r])]
<1>1. now \in Job
  BY JobTyped
<1>2. next.ctx = ctx
  BY <1>1 DEF Job
<1>3. \/ End(k)
      \/ /\ Decided(k) = "approved" /\ ctx # 0
         /\ \/ now.stage = "impact" /\ Enter(k, "generate_plan", next)
            \/ /\ now.stage = "plan"
               /\ \/ Goto(k, "resume_gate", [next EXCEPT !.plan = plan])
                  \/ ~deploy.staged /\ Enter(k, "execute_coding", [next EXCEPT !.plan = plan])
            \/ now.stage = "publish" /\ Enter(k, "publish", [next EXCEPT !.plan = last])
  BY <1>2 DEF Resume, Decided, PlanOfReview
<1>4. Latest = Len(index) /\ (ctx # 0 => ctx = runCtx[r] /\ ctx \in live /\ ctx <= Len(index))
  BY DEF Latest, ContextOfRun, TypeOK
<1> HIDE DEF ctx, plan, last
<1>5. CASE now.stage = "impact" /\ Enter(k, "generate_plan", next)
  <2>1. pc'[k] = "begin" /\ new = [next EXCEPT !.step = "generate_plan"]
    BY <1>5, Moves DEF Enter
  <2>2. /\ new.run = r /\ new.copy = now.copy /\ new.said = now.said /\ new.healed = now.healed
        /\ new.ctx = ctx /\ new.latest = Latest /\ new.step = "generate_plan"
    BY <1>1, <2>1 DEF Job
  <2> QED
    BY <1>3, <1>4, <1>5, <2>1, <2>2
<1>6. CASE now.stage = "plan" /\ Goto(k, "resume_gate", [next EXCEPT !.plan = plan])
  <2>1. pc'[k] = "resume_gate" /\ new = [next EXCEPT !.plan = plan]
    BY <1>6, Moves
  <2>2. /\ new.run = r /\ new.copy = now.copy /\ new.said = now.said /\ new.healed = now.healed
        /\ new.ctx = ctx /\ new.latest = Latest /\ new.plan = plan
    BY <1>1, <2>1 DEF Job
  <2> QED
    BY <1>3, <1>4, <1>6, <2>1, <2>2 DEF plan
<1>7. CASE now.stage = "plan" /\ ~deploy.staged /\ Enter(k, "execute_coding", [next EXCEPT !.plan = plan])
  <2>1. pc'[k] = "begin" /\ new = [[next EXCEPT !.plan = plan] EXCEPT !.step = "execute_coding"]
    BY <1>7, Moves DEF Enter
  <2>2. /\ new.run = r /\ new.copy = now.copy /\ new.said = now.said /\ new.healed = now.healed
        /\ new.ctx = ctx /\ new.latest = Latest /\ new.plan = plan /\ new.step = "execute_coding"
    BY <1>1, <2>1 DEF Job
  <2> QED
    BY <1>3, <1>4, <1>7, <2>1, <2>2 DEF plan
<1>8. CASE now.stage = "publish" /\ Enter(k, "publish", [next EXCEPT !.plan = last])
  <2>1. pc'[k] = "begin" /\ new = [[next EXCEPT !.plan = last] EXCEPT !.step = "publish"]
    BY <1>8, Moves DEF Enter
  <2>2. /\ new.run = r /\ new.copy = now.copy /\ new.said = now.said /\ new.healed = now.healed
        /\ new.ctx = ctx /\ new.latest = Latest /\ new.plan = last /\ new.step = "publish"
    BY <1>1, <2>1 DEF Job
  <2> QED
    BY <1>3, <1>4, <1>8, <2>1, <2>2 DEF last
<1> QED
  BY <1>3, <1>5, <1>6, <1>7, <1>8

LEMMA ResumeMovers ==
  ASSUME CoreInv, Next, NEW k \in Workers
  PROVE  /\ \A r \in Runs, stage \in Stages : \A n \in DOMAIN gate[r][stage], text \in Texts(stage) :
              Decide(k, r, stage, n, text) => WorkerOK(k)' /\ KeepsStart(k)
         /\ Resume(k) => WorkerOK(k)' /\ KeepsStart(k)
         /\ ResumeGate(k) => WorkerOK(k)' /\ KeepsStart(k)
         /\ GeneratePlan(k) => WorkerOK(k)' /\ KeepsStart(k)
<1>0. TypeOK /\ TypeOK' /\ Grows /\ GatesOK /\ HistoryOK
  BY TypeStep, GrowsStep DEF CoreInv
<1> DEFINE now == job[k]
           r == now.run
<1>a. "impact" \in Stages /\ "plan" \in Stages /\ "publish" \in Stages /\ "load_context" \in Steps
  BY DEF Stages, Steps
<1>1. ASSUME NEW q \in Runs, NEW stage \in Stages, NEW n \in DOMAIN gate[q][stage],
             NEW text \in Texts(stage), Decide(k, q, stage, n, text)
      PROVE  WorkerOK(k)' /\ KeepsStart(k)
  <2>1. pc'[k] = "resume" /\ job'[k] = [NoJob EXCEPT !.run = q, !.stage = stage, !.copy = n,
                                         !.approve = Parse(text).approve, !.said = Parse(text).said]
    BY <1>0, <1>1, Moves DEF Decide
  <2>2. /\ job'[k].run = q /\ job'[k].step = "load_context" /\ job'[k].ctx = 0 /\ job'[k].latest = 0
        /\ job'[k].stage = stage /\ job'[k].copy = n /\ pc'[k] = "resume"
    BY <2>1 DEF NoJob
  <2>3. gate' = gate /\ q # NoRun /\ k \in deploy'.workers /\ Len(index') \in Nat
    BY <1>0, <1>1 DEF Decide, At, tables, TypeOK
  <2> QED
    BY <2>2, <2>3 DEF WorkerOK, KeepsStart, Placed, In, Starting, Opening, Loaded,
       Planning, Coding, ReadyToCode, Testing, Publishing
<1>2. ASSUME Resume(k) PROVE WorkerOK(k)' /\ KeepsStart(k)
  <2> DEFINE new == job'[k]
  <2>0. /\ WorkerOK(k) /\ pc[k] = "resume" /\ now \in Job /\ r \in Runs /\ r # NoRun
        /\ k \in deploy'.workers /\ Len(index) \in Nat /\ index' = index
        /\ runCtx' = runCtx /\ plans' = plans
    BY <1>2, Busy DEF Resume, At, repository
  <2>1. /\ now.copy \in DOMAIN gate[r][now.stage] /\ now.copy \in DOMAIN gate'[r][now.stage]
        /\ DOMAIN gate[r][now.stage] = 1..Len(gate[r][now.stage])
        /\ gate'[r][now.stage][now.copy].status = Decided(k)
        /\ gate'[r][now.stage][now.copy].payload = gate[r][now.stage][now.copy].payload
    BY <1>0, <1>2, <2>0, DecidesGate
  <2>2. \/ End(k)
        \/ /\ Decided(k) = "approved"
           /\ new.run = r /\ new.copy = now.copy
           /\ new.ctx # 0 /\ new.ctx = runCtx[r] /\ new.ctx <= Len(index) /\ new.latest = Len(index)
           /\ \/ now.stage = "impact" /\ pc'[k] = "begin" /\ new.step = "generate_plan"
              \/ /\ now.stage = "plan" /\ new.plan = gate[r]["plan"][now.copy].payload
                 /\ pc'[k] = "resume_gate" \/ (pc'[k] = "begin" /\ new.step = "execute_coding")
              \/ /\ now.stage = "publish" /\ pc'[k] = "begin" /\ new.step = "publish"
                 /\ new.plan = plans[r][Len(plans[r])]
    BY <1>0, <1>2, <2>0, ResumeLeads
  <2> HIDE DEF new
  <2>3. CASE /\ Decided(k) = "approved" /\ now.stage = "impact" /\ pc'[k] = "begin"
             /\ new.step = "generate_plan" /\ new.run = r
             /\ new.ctx = runCtx[r] /\ new.ctx <= Len(index) /\ new.latest = Len(index)
    <3>1. now.copy = 1
      <4>1. Len(gate[r]["impact"]) <= 1 /\ Len(gate[r]["impact"]) \in Nat
        BY <1>0, <1>a, <2>0, TablesTyped DEF GatesOK
      <4> QED
        BY <2>1, <2>3, <4>1
    <3>2. 1 \in DOMAIN gate'[r]["impact"] /\ gate'[r]["impact"][1].status = "approved"
      BY <2>1, <2>3, <3>1
    <3> QED
      BY <2>0, <2>3, <3>2 DEF WorkerOK, KeepsStart, Placed, In, Starting, Opening,
         Loaded, Planning, Coding, ReadyToCode, Testing, Publishing, ApprovedCopy, new
  <2>4. CASE /\ Decided(k) = "approved" /\ now.stage = "plan" /\ new.run = r /\ new.copy = now.copy
             /\ new.plan = gate[r]["plan"][now.copy].payload
             /\ pc'[k] = "resume_gate" \/ (pc'[k] = "begin" /\ new.step = "execute_coding")
             /\ new.ctx # 0 /\ new.ctx = runCtx[r] /\ new.ctx <= Len(index) /\ new.latest = Len(index)
    <3>1. /\ now.copy \in DOMAIN gate'[r]["plan"]
          /\ gate'[r]["plan"][now.copy].status = "approved"
          /\ gate'[r]["plan"][now.copy].payload = new.plan
      BY <2>1, <2>4
    <3>2. new.plan.snap = new.ctx
      <4>1. now.copy \in DOMAIN gate[r]["plan"]
        BY <2>1, <2>4
      <4>2. gate[r]["plan"][now.copy].payload.snap = runCtx[r]
        BY <1>0, <2>0, <4>1 DEF GatesOK
      <4> QED
        BY <2>4, <4>2
    <3>3. /\ r \in Runs /\ r # NoRun /\ k \in deploy'.workers /\ Len(index) \in Nat /\ index' = index
          /\ new.run = r /\ new.copy = now.copy /\ new.ctx # 0
          /\ new.ctx <= Len(index) /\ new.latest = Len(index)
      BY <2>0, <2>4
    <3>4. CASE pc'[k] = "resume_gate"
      BY <3>1, <3>2, <3>3, <3>4 DEF WorkerOK, KeepsStart, Placed, In, Starting, Opening,
         Loaded, Planning, Coding, ReadyToCode, Testing, Publishing, ApprovedCopy, new
    <3>5. CASE pc'[k] = "begin" /\ new.step = "execute_coding"
      BY <3>1, <3>2, <3>3, <3>5 DEF WorkerOK, KeepsStart, Placed, In, Starting, Opening,
         Loaded, Planning, Coding, ReadyToCode, Testing, Publishing, ApprovedCopy, new
    <3> QED
      BY <2>4, <3>4, <3>5
  <2>5. CASE /\ now.stage = "publish" /\ pc'[k] = "begin" /\ new.step = "publish" /\ new.run = r
             /\ new.copy = now.copy /\ new.plan = plans[r][Len(plans[r])]
             /\ new.ctx <= Len(index) /\ new.latest = Len(index)
    <3>1. \E n \in DOMAIN plans[r] : plans[r][n] = new.plan
      <4>1. PICK c \in coded : c.run = r
        BY <1>0, <2>0, <2>1, <2>5 DEF GatesOK, CodedPlan
      <4>2. \E n \in DOMAIN gate[r]["plan"] : TRUE
        BY <1>0, <4>1 DEF HistoryOK
      <4>3. plans[r] # <<>> /\ plans[r] \in Seq(Plan)
        BY <1>0, <2>0, <4>2 DEF GatesOK, TypeOK
      <4>4. Len(plans[r]) \in DOMAIN plans[r]
        BY <4>3
      <4> QED
        BY <2>5, <4>4
    <3> QED
      BY <2>0, <2>1, <2>5, <3>1 DEF WorkerOK, KeepsStart, Placed, In, Starting,
         Opening, Loaded, Planning, Coding, ReadyToCode, Testing, Publishing, new
  <2> QED
    BY <1>0, <2>2, <2>3, <2>4, <2>5, EndsOK
<1>3. ASSUME ResumeGate(k) PROVE WorkerOK(k)' /\ KeepsStart(k)
  <2>0. /\ WorkerOK(k) /\ pc[k] = "resume_gate" /\ now \in Job /\ r \in Runs /\ r # NoRun
        /\ k \in deploy'.workers /\ Len(index') \in Nat /\ gate' = gate
        /\ now.ctx <= Len(index')
    BY <1>3, Busy DEF ResumeGate, At, tables
  <2>1. PICK sha \in HeadSeen :
          End(k) \/ Enter(k, "execute_coding", [now EXCEPT !.latest = 0, !.blind = (sha = Unknown)])
    BY <1>3 DEF ResumeGate
  <2>2. CASE Enter(k, "execute_coding", [now EXCEPT !.latest = 0, !.blind = (sha = Unknown)])
    <3>1. /\ pc'[k] = "begin"
          /\ job'[k] = [[now EXCEPT !.latest = 0, !.blind = (sha = Unknown)] EXCEPT !.step = "execute_coding"]
      BY <1>0, <2>2, Moves DEF Enter
    <3>2. /\ job'[k].run = r /\ job'[k].step = "execute_coding" /\ job'[k].ctx = now.ctx
          /\ job'[k].latest = 0 /\ job'[k].plan = now.plan /\ job'[k].copy = now.copy
          /\ job'[k].healed = now.healed
      BY <2>0, <3>1 DEF Job
    <3> QED
      BY <2>0, <3>1, <3>2 DEF WorkerOK, KeepsStart, Placed, In, Starting, Opening, Loaded,
         Planning, Coding, ReadyToCode, Testing, Publishing, ApprovedCopy
  <2> QED
    BY <1>0, <2>1, <2>2, EndsOK
<1>4. ASSUME GeneratePlan(k) PROVE WorkerOK(k)' /\ KeepsStart(k)
  <2>0. /\ WorkerOK(k) /\ pc[k] = "plan" /\ now \in Job /\ r \in Runs /\ r # NoRun
        /\ k \in deploy'.workers /\ Len(index') \in Nat /\ Placed(k)
        /\ now.ctx <= Len(index') /\ now.latest <= Len(index')
    BY <1>4, Busy DEF GeneratePlan, At
  <2>1. pc'[k] = "complete" /\ job'[k] = now /\ now.step = "generate_plan"
    BY <1>0, <1>4, <2>0, Moves DEF GeneratePlan, Placed
  <2>2. Len(plans[r]) \in Nat /\ DOMAIN plans'[r] = 1..Len(plans[r]) + 1
    BY <1>0, <1>4, <2>0, PlanAdded
  <2>3. gate'[r]["plan"] # <<>> /\ plans'[r] # <<>>
    <3>1. ASSUME NEW q \in Runs, NEW payload, OpenGate(q, "plan", payload)
          PROVE  DOMAIN gate'[q]["plan"] = 1..Len(gate[q]["plan"]) + 1
      BY <1>0, <1>a, <3>1, OpensGate
    <3>2. Len(gate[r]["plan"]) \in Nat /\ DOMAIN gate'[r]["plan"] = 1..Len(gate[r]["plan"]) + 1
      <4>1. Len(gate[r]["plan"]) \in Nat
        BY <1>0, <1>a, <2>0, TablesTyped
      <4>2. \E payload : OpenGate(r, "plan", payload)
        BY <1>4 DEF GeneratePlan
      <4> QED
        BY <2>0, <3>1, <4>1, <4>2
    <3> QED
      BY <2>2, <3>2
  <2>4. Result(r, "generate_plan")'
    BY <2>1, <2>3 DEF Result
  <2> QED
    BY <2>0, <2>1, <2>4 DEF WorkerOK, KeepsStart, Placed, In, Starting, Opening, Loaded,
       Planning, Coding, ReadyToCode, Testing, Publishing
<1> QED
  BY <1>1, <1>2, <1>3, <1>4

LEMMA CodingMovers ==
  ASSUME CoreInv, Next, NEW k \in Workers
  PROVE  /\ ReadLatest(k) => WorkerOK(k)' /\ KeepsStart(k)
         /\ CodingGate(k) => WorkerOK(k)' /\ KeepsStart(k)
         /\ Baseline(k) => WorkerOK(k)' /\ KeepsStart(k)
         /\ Code(k) => WorkerOK(k)' /\ KeepsStart(k)
<1>0. TypeOK /\ TypeOK' /\ Grows
  BY TypeStep, GrowsStep DEF CoreInv
<1> DEFINE now == job[k]
           r == now.run
<1>1. ASSUME ReadLatest(k) PROVE WorkerOK(k)' /\ KeepsStart(k)
  <2>0. /\ WorkerOK(k) /\ pc[k] = "read_latest" /\ now \in Job /\ r \in Runs /\ r # NoRun
        /\ k \in deploy'.workers /\ Len(index') \in Nat /\ gate' = gate /\ Placed(k)
        /\ now.ctx <= Len(index') /\ index' = index
    BY <1>1, Busy DEF ReadLatest, At, tables, repository
  <2>1. pc'[k] = "coding_gate" /\ job'[k] = [now EXCEPT !.latest = Latest]
    BY <1>0, <1>1, Moves DEF ReadLatest
  <2>2. /\ job'[k].run = r /\ job'[k].step = "execute_coding" /\ job'[k].ctx = now.ctx
        /\ job'[k].latest = Len(index') /\ job'[k].plan = now.plan /\ job'[k].copy = now.copy
        /\ job'[k].healed = now.healed
    BY <2>0, <2>1 DEF Job, Placed, Latest
  <2> QED
    BY <2>0, <2>1, <2>2 DEF WorkerOK, KeepsStart, Placed, In, Starting, Opening, Loaded,
       Planning, Coding, ReadyToCode, Testing, Publishing, ApprovedCopy
<1>2. ASSUME CodingGate(k) PROVE WorkerOK(k)' /\ KeepsStart(k)
  <2>0. /\ WorkerOK(k) /\ pc[k] = "coding_gate" /\ now \in Job /\ r \in Runs /\ r # NoRun
        /\ k \in deploy'.workers /\ gate' = gate /\ Placed(k)
        /\ Len(index) \in Nat /\ Len(index') \in Nat /\ Len(index) <= Len(index')
        /\ now.ctx <= Len(index') /\ now.latest \in Nat /\ now.latest <= Len(index')
    BY <1>2, Busy DEF CodingGate, At, tables
  <2>1. PICK sha \in HeadSeen, blind \in BOOLEAN :
          LET seen == [now EXCEPT !.latest = 0, !.saw = sha, !.blind = blind] IN
          \/ Goto(k, "baseline", seen)
          \/ now.latest # 0 /\ Goto(k, "baseline", [seen EXCEPT !.ctx = Len(index'), !.healed = TRUE])
    <3>1. \A sha : (now.blind \/ sha = Unknown) \in BOOLEAN
      BY <1>0, JobTyped
    <3> QED
      BY <1>2, <3>1 DEF CodingGate, Stale
  <2> DEFINE seen == [now EXCEPT !.latest = 0, !.saw = sha, !.blind = blind]
             healed == [seen EXCEPT !.ctx = Len(index'), !.healed = TRUE]
  <2>2. pc'[k] = "baseline" /\ (job'[k] = seen \/ (now.latest # 0 /\ job'[k] = healed))
    BY <1>0, <2>1, Moves
  <2>3. /\ job'[k].run = r /\ job'[k].step = "execute_coding"
        /\ job'[k].latest = 0 /\ job'[k].plan = now.plan /\ job'[k].copy = now.copy
        /\ \/ job'[k].ctx = now.ctx /\ job'[k].healed = now.healed
           \/ job'[k].ctx = Len(index') /\ job'[k].healed = TRUE /\ now.latest # 0
    BY <2>0, <2>2 DEF Job, Placed
  <2> QED
    BY <2>0, <2>2, <2>3 DEF WorkerOK, KeepsStart, Placed, In, Starting, Opening, Loaded,
       Planning, Coding, ReadyToCode, Testing, Publishing, ApprovedCopy
<1>3. ASSUME Baseline(k) PROVE WorkerOK(k)' /\ KeepsStart(k)
  <2>0. /\ WorkerOK(k) /\ pc[k] = "baseline" /\ now \in Job /\ r \in Runs /\ r # NoRun
        /\ k \in deploy'.workers /\ Len(index') \in Nat /\ gate' = gate /\ Placed(k)
        /\ now.ctx <= Len(index') /\ now.latest <= Len(index')
    BY <1>3, Busy DEF Baseline, At, tables
  <2>1. pc'[k] = "code" /\ job'[k] = now
    BY <1>0, <1>3, Moves DEF Baseline
  <2> QED
    BY <2>0, <2>1 DEF WorkerOK, KeepsStart, Placed, In, Starting, Opening, Loaded,
       Planning, Coding, ReadyToCode, Testing, Publishing, ApprovedCopy
<1>4. ASSUME Code(k) PROVE WorkerOK(k)' /\ KeepsStart(k)
  <2>0. /\ WorkerOK(k) /\ pc[k] = "code" /\ now \in Job /\ r \in Runs /\ r # NoRun
        /\ k \in deploy'.workers /\ Len(index') \in Nat /\ gate' = gate /\ Placed(k)
        /\ now.ctx <= Len(index') /\ now.latest <= Len(index')
    BY <1>4, Busy DEF Code, At, tables
  <2>1. pc'[k] = "complete" /\ job'[k] = now /\ now.step = "execute_coding"
    BY <1>0, <1>4, <2>0, Moves DEF Code, Placed
  <2>2. \E c \in coded' : c.run = r /\ c.plan = now.plan
    <3> DEFINE c == [run |-> r, plan |-> now.plan, ctx |-> now.ctx, saw |-> now.saw,
                     healed |-> now.healed, excused |-> now.blind \/ now.said = "override"]
    <3>1. c \in coded' /\ c.run = r /\ c.plan = now.plan
      BY <1>4 DEF Code
    <3> QED
      BY <3>1
  <2>3. Result(r, "execute_coding")'
    BY <2>1, <2>2 DEF Result
  <2> QED
    BY <2>0, <2>1, <2>2, <2>3 DEF WorkerOK, KeepsStart, Placed, In, Starting, Opening, Loaded,
       Planning, Coding, ReadyToCode, Testing, Publishing, CodedPlan
<1> QED
  BY <1>1, <1>2, <1>3, <1>4

LEMMA PublishMovers ==
  ASSUME CoreInv, Next, NEW k \in Workers
  PROVE  /\ RunTests(k) => WorkerOK(k)' /\ KeepsStart(k)
         /\ Report(k) => WorkerOK(k)' /\ KeepsStart(k)
         /\ Publish(k) => WorkerOK(k)' /\ KeepsStart(k)
<1>0. TypeOK /\ TypeOK' /\ Grows
  BY TypeStep, GrowsStep DEF CoreInv
<1> DEFINE now == job[k]
           r == now.run
<1>1. ASSUME RunTests(k) PROVE WorkerOK(k)' /\ KeepsStart(k)
  <2>0. /\ WorkerOK(k) /\ pc[k] = "tests" /\ now \in Job /\ r \in Runs /\ r # NoRun
        /\ k \in deploy'.workers /\ Len(index') \in Nat /\ coded' = coded /\ Placed(k)
        /\ now.ctx <= Len(index') /\ now.latest <= Len(index')
    BY <1>1, Busy DEF RunTests, At, history
  <2>1. pc'[k] = "report" /\ job'[k] = now
    BY <1>0, <1>1, Moves DEF RunTests
  <2> QED
    BY <2>0, <2>1 DEF WorkerOK, KeepsStart, Placed, In, Starting, Opening, Loaded,
       Planning, Coding, ReadyToCode, Testing, Publishing, CodedPlan
<1>2. ASSUME Report(k) PROVE WorkerOK(k)' /\ KeepsStart(k)
  <2>0. /\ WorkerOK(k) /\ pc[k] = "report" /\ now \in Job /\ r \in Runs /\ r # NoRun
        /\ k \in deploy'.workers /\ Len(index') \in Nat /\ Placed(k)
        /\ now.ctx <= Len(index') /\ now.latest <= Len(index')
    BY <1>2, Busy DEF Report, At
  <2>1. pc'[k] = "complete" /\ job'[k] = now /\ now.step = "run_tests_and_report"
    BY <1>0, <1>2, <2>0, Moves DEF Report, Placed
  <2>2. gate'[r]["publish"] # <<>>
    <3>1. "publish" \in Stages
      BY DEF Stages
    <3>2. ASSUME NEW q \in Runs, NEW payload, OpenGate(q, "publish", payload)
          PROVE  DOMAIN gate'[q]["publish"] = 1..Len(gate[q]["publish"]) + 1
      BY <1>0, <3>1, <3>2, OpensGate
    <3>3. Len(gate[r]["publish"]) \in Nat /\ DOMAIN gate'[r]["publish"] = 1..Len(gate[r]["publish"]) + 1
      <4>1. Len(gate[r]["publish"]) \in Nat
        BY <1>0, <2>0, <3>1, TablesTyped
      <4>2. \E payload : OpenGate(r, "publish", payload)
        BY <1>2 DEF Report
      <4> QED
        BY <2>0, <3>2, <4>1, <4>2
    <3> QED
      BY <3>3
  <2>3. Result(r, "run_tests_and_report")'
    BY <2>1, <2>2 DEF Result
  <2> QED
    BY <2>0, <2>1, <2>3 DEF WorkerOK, KeepsStart, Placed, In, Starting, Opening, Loaded,
       Planning, Coding, ReadyToCode, Testing, Publishing
<1>3. ASSUME Publish(k) PROVE WorkerOK(k)' /\ KeepsStart(k)
  <2>0. /\ WorkerOK(k) /\ pc[k] = "publish" /\ now \in Job /\ r \in Runs /\ r # NoRun
        /\ k \in deploy'.workers /\ Len(index') \in Nat /\ Placed(k)
        /\ now.ctx <= Len(index') /\ now.latest <= Len(index')
    BY <1>3, Busy DEF Publish, At
  <2>1. pc'[k] = "complete" /\ job'[k] = now /\ now.step = "publish"
    BY <1>0, <1>3, <2>0, Moves DEF Publish, Placed
  <2>2. \E p \in published' : p.run = r
    <3> DEFINE p == [run |-> r, plan |-> now.plan,
                     report |-> gate[r]["publish"][now.copy].payload]
    <3>1. p \in published' /\ p.run = r
      BY <1>3 DEF Publish
    <3> QED
      BY <3>1
  <2>3. Result(r, "publish")'
    BY <2>1, <2>2 DEF Result
  <2> QED
    BY <2>0, <2>1, <2>3 DEF WorkerOK, KeepsStart, Placed, In, Starting, Opening, Loaded,
       Planning, Coding, ReadyToCode, Testing, Publishing
<1> QED
  BY <1>1, <1>2, <1>3

\* A step is one worker's, or the world's.
LEMMA OneMoves ==
  ASSUME TypeOK, Next
  PROVE  \/ Push \/ OtherIndex
         \/ \E k \in Workers :
              /\ ByStarting(k) \/ ByResuming(k) \/ ByCoding(k) \/ ByPublishing(k) \/ ByLedger(k)
              /\ \A j \in Workers : j # k => pc'[j] = pc[j] /\ job'[j] = job[j]
<1>1. ASSUME NEW k \in Workers,
             ByStarting(k) \/ ByResuming(k) \/ ByCoding(k) \/ ByPublishing(k) \/ ByLedger(k)
      PROVE  \E place, now : Goto(k, place, now)
  <2>1. CASE ByStarting(k)
    BY <2>1 DEF ByStarting, Receive, ReadContext, ContextMissing, AssessWithoutContext, CheckContext,
       AskLlm, SaveImpact, Enter, End
  <2>2. CASE ByResuming(k)
    BY <2>2 DEF ByResuming, Decide, Resume, ResumeGate, GeneratePlan, Enter, End
  <2>3. CASE ByCoding(k)
    BY <2>3 DEF ByCoding, ReadLatest, CodingGate, Baseline, Code
  <2>4. CASE ByPublishing(k)
    BY <2>4 DEF ByPublishing, RunTests, Report, Publish
  <2>5. CASE ByLedger(k)
    BY <2>5 DEF ByLedger, BeginStep, CompleteStep, StepFails, WorkerDies, Enter, End
  <2> QED
    BY <1>1, <2>1, <2>2, <2>3, <2>4, <2>5
<1> QED
  BY <1>1, StepKinds, Moves

LEMMA Movers ==
  ASSUME CoreInv, Next, NEW k \in Workers,
         ByStarting(k) \/ ByResuming(k) \/ ByCoding(k) \/ ByPublishing(k) \/ ByLedger(k)
  PROVE  /\ WorkerOK(k)'
         /\ KeepsStart(k) \/ \A j \in Workers : job[j].run # job'[k].run
  BY StartMovers, ResumeMovers, CodingMovers, PublishMovers, LedgerMovers
  DEF ByStarting, ByResuming, ByCoding, ByPublishing, ByLedger

LEMMA WorkersStep == ASSUME CoreInv, Next PROVE OneStarts' /\ \A k \in Workers : WorkerOK(k)'
<1>0. TypeOK /\ OneStarts
  BY DEF CoreInv
<1>1. CASE Push \/ OtherIndex
  <2>1. UNCHANGED <<pc, job>>
    BY <1>0, <1>1, WorldWrites
  <2> QED
    BY <1>0, <2>1, WorkerStays DEF OneStarts, Starting, In
<1>2. ASSUME NEW k \in Workers,
             ByStarting(k) \/ ByResuming(k) \/ ByCoding(k) \/ ByPublishing(k) \/ ByLedger(k),
             \A j \in Workers : j # k => pc'[j] = pc[j] /\ job'[j] = job[j]
      PROVE  OneStarts' /\ \A j \in Workers : WorkerOK(j)'
  <2>1. \A j \in Workers : WorkerOK(j)'
    BY <1>2, Movers, WorkerStays
  <2>2. KeepsStart(k) \/ \A j \in Workers : job[j].run # job'[k].run
    BY <1>2, Movers
  <2>3. \A j \in Workers : j # k /\ Starting(j)' => Starting(j) /\ job'[j].run = job[j].run
    BY <1>2 DEF Starting, In
  <2>4. OneStarts'
    BY <1>0, <2>2, <2>3 DEF OneStarts, KeepsStart
  <2> QED
    BY <2>1, <2>4
<1> QED
  BY <1>0, <1>1, <1>2, OneMoves

\* Nothing has happened.
LEMMA CoreInit == ASSUME Init PROVE CoreInv
<1>1. TypeOK
  <2>1. 0 \in 0..Branch /\ 0 \in 0..MaxPushes /\ 0 \in 0..MaxIndex
    BY BoundsTyped DEF Branch
  <2>2. index \in Seq(0..Branch) /\ Len(index) <= MaxIndex
    <3>1. \/ index = <<>>
          \/ index = <<0>>
      BY DEF Init
    <3>2. <<0>> \in Seq(0..Branch) /\ Len(<<0>>) = 1
      BY <2>1
    <3>3. <<>> \in Seq(0..Branch) /\ Len(<<>>) = 0
      OBVIOUS
    <3>4. 0 <= MaxIndex /\ 1 <= MaxIndex
      BY BoundsTyped
    <3>5. CASE index = <<>>
      BY <3>3, <3>4, <3>5
    <3>6. CASE index = <<0>>
      BY <3>2, <3>4, <3>6
    <3> QED
      BY <3>1, <3>5, <3>6
  <2>3. /\ deploy \in Deployments /\ decisions \in 0..deploy.decisions
        /\ origin \in 0..MaxPushes /\ head \in 0..Branch
    <3>1. deploy \in Deployments /\ decisions = 0
      BY DEF Init
    <3>2. deploy.decisions \in Nat
      BY <3>1, RunContentsAssumption
    <3> QED
      BY <2>1, <3>1, <3>2 DEF Init
  <2>4. /\ runCtx \in [Runs -> 0..MaxIndex]
        /\ gate \in [Runs -> [Stages -> Seq(Gate)]]
        /\ \A r \in Runs, s \in Stages : Len(gate[r][s]) <= MaxGates
        /\ plans \in [Runs -> Seq(Plan)]
        /\ ledger \in [Runs -> [Steps -> Seq({"running", "completed", "failed"})]]
    BY <2>1, BoundsTyped DEF Init
  <2>5. pc \in [Workers -> Places] /\ job \in [Workers -> Job]
    BY NoJobTyped DEF Init, Places
  <2> QED
    BY <2>2, <2>3, <2>4, <2>5 DEF Init, TypeOK
<1>2. LedgerOK
  BY DEF Init, LedgerOK, Done
<1>3. GatesOK
  BY DEF Init, GatesOK, Stages
<1>4. HistoryOK
  BY DEF Init, HistoryOK
<1>5. \A k \in Workers : pc[k] = "idle" /\ job[k] = NoJob /\ NoJob.ctx = 0 /\ NoJob.latest = 0
                         /\ NoJob.run = NoRun
  BY DEF Init, NoJob
<1>6. Len(index) \in Nat
  BY <1>1 DEF TypeOK
<1>7. OneStarts
  BY <1>5 DEF OneStarts, Starting, In
<1>8. \A k \in Workers : WorkerOK(k)
  BY <1>5, <1>6 DEF WorkerOK, Placed, In, Starting, Opening, Loaded, Planning, Coding, ReadyToCode,
     Testing, Publishing
<1> QED
  BY <1>1, <1>2, <1>3, <1>4, <1>7, <1>8 DEF CoreInv

LEMMA CoreStep == ASSUME CoreInv, Next PROVE CoreInv'
  BY TypeStep, LedgerStep, GatesStep, HistoryStep, WorkersStep DEF CoreInv

-----------------------------------------------------------------------------
(* One worker *)

LEMMA CrewFinite ==
  ASSUME TypeOK
  PROVE  IsFiniteSet(deploy.workers) /\ Cardinality(deploy.workers) \in Nat
  BY RunContentsAssumption, DeployTyped, FS_Subset, FS_CardinalityType

\* A worker that takes a step is of the crew, and alone in it nobody else is busy.
LEMMA OfCrew ==
  ASSUME NEW k \in Workers,
         ByStarting(k) \/ ByResuming(k) \/ ByCoding(k) \/ ByPublishing(k) \/ ByLedger(k)
  PROVE  k \in deploy.workers
<1>1. CASE ByStarting(k)
  BY <1>1 DEF ByStarting, Receive, ReadContext, ContextMissing, AssessWithoutContext, CheckContext,
     AskLlm, SaveImpact, At
<1>2. CASE ByResuming(k)
  BY <1>2 DEF ByResuming, Decide, Resume, ResumeGate, GeneratePlan, At
<1>3. CASE ByCoding(k)
  BY <1>3 DEF ByCoding, ReadLatest, CodingGate, Baseline, Code, At
<1>4. CASE ByPublishing(k)
  BY <1>4 DEF ByPublishing, RunTests, Report, Publish, At
<1>5. CASE ByLedger(k)
  BY <1>5 DEF ByLedger, BeginStep, CompleteStep, StepFails, WorkerDies, At
<1> QED
  BY <1>1, <1>2, <1>3, <1>4, <1>5

LEMMA OthersIdle ==
  ASSUME CoreInv, Alone, NEW k \in Workers, k \in deploy.workers
  PROVE  \A j \in Workers : j # k => pc[j] = "idle"
<1>1. PICK w : deploy.workers = {w}
  BY CrewFinite, FS_Singleton DEF Alone, CoreInv
<1> QED
  BY <1>1 DEF CoreInv, WorkerOK

LEMMA OnePlanStep ==
  ASSUME CoreInv, OnePlan, \A k \in Workers : ResumesOnce(k), Next
  PROVE  OnePlan'
<1>0. TypeOK /\ TypeOK' /\ Grows /\ GatesOK /\ \A k \in Workers : WorkerOK(k)
  BY TypeStep, GrowsStep DEF CoreInv
<1> SUFFICES ASSUME NEW r \in Runs
             PROVE  /\ Len(plans'[r]) <= 1
                    /\ plans'[r] # <<>> => /\ 1 \in DOMAIN gate'[r]["impact"]
                                           /\ gate'[r]["impact"][1].status = "approved"
                    /\ \A n \in DOMAIN gate'[r]["plan"] : gate'[r]["plan"][n].payload = plans'[r][1]
  BY DEF OnePlan, ApprovedCopy
<1>a. "impact" \in Stages /\ "plan" \in Stages
  BY DEF Stages
<1>b. plans[r] \in Seq(Plan) /\ gate[r]["plan"] \in Seq(Gate) /\ gate'[r]["plan"] \in Seq(Gate)
  BY <1>0, <1>a DEF TypeOK
<1>1. CASE \E k \in Workers : GeneratePlan(k) /\ job[k].run = r
  <2>1. PICK k \in Workers : GeneratePlan(k) /\ job[k].run = r
    BY <1>1
  <2>2. /\ Planning(k)
        /\ Len(plans'[r]) = Len(plans[r]) + 1 /\ DOMAIN plans'[r] = 1..Len(plans[r]) + 1
    BY <1>0, <2>1, PlanAdded
  <2>3. plans[r] = <<>> /\ ApprovedCopy(r, "impact", 1)
    BY <1>0, <2>1, <2>2 DEF ResumesOnce, WorkerOK
  <2>4. Len(plans[r]) = 0 /\ Len(plans'[r]) = 1
    BY <2>2, <2>3
  <2>5. ASSUME NEW n \in DOMAIN gate'[r]["plan"] PROVE gate'[r]["plan"][n].payload = plans'[r][1]
    <3>1. n \notin DOMAIN gate[r]["plan"]
      BY <1>0, <2>3 DEF GatesOK
    <3>2. gate'[r]["plan"][n].payload = plans'[r][Len(plans[r]) + 1]
      BY <1>a, <2>5, <3>1, NewGate
    <3>3. Len(plans[r]) + 1 = 1
      BY <2>4
    <3> QED
      BY <3>2, <3>3
  <2>6. 1 \in DOMAIN gate'[r]["impact"] /\ gate'[r]["impact"][1].status = "approved"
    BY <1>0, <1>a, <2>3 DEF Grows, ApprovedCopy
  <2> QED
    BY <2>4, <2>5, <2>6
<1>2. CASE ~\E k \in Workers : GeneratePlan(k) /\ job[k].run = r
  <2>1. plans'[r] = plans[r]
    <3>1. plans' = plans \/ \E k \in Workers : GeneratePlan(k)
      BY <1>0, StepKinds, StartingWrites, ResumingWrites, CodingWrites, PublishingWrites,
         LedgerWrites, WorldWrites DEF tables
    <3> QED
      BY <1>0, <1>2, <3>1, PlanAdded
  <2>2. ASSUME NEW n \in DOMAIN gate'[r]["plan"] PROVE gate'[r]["plan"][n].payload = plans'[r][1]
    <3>1. n \in DOMAIN gate[r]["plan"]
      BY <1>2, <1>a, <2>2, NewGate
    <3> QED
      BY <1>0, <1>a, <2>1, <3>1 DEF OnePlan, Grows
  <2>3. plans'[r] # <<>> => /\ 1 \in DOMAIN gate'[r]["impact"]
                            /\ gate'[r]["impact"][1].status = "approved"
    BY <1>0, <1>a, <2>1 DEF OnePlan, Grows, ApprovedCopy
  <2> QED
    BY <2>1, <2>2, <2>3 DEF OnePlan
<1> QED
  BY <1>1, <1>2

\* What a step leaves its worker with, when nobody else took the review.
LEMMA ResumesOnceStep ==
  ASSUME CoreInv, OnePlan, NEW k \in Workers, ResumesOnce(k), Next,
         ByStarting(k) \/ ByResuming(k) \/ ByCoding(k) \/ ByPublishing(k) \/ ByLedger(k)
  PROVE  ResumesOnce(k)'
<1>0. TypeOK /\ GatesOK /\ WorkerOK(k)
  BY DEF CoreInv
<1>a. job[k] \in Job
  BY <1>0, JobTyped
<1>1. ASSUME NEW r \in Runs, NEW stage \in Stages, NEW n \in DOMAIN gate[r][stage],
             NEW text \in Texts(stage), Decide(k, r, stage, n, text)
      PROVE  ResumesOnce(k)'
  <2>1. pc'[k] = "resume" /\ job'[k] = [NoJob EXCEPT !.run = r, !.stage = stage, !.copy = n,
                                         !.approve = Parse(text).approve, !.said = Parse(text).said]
    BY <1>0, <1>1, Moves DEF Decide
  <2>2. job'[k].run = r /\ job'[k].stage = stage /\ job'[k].copy = n
    BY <2>1 DEF NoJob
  <2>3. gate'[r][stage][n].status = "pending"
    BY <1>1 DEF Decide, tables
  <2> QED
    BY <2>1, <2>2, <2>3 DEF ResumesOnce, Planning, In
<1>2. ASSUME Resume(k) PROVE ResumesOnce(k)'
  <2> DEFINE now == job[k]
             r == now.run
  <2>1. /\ pc[k] = "resume" /\ r \in Runs /\ now.copy \in DOMAIN gate[r][now.stage]
        /\ DOMAIN gate[r][now.stage] = 1..Len(gate[r][now.stage]) /\ plans' = plans
    BY <1>0, <1>2, DecidesGate DEF Resume, At
  <2>2. pc'[k] # "resume" /\ (Planning(k)' => now.stage = "impact" /\ job'[k].run = r)
    <3>1. End(k) => pc'[k] = "idle"
      BY <1>0, Moves DEF End
    <3> QED
      BY <1>0, <1>2, <3>1, ResumeLeads DEF Planning, In
  <2>3. now.stage = "impact" => plans[r] = <<>>
    <3>1. ASSUME now.stage = "impact" PROVE now.copy = 1
      <4>1. Len(gate[r]["impact"]) <= 1 /\ Len(gate[r]["impact"]) \in Nat
        BY <1>0, <2>1, TablesTyped DEF GatesOK, Stages
      <4> QED
        BY <2>1, <3>1, <4>1
    <3> QED
      BY <2>1, <3>1 DEF ResumesOnce, OnePlan, ApprovedCopy
  <2> QED
    BY <2>1, <2>2, <2>3 DEF ResumesOnce
<1>3. ASSUME BeginStep(k) PROVE ResumesOnce(k)'
  <2>1. /\ pc[k] = "begin" /\ pc'[k] # "resume" /\ (pc'[k] = "plan" => job[k].step = "generate_plan")
        /\ pc'[k] # "begin" /\ job'[k].run = job[k].run /\ job'[k].step = job[k].step
    BY <1>0, <1>3, BeginLeads
  <2>2. plans' = plans
    BY <1>3 DEF BeginStep
  <2> QED
    BY <2>1, <2>2 DEF ResumesOnce, Planning, In
<1>4. ASSUME CompleteStep(k) PROVE pc'[k] # "resume" /\ ~Planning(k)'
  <2>1. \/ Enter(k, "assess_impact", job[k])
        \/ Enter(k, "run_tests_and_report", [NoJob EXCEPT !.run = job[k].run, !.plan = job[k].plan])
        \/ End(k)
    BY <1>4 DEF CompleteStep
  <2>2. \/ pc'[k] = "begin" /\ job'[k] = [job[k] EXCEPT !.step = "assess_impact"]
        \/ /\ pc'[k] = "begin"
           /\ job'[k] = [[NoJob EXCEPT !.run = job[k].run, !.plan = job[k].plan]
                           EXCEPT !.step = "run_tests_and_report"]
        \/ pc'[k] = "idle"
    BY <1>0, <2>1, Moves DEF Enter, End
  <2>3. (pc'[k] = "begin" /\ job'[k].step # "generate_plan") \/ pc'[k] = "idle"
    BY <1>a, <2>2 DEF Job, NoJob
  <2> QED
    BY <2>3 DEF Planning, In
<1>5. ASSUME NEW step \in {"load_context", "assess_impact", "execute_coding"}, NEW now \in Job,
             Enter(k, step, now)
      PROVE  pc'[k] # "resume" /\ ~Planning(k)'
  BY <1>0, <1>5, Moves DEF Enter, Job, Planning, In
<1>6. ASSUME NEW place \in Places \ {"begin", "resume", "plan"}, NEW now, Goto(k, place, now)
      PROVE  pc'[k] # "resume" /\ ~Planning(k)'
  BY <1>0, <1>6, Moves DEF Planning, In
<1>7. ASSUME NEW r \in Runs, Receive(k, r) PROVE pc'[k] # "resume" /\ ~Planning(k)'
  <2>1. [NoJob EXCEPT !.run = r] \in Job
    BY NoJobTyped DEF Job
  <2> QED
    BY <1>5, <1>7, <2>1 DEF Receive
<1>8. ASSUME ResumeGate(k) PROVE pc'[k] # "resume" /\ ~Planning(k)'
  <2>1. PICK sha :
          \/ End(k)
          \/ Enter(k, "execute_coding", [job[k] EXCEPT !.latest = 0, !.blind = (sha = Unknown)])
    BY <1>8 DEF ResumeGate
  <2> DEFINE now == [job[k] EXCEPT !.latest = 0, !.blind = (sha = Unknown)]
  <2>2. pc'[k] = "idle" \/ (pc'[k] = "begin" /\ job'[k].step = "execute_coding")
    <3>1. pc'[k] = "idle" \/ (pc'[k] = "begin" /\ job'[k] = [now EXCEPT !.step = "execute_coding"])
      BY <1>0, <2>1, Moves DEF Enter, End
    <3> QED
      BY <1>a, <3>1 DEF Job
  <2> QED
    BY <2>2 DEF Planning, In
<1>9. CASE \/ ReadContext(k) \/ AssessWithoutContext(k) \/ CheckContext(k) \/ AskLlm(k)
           \/ SaveImpact(k) \/ GeneratePlan(k) \/ ByCoding(k) \/ ByPublishing(k)
           \/ StepFails(k) \/ WorkerDies(k)
  <2>1. \E place \in Places \ {"begin", "resume", "plan"} : \E now : Goto(k, place, now)
    BY <1>9 DEF ReadContext, AssessWithoutContext, CheckContext, AskLlm, SaveImpact, GeneratePlan,
       ByCoding, ReadLatest, CodingGate, Baseline, Code, ByPublishing, RunTests, Report, Publish,
       StepFails, WorkerDies, End, Places
  <2> QED
    BY <1>6, <2>1 DEF ResumesOnce
<1>10. ASSUME ContextMissing(k) PROVE pc'[k] # "resume" /\ ~Planning(k)'
  BY <1>5, <1>10, <1>a DEF ContextMissing
<1> QED
  BY <1>1, <1>2, <1>3, <1>4, <1>7, <1>8, <1>9, <1>10 DEF ByStarting, ByResuming, ByLedger, ResumesOnce

\* HEAD as the gates see it, and what they pass.
LEMMA FreshStep ==
  ASSUME CoreInv, NEW k \in Workers, FreshWorker(k), Controlled, live \subseteq {Len(index)}, Next,
         ByStarting(k) \/ ByResuming(k) \/ ByCoding(k) \/ ByPublishing(k) \/ ByLedger(k)
  PROVE  FreshWorker(k)'
<1> DEFINE now == job[k]
           new == job'[k]
           Outside == /\ pc'[k] # "resume_gate" /\ pc'[k] # "coding_gate"
                      /\ ~ReadyToCode(k)' /\ ~In(k, "execute_coding", {"baseline", "code"})'
<1>0. TypeOK /\ TypeOK' /\ WorkerOK(k) /\ Grows /\ deploy.staged
  BY TypeStep, GrowsStep DEF CoreInv, Controlled
<1>a. now \in Job /\ now.step \in Steps /\ now.ctx \in Nat /\ now.ctx <= Len(index) /\ Len(index) \in Nat
  BY <1>0, JobTyped, SMTT(20) DEF WorkerOK, TypeOK
<1>b. \A i \in 1..Len(index) : index'[i] = index[i]
  BY <1>0 DEF Grows
<1>1. Outside => FreshWorker(k)'
  BY DEF FreshWorker
<1>2. CASE pc'[k] \notin {"begin", "resume_gate", "read_latest", "coding_gate", "baseline", "code"}
  BY <1>1, <1>2 DEF ReadyToCode, In
<1>3. CASE pc'[k] = "begin" /\ new.step # "execute_coding"
  BY <1>1, <1>3 DEF ReadyToCode, In
<1>4. ASSUME Resume(k) PROVE FreshWorker(k)'
  <2>1. index' = index /\ (End(k) => pc'[k] = "idle")
    BY <1>0, <1>4, Moves DEF Resume, repository, End
  <2>2. CASE End(k)
    BY <1>2, <2>1, <2>2
  <2>3. CASE ~End(k)
    <3>1. \/ pc'[k] = "begin" /\ new.step \in {"generate_plan", "publish"}
          \/ pc'[k] = "resume_gate" /\ new.ctx = Len(index) /\ new.latest = Len(index)
      BY <1>0, <1>4, <2>3, ResumeLeads
    <3> QED
      BY <1>3, <2>1, <3>1 DEF FreshWorker, ReadyToCode, In
  <2> QED
    BY <2>2, <2>3
<1>5. ASSUME ResumeGate(k) PROVE FreshWorker(k)'
  <2>1. pc[k] = "resume_gate" /\ index' = index /\ head' = head
    BY <1>5 DEF ResumeGate, At, repository
  <2>2. now.ctx = Len(index) /\ now.latest = Len(index) /\ now.ctx # 0
    BY <1>0, <2>1 DEF FreshWorker, WorkerOK, Coding
  <2>3. PICK sha \in HeadSeen :
          \/ End(k)
          \/ /\ ~Stale(now.latest, sha) \/ now.said = "override"
             /\ Enter(k, "execute_coding", [now EXCEPT !.latest = 0, !.blind = (sha = Unknown)])
    BY <1>5 DEF ResumeGate
  <2>4. CASE End(k)
    <3>1. pc'[k] = "idle"
      BY <1>0, <2>4, Moves DEF End
    <3> QED
      BY <1>2, <3>1
  <2>5. CASE /\ ~Stale(now.latest, sha) \/ now.said = "override"
             /\ Enter(k, "execute_coding", [now EXCEPT !.latest = 0, !.blind = (sha = Unknown)])
    <3> DEFINE blind == sha = Unknown
    <3>1. /\ pc'[k] = "begin"
          /\ new = [[now EXCEPT !.latest = 0, !.blind = blind] EXCEPT !.step = "execute_coding"]
      BY <1>0, <2>5, Moves DEF Enter
    <3> HIDE DEF blind
    <3>2. /\ new.step = "execute_coding" /\ new.ctx = now.ctx /\ new.said = now.said
          /\ new.blind = blind
      BY <1>a, <3>1 DEF Job
    <3>3. new.blind \/ new.said = "override" \/ index[new.ctx] = head
      BY <2>2, <2>5, <3>2 DEF Stale, HeadSeen, blind
    <3> QED
      BY <2>1, <2>2, <3>1, <3>2, <3>3 DEF FreshWorker, Excused, ReadyToCode, In
  <2> QED
    BY <2>3, <2>4, <2>5
<1>6. ASSUME BeginStep(k) PROVE FreshWorker(k)'
  <2>1. index' = index /\ head' = head
    BY <1>6 DEF BeginStep, repository
  <2>2. /\ pc[k] = "begin" /\ new.step = now.step /\ new.ctx = now.ctx /\ new.said = now.said
        /\ new.blind = now.blind
        /\ pc'[k] \notin {"begin", "resume_gate", "coding_gate", "baseline", "code"}
        /\ pc'[k] = "read_latest" => now.step = "execute_coding"
    BY <1>0, <1>6, BeginLeads
  <2> QED
    BY <2>1, <2>2 DEF FreshWorker, Excused, ReadyToCode, In
<1>7. ASSUME ReadLatest(k) PROVE FreshWorker(k)'
  <2>1. pc[k] = "read_latest" /\ index' = index /\ head' = head /\ now.step = "execute_coding"
    BY <1>0, <1>7 DEF ReadLatest, At, repository, WorkerOK, Placed
  <2>2. pc'[k] = "coding_gate" /\ new = [now EXCEPT !.latest = Len(index)]
    BY <1>0, <1>7, Moves DEF ReadLatest, Latest
  <2>3. /\ new.step = now.step /\ new.ctx = now.ctx /\ new.said = now.said
        /\ new.blind = now.blind /\ new.latest = Len(index)
    BY <1>a, <2>2 DEF Job
  <2> QED
    BY <2>1, <2>2, <2>3 DEF FreshWorker, Excused, ReadyToCode, In
<1>8. ASSUME CodingGate(k) PROVE FreshWorker(k)'
  <2>1. pc[k] = "coding_gate" /\ now.step = "execute_coding"
    BY <1>0, <1>8 DEF CodingGate, At, WorkerOK, Placed
  <2>2. /\ now.ctx = Len(index) /\ now.latest = Len(index) /\ now.ctx # 0
        /\ Excused(k) \/ index[now.ctx] = head
    BY <1>0, <2>1 DEF FreshWorker, WorkerOK, Coding, ReadyToCode, In
  <2>3. PICK sha \in HeadSeen, blind \in BOOLEAN :
          /\ blind <=> now.blind \/ sha = Unknown
          /\ LET seen == [now EXCEPT !.latest = 0, !.saw = sha, !.blind = blind] IN
             \/ index' = index /\ Goto(k, "baseline", seen)
             \/ /\ Stale(now.latest, sha) /\ now.said # "override"
                /\ Goto(k, "baseline", [seen EXCEPT !.ctx = Len(index'), !.healed = TRUE])
    <3>1. \A sha : (now.blind \/ sha = Unknown) \in BOOLEAN
      BY <1>0, JobTyped
    <3> QED
      BY <1>8, <3>1 DEF CodingGate, KeepIndex
  <2> DEFINE seen == [now EXCEPT !.latest = 0, !.saw = sha, !.blind = blind]
             healed == [seen EXCEPT !.ctx = Len(index'), !.healed = TRUE]
  <2>4. /\ pc'[k] = "baseline"
        /\ \/ index' = index /\ new = seen
           \/ Stale(now.latest, sha) /\ now.said # "override" /\ new = healed
    BY <1>0, <2>3, Moves
  <2>5. /\ new.step = "execute_coding" /\ new.saw = sha /\ new.said = now.said /\ new.blind = blind
        /\ \/ index' = index /\ new.ctx = now.ctx
           \/ Stale(now.latest, sha) /\ now.said # "override"
    BY <1>a, <2>1, <2>4 DEF Job
  <2> HIDE DEF seen, healed
  <2>6. new.blind \/ new.said = "override" \/ index'[new.ctx] = new.saw
    BY <2>2, <2>3, <2>5 DEF Excused, Stale, HeadSeen
  <2> QED
    BY <2>4, <2>5, <2>6 DEF FreshWorker, Excused, ReadyToCode, In
<1>9. ASSUME Baseline(k) PROVE FreshWorker(k)'
  <2>1. pc[k] = "baseline" /\ pc'[k] = "code" /\ new = now /\ now.step = "execute_coding"
    BY <1>0, <1>9, Moves DEF Baseline, At, WorkerOK, Placed
  <2>2. now.ctx # 0 /\ (Excused(k) \/ index[now.ctx] = now.saw)
    BY <1>0, <2>1 DEF FreshWorker, WorkerOK, Coding, In
  <2>3. index'[now.ctx] = index[now.ctx]
    BY <1>a, <1>b, <2>2
  <2> QED
    BY <2>1, <2>2, <2>3 DEF FreshWorker, Excused, ReadyToCode, In
<1>10. ASSUME NEW step \in {"load_context", "assess_impact", "run_tests_and_report"}, NEW job1 \in Job,
              Enter(k, step, job1)
       PROVE  FreshWorker(k)'
  <2>1. pc'[k] = "begin" /\ new = [job1 EXCEPT !.step = step]
    BY <1>0, <1>10, Moves DEF Enter
  <2>2. new.step = step
    BY <2>1 DEF Job
  <2> QED
    BY <1>3, <2>1, <2>2
<1>11. ASSUME End(k) PROVE FreshWorker(k)'
  <2>1. pc'[k] = "idle"
    BY <1>0, <1>11, Moves DEF End
  <2> QED
    BY <1>2, <2>1
<1>12. ASSUME CompleteStep(k) PROVE FreshWorker(k)'
  <2>1. [NoJob EXCEPT !.run = now.run, !.plan = now.plan] \in Job
    <3>1. now.run \in Runs \cup {NoRun} /\ now.plan \in Plan
      BY <1>0, JobTyped
    <3> QED
      BY <3>1, NoJobTyped DEF Job
  <2> QED
    BY <1>10, <1>11, <1>12, <1>a, <2>1 DEF CompleteStep
<1>13. ASSUME NEW r \in Runs, Receive(k, r) PROVE FreshWorker(k)'
  <2>1. [NoJob EXCEPT !.run = r] \in Job
    BY NoJobTyped DEF Job
  <2> QED
    BY <1>10, <1>13, <2>1 DEF Receive
<1>14. CASE ContextMissing(k) \/ AssessWithoutContext(k) \/ StepFails(k) \/ WorkerDies(k)
  BY <1>10, <1>11, <1>14, <1>a DEF ContextMissing, AssessWithoutContext, StepFails, WorkerDies
<1>15. CASE \/ ReadContext(k) \/ CheckContext(k) \/ AskLlm(k) \/ SaveImpact(k) \/ GeneratePlan(k)
            \/ Code(k) \/ ByPublishing(k)
            \/ \E r \in Runs, stage \in Stages :
                 \E n \in DOMAIN gate[r][stage], text \in Texts(stage) : Decide(k, r, stage, n, text)
  <2>1. \/ End(k)
        \/ \E place \in {"check_context", "complete", "save_impact", "report", "resume"} :
             \E job1 : Goto(k, place, job1)
    BY <1>15 DEF ReadContext, CheckContext, AskLlm, SaveImpact, GeneratePlan, Code, ByPublishing,
       RunTests, Report, Publish, Decide
  <2> QED
    BY <1>0, <1>2, <1>11, <2>1, Moves
<1> QED
  BY <1>4, <1>5, <1>6, <1>7, <1>8, <1>9, <1>12, <1>13, <1>14, <1>15
  DEF ByStarting, ByResuming, ByCoding, ByLedger

LEMMA GatedContextStep ==
  ASSUME CoreInv, AloneInv, Next
  PROVE  CodesOnGatedContext'
<1>0. TypeOK /\ Grows /\ HistoryOK /\ \A k \in Workers : WorkerOK(k)
  BY GrowsStep DEF CoreInv
<1>1. deploy' = deploy /\ (Alone' <=> Alone)
  BY <1>0 DEF Grows, Alone
<1> SUFFICES ASSUME Alone, Controlled, NEW c \in coded'
             PROVE  c.excused \/ index'[c.ctx] = c.saw
  BY <1>1 DEF CodesOnGatedContext, Controlled
<1>2. ASSUME c.ctx \in 1..Len(index), c.excused \/ index[c.ctx] = c.saw
      PROVE  c.excused \/ index'[c.ctx] = c.saw
  BY <1>0, <1>2 DEF Grows
<1>3. CASE c \in coded
  <2>1. c.ctx \in 1..MaxIndex /\ c.ctx <= Len(index) /\ Len(index) \in Nat
    BY <1>0, <1>3 DEF TypeOK, HistoryOK
  <2> QED
    BY <1>2, <1>3, <2>1 DEF AloneInv, CodesOnGatedContext, Controlled
<1>4. CASE c \notin coded
  <2>1. PICK k \in Workers : Code(k)
    BY <1>0, <1>4, StepKinds, StartingWrites, ResumingWrites, CodingWrites, PublishingWrites,
       LedgerWrites, WorldWrites DEF history
  <2>2. /\ c.ctx = job[k].ctx /\ c.saw = job[k].saw
        /\ Excused(k) => c.excused
    <3> DEFINE excused == job[k].blind \/ job[k].said = "override"
    <3>1. c = [run |-> job[k].run, plan |-> job[k].plan, ctx |-> job[k].ctx, saw |-> job[k].saw,
               healed |-> job[k].healed, excused |-> excused]
      BY <1>4, <2>1 DEF Code
    <3>2. Excused(k) <=> excused
      BY DEF Excused
    <3> HIDE DEF excused
    <3>3. c.ctx = job[k].ctx /\ c.saw = job[k].saw /\ c.excused = excused
      BY <3>1
    <3> QED
      BY <3>2, <3>3
  <2>3. In(k, "execute_coding", {"baseline", "code"}) /\ Coding(k)
    BY <1>0, <2>1 DEF WorkerOK, Placed, Code, At, In, Coding
  <2>4. /\ job[k].ctx # 0 /\ job[k].ctx <= Len(index)
        /\ Excused(k) \/ index[job[k].ctx] = job[k].saw
    BY <1>0, <2>3 DEF WorkerOK, AloneInv, FreshWorker
  <2>5. job[k].ctx \in Nat /\ Len(index) \in Nat
    BY <1>0, JobTyped DEF TypeOK
  <2> QED
    BY <1>2, <2>2, <2>4, <2>5
<1> QED
  BY <1>3, <1>4

LEMMA OneRowStep ==
  ASSUME CoreInv, OneRow, Next
  PROVE  OneRow'
<1>0. TypeOK /\ deploy' = deploy
  BY GrowsStep DEF CoreInv, Grows
<1>1. (index' = index /\ live' = live) \/ \E sha \in 0..Branch : Index(sha)
  BY <1>0, StepKinds, StartingWrites, ResumingWrites, CodingWrites, PublishingWrites, LedgerWrites,
     WorldWrites DEF tables
<1>2. CASE index' = index /\ live' = live
  BY <1>0, <1>2 DEF OneRow, Alone
<1>3. ASSUME NEW sha \in 0..Branch, Index(sha), Alone, ~deploy.outside
      PROVE  live' \subseteq {Len(index')}
  <2>1. live' = {i \in live : i > Len(index)} \cup {Len(index) + 1}
    BY <1>3 DEF Index, Replace, Latest
  <2>2. index \in Seq(0..Branch) /\ index' = Append(index, sha) /\ live \subseteq 1..Len(index)
    BY <1>0, <1>3 DEF Index, TypeOK
  <2>3. Len(index') = Len(index) + 1 /\ Len(index) \in Nat
    BY <2>2
  <2>4. \A i \in live : ~(i > Len(index))
    BY <2>2, <2>3
  <2> QED
    BY <2>1, <2>3, <2>4
<1> QED
  BY <1>0, <1>1, <1>2, <1>3 DEF OneRow, Alone

LEMMA AloneStep == ASSUME CoreInv, AloneInv, Next PROVE AloneInv'
<1>0. TypeOK /\ Grows
  BY GrowsStep DEF CoreInv
<1>1. deploy' = deploy /\ (Alone' <=> Alone) /\ (Controlled' <=> Controlled)
  BY <1>0 DEF Grows, Alone, Controlled
<1>2. ASSUME Alone PROVE OnePlan'
  BY <1>2, OnePlanStep DEF AloneInv
<1>4. OneRow'
  BY OneRowStep DEF AloneInv
<1>3. ASSUME Alone, NEW j \in Workers
      PROVE  ResumesOnce(j)' /\ (Controlled => FreshWorker(j)')
  <2>0. OnePlan /\ ResumesOnce(j) /\ (Controlled => FreshWorker(j))
    BY <1>3 DEF AloneInv
  <2>1. CASE Push
    <3>1. index' = index /\ head' = head /\ plans' = plans /\ gate' = gate /\ pc' = pc /\ job' = job
      BY <2>1 DEF Push, tables
    <3>2. ResumesOnce(j)'
      BY <2>0, <3>1 DEF ResumesOnce, Planning, In
    <3>3. Controlled => FreshWorker(j)'
      BY <2>0, <3>1 DEF FreshWorker, Excused, ReadyToCode, In
    <3> QED
      BY <3>2, <3>3
  <2>2. CASE OtherIndex
    <3>1. plans' = plans /\ gate' = gate /\ pc' = pc /\ job' = job /\ ~Controlled
      BY <2>2 DEF OtherIndex, tables, Controlled
    <3>2. ResumesOnce(j)'
      BY <2>0, <3>1 DEF ResumesOnce, Planning, In
    <3> QED
      BY <3>1, <3>2
  <2>3. ASSUME NEW k \in Workers,
               ByStarting(k) \/ ByResuming(k) \/ ByCoding(k) \/ ByPublishing(k) \/ ByLedger(k),
               \A i \in Workers : i # k => pc'[i] = pc[i] /\ job'[i] = job[i]
        PROVE  ResumesOnce(j)' /\ (Controlled => FreshWorker(j)')
    <3>1. CASE j = k
      <4>1. Controlled => live \subseteq {Len(index)}
        BY <1>3 DEF AloneInv, OneRow, Controlled
      <4> QED
        BY <2>0, <2>3, <3>1, <4>1, ResumesOnceStep, FreshStep
    <3>2. CASE j # k
      <4>1. pc'[j] = "idle"
        BY <1>3, <2>3, <3>2, OfCrew, OthersIdle
      <4> QED
        BY <4>1 DEF ResumesOnce, FreshWorker, Planning, ReadyToCode, In
    <3> QED
      BY <3>1, <3>2
  <2> QED
    BY <1>0, <2>1, <2>2, <2>3, OneMoves
<1> QED
  BY <1>1, <1>2, <1>3, <1>4, GatedContextStep DEF AloneInv

-----------------------------------------------------------------------------
(* The budget *)

\* A worker that has an answer to save just got it, or does not move.
LEMMA Asks ==
  ASSUME TypeOK, Next, NEW j \in Workers, pc'[j] = "save_impact"
  PROVE  AskLlm(j) \/ (pc'[j] = pc[j] /\ job'[j] = job[j])
<1>1. ASSUME NEW place, place # "save_impact", NEW now, Goto(j, place, now) PROVE FALSE
  BY <1>1, Moves
<1>2. CASE ByStarting(j) /\ ~AskLlm(j)
  <2>1. \E place : place # "save_impact" /\ \E now : Goto(j, place, now)
    BY <1>2 DEF ByStarting, Receive, ReadContext, ContextMissing, AssessWithoutContext, CheckContext,
       SaveImpact, Enter, End
  <2> QED
    BY <1>1, <2>1
<1>3. CASE ByResuming(j) \/ ByCoding(j) \/ ByPublishing(j)
  <2>1. \E place : place # "save_impact" /\ \E now : Goto(j, place, now)
    BY <1>3 DEF ByResuming, Decide, Resume, ResumeGate, GeneratePlan, ByCoding, ReadLatest, CodingGate,
       Baseline, Code, ByPublishing, RunTests, Report, Publish, Enter, End
  <2> QED
    BY <1>1, <2>1
<1>4. CASE BeginStep(j)
  BY <1>4, BeginLeads
<1>5. CASE CompleteStep(j) \/ StepFails(j) \/ WorkerDies(j)
  <2>1. \E place : place # "save_impact" /\ \E now : Goto(j, place, now)
    BY <1>5 DEF CompleteStep, StepFails, WorkerDies, Enter, End
  <2> QED
    BY <1>1, <2>1
<1> QED
  BY <1>2, <1>3, <1>4, <1>5, OneMoves, WorldWrites DEF ByLedger

\* What asking the model leads to.
LEMMA AskLeads ==
  ASSUME TypeOK, NEW k \in Workers, AskLlm(k)
  PROVE  \/ End(k)
         \/ \E outcome : /\ outcome = "answer" => ~OverBudget
                         /\ calls' = [calls EXCEPT ![job[k].run] = IF outcome = "none" THEN "none"
                                                                   ELSE "billed"]
                         /\ pc'[k] = "save_impact" /\ job'[k].run = job[k].run
                         /\ outcome \in {"none", "answer"}
                         /\ job'[k].charged <=> outcome = "answer"
<1>1. PICK results :
        LET outcome == Complete(results) IN
        /\ calls' = [calls EXCEPT ![job[k].run] = IF outcome = "none" THEN "none" ELSE "billed"]
        /\ \/ End(k)
           \/ /\ ~(outcome = "raised" \/ (outcome = "answer" /\ OverBudget))
              /\ Goto(k, "save_impact", [job[k] EXCEPT !.charged = (outcome = "answer")])
  BY DEF AskLlm
<1>2. Complete(results) \in {"none", "raised", "answer"}
  BY DEF Complete
<1> DEFINE outcome == Complete(results)
           charged == outcome = "answer"
<1>3. CASE End(k)
  BY <1>3
<1>4. CASE ~End(k)
  <2>1. /\ calls' = [calls EXCEPT ![job[k].run] = IF outcome = "none" THEN "none" ELSE "billed"]
        /\ outcome \in {"none", "answer"} /\ (charged => ~OverBudget)
        /\ pc'[k] = "save_impact" /\ job'[k] = [job[k] EXCEPT !.charged = charged]
    BY <1>1, <1>2, <1>4, Moves
  <2>2. job[k] \in Job /\ charged \in BOOLEAN
    BY JobTyped
  <2>3. charged <=> outcome = "answer"
    OBVIOUS
  <2> HIDE DEF charged, outcome
  <2>4. job'[k].charged = charged /\ job'[k].run = job[k].run
    BY <2>1, <2>2 DEF Job
  <2> QED
    BY <2>1, <2>2, <2>3, <2>4
<1> QED
  BY <1>3, <1>4

\* Over budget no call is made that would be charged.
LEMMA NoNewCalls ==
  ASSUME TypeOK, Next
  PROVE  InFlight' \subseteq InFlight \/ ~OverBudget
<1>1. SUFFICES ASSUME OverBudget, NEW j \in InFlight' PROVE j \in InFlight
  OBVIOUS
<1>2. deploy' = deploy
  BY StepKinds, StartingWrites, ResumingWrites, CodingWrites, PublishingWrites, LedgerWrites,
     WorldWrites
<1>3. /\ j \in Workers /\ j \in deploy.workers
      /\ pc'[j] = "save_impact" /\ job'[j].charged
  BY <1>1, <1>2, DeployTyped DEF InFlight
<1>4. ~AskLlm(j)
  <2>1. End(j) => pc'[j] = "idle"
    BY <1>3, Moves DEF End
  <2> QED
    BY <1>1, <1>3, <2>1, AskLeads
<1> QED
  BY <1>3, <1>4, Asks DEF InFlight

\* Only these steps say what became of a call.
LEMMA CallsWrites ==
  ASSUME TypeOK, Next
  PROVE  calls' = calls \/ \E k \in Workers : AskLlm(k) \/ SaveImpact(k)
<1>1. ASSUME NEW k \in Workers,
             ByStarting(k) \/ ByResuming(k) \/ ByCoding(k) \/ ByPublishing(k) \/ ByLedger(k),
             ~AskLlm(k), ~SaveImpact(k)
      PROVE  calls' = calls
  <2>1. CASE ByStarting(k)
    BY <1>1, <2>1 DEF ByStarting, Receive, ReadContext, ContextMissing, AssessWithoutContext,
       CheckContext, history
  <2>2. CASE ByResuming(k)
    BY <2>2 DEF ByResuming, Decide, Resume, ResumeGate, GeneratePlan, history
  <2>3. CASE ByCoding(k) \/ ByPublishing(k)
    BY <2>3 DEF ByCoding, ReadLatest, CodingGate, Baseline, Code, ByPublishing, RunTests, Report,
       Publish, history
  <2>4. CASE ByLedger(k)
    BY <2>4 DEF ByLedger, BeginStep, CompleteStep, StepFails, WorkerDies, history
  <2> QED
    BY <1>1, <2>1, <2>2, <2>3, <2>4
<1>2. CASE Push \/ OtherIndex
  BY <1>2, WorldWrites DEF history
<1> QED
  BY <1>1, <1>2, StepKinds

\* An impact review is opened by SaveImpact alone.
LEMMA ImpactOpens ==
  ASSUME CoreInv, Next, NEW r \in Runs, gate[r]["impact"] = <<>>, gate'[r]["impact"] # <<>>
  PROVE  \E k \in Workers : SaveImpact(k) /\ job[k].run = r
<1>0. TypeOK /\ \A k \in Workers : WorkerOK(k)
  BY DEF CoreInv
<1>a. "impact" \in Stages /\ "plan" \in Stages /\ "publish" \in Stages
  BY DEF Stages
<1>1. ASSUME NEW k \in Workers, Resume(k) PROVE FALSE
  <2>1. \/ gate'[r]["impact"] = gate[r]["impact"]
        \/ r = job[k].run /\ job[k].stage = "impact" /\ job[k].copy \in DOMAIN gate[r]["impact"]
    BY <1>0, <1>1, <1>a, DecidesGate
  <2> QED
    BY <2>1
<1>2. ASSUME NEW k \in Workers, GeneratePlan(k) PROVE FALSE
  <2>1. /\ job[k].run \in Runs
        /\ OpenGate(job[k].run, "plan", [snap |-> job[k].ctx, amended |-> job[k].said = "amend"])
    BY <1>0, <1>2, PlanAdded
  <2> QED
    BY <1>0, <1>a, <2>1, OpensGate
<1>3. ASSUME NEW k \in Workers, Report(k) PROVE FALSE
  <2>1. job[k].run \in Runs /\ OpenGate(job[k].run, "publish", job[k].plan)
    BY <1>0, <1>3, AtRun DEF Report, At
  <2> QED
    BY <1>0, <1>a, <2>1, OpensGate
<1>4. ASSUME NEW k \in Workers, SaveImpact(k), job[k].run # r PROVE FALSE
  <2>1. /\ job[k].run \in Runs
        /\ OpenGate(job[k].run, "impact", [snap |-> job[k].ctx, amended |-> FALSE])
    BY <1>0, <1>4, AtRun DEF SaveImpact, At
  <2> QED
    BY <1>0, <1>4, <1>a, <2>1, OpensGate
<1> QED
  BY <1>0, <1>1, <1>2, <1>3, <1>4, StepKinds, StartingWrites, ResumingWrites, CodingWrites,
     PublishingWrites, LedgerWrites, WorldWrites DEF tables

\* An answer is billed while its run has no impact review, and charged when it
\* gets one: no other worker assesses the run.
LEMMA BilledStep ==
  ASSUME CoreInv, BilledOK, Next
  PROVE  BilledOK'
<1>0. TypeOK /\ TypeOK' /\ OneStarts /\ \A k \in Workers : WorkerOK(k)
  BY TypeStep DEF CoreInv
<1>1. ASSUME NEW k \in Workers, pc[k] \in {"ask_llm", "save_impact"}
      PROVE  job[k].run \in Runs /\ Starting(k) /\ gate[job[k].run]["impact"] = <<>>
  BY <1>0, <1>1, AtRun DEF WorkerOK, Placed, Starting, Opening, In
<1>2. ASSUME NEW k \in Workers, SaveImpact(k)
      PROVE  /\ calls'[job[k].run] # "billed" /\ pc[k] = "save_impact" /\ pc'[k] = "complete"
             /\ \A r \in Runs : r # job[k].run => calls'[r] = calls[r]
  <2>1. pc[k] = "save_impact" /\ pc'[k] = "complete" /\ job[k].charged \in BOOLEAN
    BY <1>0, <1>2, Moves, JobTyped DEF SaveImpact, At
  <2>2. job[k].charged <=> calls[job[k].run] = "billed"
    BY <2>1 DEF BilledOK
  <2>3. job[k].run \in Runs /\ calls \in [Runs -> {"none", "billed", "charged", "late"}]
    BY <1>0, <1>1, <2>1 DEF TypeOK
  <2>4. CASE ~job[k].charged
    BY <1>2, <2>1, <2>2, <2>4 DEF SaveImpact
  <2>5. CASE job[k].charged
    <3>1. PICK c \in {"late", "charged"} : calls' = [calls EXCEPT ![job[k].run] = c]
      BY <1>2, <2>5 DEF SaveImpact
    <3> QED
      BY <2>1, <2>3, <3>1
  <2> QED
    BY <2>1, <2>4, <2>5
<1>3. ASSUME NEW k \in Workers, AskLlm(k)
      PROVE  pc[k] = "ask_llm" /\ \A r \in Runs : r # job[k].run => calls'[r] = calls[r]
  <2>1. \E c : calls' = [calls EXCEPT ![job[k].run] = c]
    BY <1>3 DEF AskLlm
  <2> QED
    BY <1>0, <1>3, <2>1 DEF AskLlm, At, TypeOK
<1>4. ASSUME NEW r \in Runs, calls'[r] = "billed" PROVE gate'[r]["impact"] = <<>>
  <2>1. gate[r]["impact"] = <<>>
    <3>1. CASE calls[r] = "billed"
      BY <3>1 DEF BilledOK
    <3>2. CASE calls[r] # "billed"
      <4>1. PICK k \in Workers : (AskLlm(k) \/ SaveImpact(k)) /\ job[k].run = r
        BY <1>0, <1>2, <1>3, <1>4, <3>2, CallsWrites
      <4> QED
        BY <1>1, <1>2, <1>3, <4>1
    <3> QED
      BY <3>1, <3>2
  <2> QED
    BY <1>2, <1>4, <2>1, ImpactOpens
<1>5. ASSUME NEW j \in Workers, pc'[j] = "save_impact"
      PROVE  job'[j].charged <=> calls'[job'[j].run] = "billed"
  <2>1. CASE AskLlm(j)
    <3>1. End(j) => pc'[j] = "idle"
      BY <1>0, Moves DEF End
    <3>2. PICK outcome \in {"none", "answer"} :
            /\ calls' = [calls EXCEPT ![job[j].run] = IF outcome = "none" THEN "none" ELSE "billed"]
            /\ job'[j].run = job[j].run
            /\ job'[j].charged <=> outcome = "answer"
      BY <1>0, <1>5, <2>1, <3>1, AskLeads
    <3>3. job[j].run \in Runs
      BY <1>1, <1>3, <2>1
    <3> QED
      BY <1>0, <3>2, <3>3 DEF TypeOK
  <2>2. CASE pc'[j] = pc[j] /\ job'[j] = job[j]
    <3>1. calls'[job[j].run] = calls[job[j].run]
      <4>1. ASSUME NEW k \in Workers, AskLlm(k) \/ SaveImpact(k), job[k].run = job[j].run
            PROVE  FALSE
        <5>1. k = j
          BY <1>0, <1>1, <1>2, <1>3, <1>5, <2>2, <4>1 DEF OneStarts
        <5> QED
          BY <1>2, <1>3, <1>5, <2>2, <4>1, <5>1
      <4>2. job[j].run \in Runs
        BY <1>1, <1>5, <2>2
      <4> QED
        BY <1>0, <1>2, <1>3, <4>1, <4>2, CallsWrites
    <3> QED
      BY <1>5, <2>2, <3>1 DEF BilledOK
  <2> QED
    BY <1>0, <1>5, <2>1, <2>2, Asks
<1> QED
  BY <1>4, <1>5 DEF BilledOK

\* What is spent, and what that says of the calls charged late.
LEMMA Spends ==
  ASSUME TypeOK, Next
  PROVE  \/ spent' = spent /\ Late' \subseteq Late
         \/ \E k \in deploy.workers :
              /\ spent' \in Nat /\ spent <= spent' /\ k \notin InFlight'
              /\ \/ Late' \subseteq Late
                 \/ spent > Budget /\ k \in InFlight /\ \E r \in Runs : Late' \subseteq Late \cup {r}
<1>1. ASSUME NEW k \in Workers, SaveImpact(k)
      PROVE  /\ k \in deploy.workers /\ spent' \in Nat /\ spent <= spent' /\ k \notin InFlight'
             /\ \/ Late' \subseteq Late
                \/ spent > Budget /\ k \in InFlight /\ \E r \in Runs : Late' \subseteq Late \cup {r}
  <2>1. spent' \in Nat /\ spent <= spent'
    BY <1>1 DEF SaveImpact, TypeOK
  <2>2. k \in deploy.workers /\ pc[k] = "save_impact" /\ pc'[k] = "complete"
    BY <1>1, Moves DEF SaveImpact, At
  <2>3. CASE job[k].charged /\ spent > Budget
    <3>1. calls' = [calls EXCEPT ![job[k].run] = "late"]
      BY <1>1, <2>3 DEF SaveImpact
    <3>2. \A r \in Late' : r \in Late \cup {job[k].run}
      BY <3>1 DEF TypeOK, Late
    <3>3. Late' \subseteq Late \/ job[k].run \in Runs
      BY <3>2 DEF Late
    <3> QED
      BY <2>1, <2>2, <2>3, <3>2, <3>3 DEF InFlight
  <2>4. CASE ~(job[k].charged /\ spent > Budget)
    <3>1. calls' = calls \/ calls' = [calls EXCEPT ![job[k].run] = "charged"]
      BY <1>1, <2>4 DEF SaveImpact
    <3>2. Late' \subseteq Late
      BY <3>1 DEF TypeOK, Late
    <3> QED
      BY <2>1, <2>2, <3>2 DEF InFlight
  <2> QED
    BY <2>3, <2>4
<1>2. ASSUME NEW k \in Workers, GeneratePlan(k) \/ RunTests(k)
      PROVE  /\ k \in deploy.workers /\ spent' \in Nat /\ spent <= spent' /\ k \notin InFlight'
             /\ Late' \subseteq Late
  <2>1. pc'[k] # "save_impact" /\ calls' = calls
    BY <1>2, Moves DEF GeneratePlan, RunTests, history
  <2> QED
    BY <1>2, <2>1 DEF GeneratePlan, RunTests, At, TypeOK, InFlight, Late
<1>3. ASSUME NEW k \in Workers, AskLlm(k) PROVE spent' = spent /\ Late' \subseteq Late
  <2>1. PICK c \in {"none", "billed"} : calls' = [calls EXCEPT ![job[k].run] = c]
    BY <1>3 DEF AskLlm
  <2> QED
    BY <1>3, <2>1 DEF AskLlm, TypeOK, Late
<1>4. ASSUME NEW k \in Workers,
             ByStarting(k) \/ ByResuming(k) \/ ByCoding(k) \/ ByPublishing(k) \/ ByLedger(k),
             ~SaveImpact(k), ~GeneratePlan(k), ~RunTests(k), ~AskLlm(k)
      PROVE  spent' = spent /\ calls' = calls
  <2>1. CASE ByStarting(k)
    BY <1>4, <2>1 DEF ByStarting, Receive, ReadContext, ContextMissing, AssessWithoutContext,
       CheckContext, tables, history
  <2>2. CASE ByResuming(k)
    BY <1>4, <2>2 DEF ByResuming, Decide, Resume, ResumeGate, tables, history
  <2>3. CASE ByCoding(k) \/ ByPublishing(k)
    BY <1>4, <2>3 DEF ByCoding, ReadLatest, CodingGate, Baseline, Code, ByPublishing, Report, Publish,
       tables, history
  <2>4. CASE ByLedger(k)
    BY <2>4 DEF ByLedger, BeginStep, CompleteStep, StepFails, WorkerDies, tables, history
  <2> QED
    BY <1>4, <2>1, <2>2, <2>3, <2>4
<1>5. CASE Push \/ OtherIndex
  BY <1>5, WorldWrites DEF tables, history, Late
<1> QED
  BY <1>1, <1>2, <1>3, <1>4, <1>5, StepKinds DEF Late

\* A call charged late leaves those in flight; over budget none joins them.
LEMMA BudgetStep ==
  ASSUME TypeOK, TypeOK', BudgetInv, Next, deploy' = deploy
  PROVE  BudgetInv'
<1> DEFINE crew == deploy.workers
<1>1. IsFiniteSet(crew) /\ Cardinality(crew) \in Nat /\ Cardinality(crew) > 0
  BY CrewFinite, DeployTyped, FS_EmptySet, FS_CardinalityType
<1>2. InFlight \subseteq deploy.workers /\ InFlight' \subseteq deploy.workers
  BY DEF InFlight
<1>3. /\ IsFiniteSet(InFlight) /\ IsFiniteSet(InFlight')
      /\ Cardinality(InFlight) \in Nat /\ Cardinality(InFlight') \in Nat
      /\ Cardinality(InFlight') <= Cardinality(deploy.workers)
  BY <1>1, <1>2, FS_Subset, FS_CardinalityType
<1>4. spent \in Nat /\ spent' \in Nat
  BY DEF TypeOK
<1>5. IsFiniteSet(Late) /\ Cardinality(Late) \in Nat
  BY FS_CardinalityType DEF BudgetInv
<1>6. ASSUME Late' \subseteq Late
      PROVE  IsFiniteSet(Late') /\ Cardinality(Late') \in Nat /\ Cardinality(Late') <= Cardinality(Late)
  BY <1>5, <1>6, FS_Subset, FS_CardinalityType
<1>7. ASSUME NEW r \in Runs, Late' \subseteq Late \cup {r}
      PROVE  /\ IsFiniteSet(Late') /\ Cardinality(Late') \in Nat
             /\ Cardinality(Late') <= Cardinality(Late) + 1
  <2>1. /\ IsFiniteSet(Late \cup {r}) /\ Cardinality(Late \cup {r}) \in Nat
        /\ Cardinality(Late \cup {r}) <= Cardinality(Late) + 1
    <3>1. /\ IsFiniteSet(Late \cup {r})
          /\ \/ Cardinality(Late \cup {r}) = Cardinality(Late)
             \/ Cardinality(Late \cup {r}) = Cardinality(Late) + 1
      BY <1>5, FS_AddElement
    <3> QED
      BY <1>5, <3>1
  <2>2. /\ IsFiniteSet(Late') /\ Cardinality(Late') \in Nat
        /\ Cardinality(Late') <= Cardinality(Late \cup {r})
    BY <1>7, <2>1, FS_Subset, FS_CardinalityType
  <2> QED
    BY <1>5, <2>1, <2>2
<1> HIDE DEF crew
<1>8. CASE spent > Budget
  <2>1. InFlight' \subseteq InFlight
    BY <1>8, NoNewCalls DEF OverBudget
  <2>2. Cardinality(InFlight') <= Cardinality(InFlight)
    BY <1>3, <2>1, FS_Subset
  <2>3. ASSUME NEW k \in InFlight, k \notin InFlight'
        PROVE  Cardinality(InFlight') + 1 <= Cardinality(InFlight)
    <3>1. InFlight' \subseteq InFlight \ {k}
      BY <2>1, <2>3
    <3>2. IsFiniteSet(InFlight \ {k}) /\ Cardinality(InFlight \ {k}) = Cardinality(InFlight) - 1
      BY <1>3, <2>3, FS_RemoveElement
    <3>3. Cardinality(InFlight') <= Cardinality(InFlight \ {k})
      BY <3>1, <3>2, FS_Subset
    <3> QED
      BY <1>3, <3>2, <3>3
  <2>4. Cardinality(Late) + Cardinality(InFlight) < Cardinality(crew)
    BY <1>8 DEF BudgetInv, crew
  <2>5. /\ spent' >= spent /\ IsFiniteSet(Late') /\ Cardinality(Late') \in Nat
        /\ Cardinality(Late') + Cardinality(InFlight') <= Cardinality(Late) + Cardinality(InFlight)
    <3>1. CASE Late' \subseteq Late /\ spent' >= spent
      BY <1>3, <1>5, <1>6, <2>2, <3>1
    <3>2. CASE /\ spent' >= spent /\ \E k \in InFlight : k \notin InFlight'
               /\ \E r \in Runs : Late' \subseteq Late \cup {r}
      <4>1. Cardinality(InFlight') + 1 <= Cardinality(InFlight)
        BY <2>3, <3>2
      <4>2. /\ IsFiniteSet(Late') /\ Cardinality(Late') \in Nat
            /\ Cardinality(Late') <= Cardinality(Late) + 1
        BY <1>7, <3>2
      <4> QED
        BY <1>3, <1>5, <3>2, <4>1, <4>2
    <3> QED
      BY <1>4, <3>1, <3>2, Spends
  <2> QED
    BY <1>1, <1>3, <1>4, <1>5, <1>8, <2>4, <2>5 DEF BudgetInv, crew
<1>9. CASE spent <= Budget
  <2>1. Late' = {} /\ IsFiniteSet(Late') /\ Cardinality(Late') = 0
    <3>1. Late = {} /\ Late' \subseteq Late
      BY <1>4, <1>9, Spends DEF BudgetInv
    <3> QED
      BY <3>1, FS_EmptySet
  <2>2. ASSUME spent' > Budget PROVE Cardinality(InFlight') < Cardinality(crew)
    <3>1. PICK k \in crew : k \notin InFlight'
      BY <1>4, <1>9, <2>2, Spends DEF crew
    <3>2. InFlight' \subseteq crew \ {k}
      BY <1>2, <3>1 DEF crew
    <3>3. IsFiniteSet(crew \ {k}) /\ Cardinality(crew \ {k}) = Cardinality(crew) - 1
      BY <1>1, <3>1, FS_RemoveElement
    <3>4. Cardinality(InFlight') <= Cardinality(crew \ {k})
      BY <3>2, <3>3, FS_Subset
    <3> QED
      BY <1>1, <1>3, <3>3, <3>4
  <2> QED
    BY <1>1, <1>3, <1>4, <2>1, <2>2 DEF BudgetInv, crew
<1> QED
  BY <1>4, <1>8, <1>9

-----------------------------------------------------------------------------
(* The theorems *)

LEMMA InitInvariant == ASSUME Init PROVE IInv
<1>1. \A k \in Workers : pc[k] = "idle" /\ job[k].step = "load_context"
  BY DEF Init, NoJob
<1>2. \A k \in Workers : ResumesOnce(k) /\ FreshWorker(k)
  BY <1>1 DEF ResumesOnce, FreshWorker, Planning, ReadyToCode, In
<1>3. OnePlan
  BY DEF Init, OnePlan, Stages
<1>4. CodesOnGatedContext
  BY DEF Init, CodesOnGatedContext
<1>5. BudgetInv
  <2>1. spent <= Budget /\ spent = 0 /\ Late = {}
    BY DEF Init, Late
  <2> QED
    BY <2>1, FS_EmptySet DEF BudgetInv
<1>6. BilledOK
  BY <1>1 DEF Init, BilledOK
<1>7. OneRow
  <2>1. CASE index = <<>>
    BY <2>1 DEF Init, OneRow
  <2>2. CASE index = <<0>>
    BY <2>2 DEF Init, OneRow
  <2> QED
    BY <2>1, <2>2 DEF Init
<1> QED
  BY <1>2, <1>3, <1>4, <1>5, <1>6, <1>7, CoreInit DEF IInv, AloneInv

\* No part of the invariant reads anything but the state.
LEMMA Stutters == ASSUME IInv, UNCHANGED vars PROVE IInv'
<1> USE DEF vars, repository, tables, history
<1>0. IInv
  OBVIOUS
<1>1. TypeOK'
  BY DEF IInv, CoreInv, TypeOK
<1>2. LedgerOK'
  BY DEF IInv, CoreInv, LedgerOK, Done, Result
<1>3. GatesOK'
  BY DEF IInv, CoreInv, GatesOK, ApprovedCopy, CodedPlan
<1>4. HistoryOK'
  BY DEF IInv, CoreInv, HistoryOK, ApprovedCopy, CodedPlan
<1>5. OneStarts'
  BY DEF IInv, CoreInv, OneStarts, Starting, In
<1>6. ASSUME NEW k \in Workers PROVE WorkerOK(k)'
  <2>1. WorkerOK(k)
    BY DEF IInv, CoreInv
  <2> QED
    BY <2>1, ZenonT(40) DEF WorkerOK, Result, Placed, Starting, Opening, Loaded, Planning, ReadyToCode, Coding,
       Testing, Publishing, In, ApprovedCopy, CodedPlan
<1>7. CodesOnGatedContext'
  BY DEF IInv, AloneInv, CodesOnGatedContext, Alone
<1>8. OnePlan => OnePlan'
  BY DEF OnePlan, ApprovedCopy
<1>9. \A k \in Workers : (ResumesOnce(k) => ResumesOnce(k)') /\ (FreshWorker(k) => FreshWorker(k)')
  BY DEF ResumesOnce, FreshWorker, Excused, Planning, ReadyToCode, In
<1>10. (Alone' <=> Alone) /\ (Controlled' <=> Controlled)
  BY DEF Alone, Controlled
<1>11. AloneInv'
  <2>1. OneRow'
    BY DEF IInv, AloneInv, OneRow, Alone
  <2> QED
    BY <1>7, <1>8, <1>9, <1>10, <2>1 DEF IInv, AloneInv
<1>12. BudgetInv' /\ BilledOK'
  BY DEF IInv, BudgetInv, InFlight, Late, BilledOK
<1> QED
  BY <1>1, <1>2, <1>3, <1>4, <1>5, <1>6, <1>11, <1>12 DEF IInv, CoreInv

\* The inductive invariant holds in every reachable state of the runs.
THEOREM Invariant == Spec => []IInv
<1>1. Init => IInv
  BY InitInvariant
<1>2. ASSUME IInv, Next PROVE IInv'
  <2>1. CoreInv /\ AloneInv /\ BudgetInv /\ BilledOK /\ CoreInv'
    BY <1>2, CoreStep DEF IInv
  <2>2. TypeOK /\ TypeOK' /\ deploy' = deploy
    BY <1>2, <2>1, GrowsStep DEF CoreInv, Grows
  <2> QED
    BY <1>2, <2>1, <2>2, AloneStep, BudgetStep, BilledStep DEF IInv
<1>3. IInv /\ [Next]_vars => IInv'
  BY <1>2, Stutters
<1> QED
  BY <1>1, <1>3, PTL DEF Spec

\* Rows, workers and histories keep the types the code gives them (db.AgentRun,
\* PendingApproval, RunArtifact, RunStep and the pipeline's state dict).
THEOREM TypeCorrect == Spec => []TypeOK
<1>1. IInv => TypeOK
  BY DEF IInv, CoreInv
<1> QED
  BY <1>1, Invariant, PTL

\* What coder_pipeline hands to a coding agent was approved, and planned for
\* what was approved before, however many workers take up one resume.
THEOREM OnlyApprovedIsCoded == Spec => []CodesWhatWasApproved
<1>1. ASSUME IInv PROVE CodesWhatWasApproved
  <2> SUFFICES ASSUME NEW c \in coded
               PROVE  /\ \E g \in Approved(c.run, "plan") : g.payload = c.plan
                      /\ \E g \in Approved(c.run, "impact") : g.payload.snap = c.plan.snap
    BY DEF CodesWhatWasApproved
  <2>1. TypeOK /\ GatesOK /\ HistoryOK /\ c.run \in Runs
    BY <1>1 DEF IInv, CoreInv, TypeOK
  <2>2. PICK n \in DOMAIN gate[c.run]["plan"] :
          ApprovedCopy(c.run, "plan", n) /\ gate[c.run]["plan"][n].payload = c.plan
    BY <2>1 DEF HistoryOK
  <2>3. /\ gate[c.run]["plan"][n].payload.snap = runCtx[c.run]
        /\ ApprovedCopy(c.run, "impact", 1)
    BY <2>1, <2>2 DEF GatesOK
  <2>4. gate[c.run]["impact"][1].payload.snap = runCtx[c.run]
    BY <2>1, <2>3 DEF GatesOK, ApprovedCopy
  <2> QED
    BY <2>2, <2>3, <2>4 DEF Approved, ApprovedCopy
<1> QED
  BY <1>1, Invariant, PTL

\* The snapshot in the run's row (agent_runs.context_snapshot_id) is the one
\* its reviews and its coding are about, however often it is indexed meanwhile.
THEOREM ContextIsKept == Spec => []OneContextPerRun
<1>1. ASSUME IInv PROVE OneContextPerRun
  <2>1. GatesOK /\ HistoryOK
    BY <1>1 DEF IInv, CoreInv
  <2>2. ASSUME NEW r \in Runs, NEW n \in DOMAIN gate[r]["plan"]
        PROVE  gate[r]["plan"][n].payload.snap = gate[r]["impact"][1].payload.snap
    BY <2>1 DEF GatesOK, ApprovedCopy
  <2>3. \A c \in coded : c.healed \/ c.ctx = c.plan.snap
    BY <2>1 DEF HistoryOK
  <2> QED
    BY <2>2, <2>3 DEF OneContextPerRun
<1> QED
  BY <1>1, Invariant, PTL

\* A step that complete_step marks has its result, wherever workers die.
THEOREM LedgerIsTrue == Spec => []LedgerTellsTruth
<1>1. ASSUME IInv PROVE LedgerTellsTruth
  <2>1. ASSUME NEW r \in Runs, NEW step \in Steps,
               \E n \in DOMAIN ledger[r][step] : ledger[r][step][n] = "completed"
        PROVE  Result(r, step)
    BY <1>1, <2>1 DEF IInv, CoreInv, LedgerOK, Done
  <2> QED
    BY <2>1 DEF LedgerTellsTruth, Result, Steps
<1> QED
  BY <1>1, Invariant, PTL

\* The commit the gates of a lone worker saw is the one the agent's context is
\* of, or the approval said "override", or HEAD could not be read.
THEOREM GatedContextIsCoded == Spec => []CodesOnGatedContext
<1>1. IInv => CodesOnGatedContext
  BY DEF IInv, AloneInv
<1> QED
  BY <1>1, Invariant, PTL

\* The newest plan artifact that open_pull_request reads is, with one worker,
\* the plan of the report the publication review showed.
THEOREM PublishedIsCoded == Spec => []PublishesWhatWasCoded
<1>1. ASSUME IInv PROVE PublishesWhatWasCoded
  <2> SUFFICES ASSUME Alone, NEW p \in published
               PROVE  p.plan = p.report /\ \E c \in coded : c.run = p.run /\ c.plan = p.plan
    BY DEF PublishesWhatWasCoded
  <2>1. TypeOK /\ HistoryOK /\ OnePlan /\ p.run \in Runs
    BY <1>1 DEF IInv, CoreInv, AloneInv, TypeOK
  <2>2. PICK c \in coded : c.run = p.run /\ c.plan = p.report
    BY <2>1 DEF HistoryOK, CodedPlan
  <2>3. c.plan = plans[p.run][1]
    <3>1. \E n \in DOMAIN gate[p.run]["plan"] : gate[p.run]["plan"][n].payload = c.plan
      BY <2>1, <2>2 DEF HistoryOK
    <3> QED
      BY <2>1, <3>1 DEF OnePlan
  <2>4. PICK n \in DOMAIN plans[p.run] : plans[p.run][n] = p.plan
    BY <2>1 DEF HistoryOK
  <2>5. n = 1
    <3>1. plans[p.run] \in Seq(Plan) /\ Len(plans[p.run]) <= 1
      BY <2>1 DEF TypeOK, OnePlan
    <3> QED
      BY <2>4, <3>1
  <2> QED
    BY <2>2, <2>3, <2>4, <2>5
<1> QED
  BY <1>1, Invariant, PTL

\* LLMRouter.complete bills before it looks at the budget: an answer over it
\* raises, and an answer that is not charged leaves no impact review; over budget
\* only what other workers had been given is still charged.
THEOREM OverBudgetIsUnused == Spec => []OverBudgetUnused
<1>1. ASSUME IInv PROVE OverBudgetUnused
  <2>1. TypeOK /\ BudgetInv /\ BilledOK
    BY <1>1 DEF IInv, CoreInv
  <2>2. /\ IsFiniteSet(InFlight) /\ Cardinality(InFlight) \in Nat
        /\ Cardinality(deploy.workers) \in Nat /\ Cardinality(deploy.workers) > 0
    <3>1. IsFiniteSet(deploy.workers) /\ InFlight \subseteq deploy.workers /\ deploy.workers # {}
      BY <2>1, CrewFinite, DeployTyped DEF InFlight
    <3> QED
      BY <3>1, FS_Subset, FS_CardinalityType, FS_EmptySet
  <2>3. Cardinality(Late) \in Nat /\ spent \in Nat /\ (Late = {} => Cardinality(Late) = 0)
    BY <2>1, FS_CardinalityType, FS_EmptySet DEF TypeOK, BudgetInv
  <2>4. Cardinality(Late) < Cardinality(deploy.workers)
    BY <2>1, <2>2, <2>3 DEF BudgetInv
  <2> QED
    BY <2>1, <2>4 DEF OverBudgetUnused, BilledOK, Late
<1> QED
  BY <1>1, Invariant, PTL

=============================================================================
