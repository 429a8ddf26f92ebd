----------------------------- MODULE ReviewGate -----------------------------
(***************************************************************************)
(* What the coding pipeline promises its reviewers, with no queue, worker, *)
(* database or crash in sight: a run asks for three reviews in order, and  *)
(* the work behind a review is done only once the review has been granted. *)
(* CoderRun.tla shows that the program implements it.                      *)
(***************************************************************************)
EXTENDS Naturals

CONSTANT Runs     \* the agent runs

Stages == {"impact", "plan", "publish"}

VARIABLES
  asked,      \* the reviews a run has asked for, pairs <<run, stage>>
  granted,    \* the reviews a human has granted at some time
  coded,      \* the runs whose plan a coding agent has worked on
  tested,     \* the runs whose verification step has passed
  published   \* the runs whose branch or pull request went out

gateVars == <<asked, granted, coded, tested, published>>

\* What must have happened before a run asks for the review of a stage.
MayAsk(r, s) ==
  \/ s = "impact"
  \/ s = "plan" /\ <<r, "impact">> \in granted
  \/ s = "publish" /\ <<r, "plan">> \in granted /\ r \in tested

Init ==
  /\ asked = {}
  /\ granted = {}
  /\ coded = {}
  /\ tested = {}
  /\ published = {}

Ask(r, s) ==
  /\ MayAsk(r, s)
  /\ asked' = asked \cup {<<r, s>>}
  /\ UNCHANGED <<granted, coded, tested, published>>

Grant(r, s) ==
  /\ <<r, s>> \in asked
  /\ granted' = granted \cup {<<r, s>>}
  /\ UNCHANGED <<asked, coded, tested, published>>

Code(r) ==
  /\ <<r, "plan">> \in granted
  /\ coded' = coded \cup {r}
  /\ UNCHANGED <<asked, granted, tested, published>>

Test(r) ==
  /\ r \in coded
  /\ tested' = tested \cup {r}
  /\ UNCHANGED <<asked, granted, coded, published>>

Publish(r) ==
  /\ <<r, "publish">> \in granted
  /\ published' = published \cup {r}
  /\ UNCHANGED <<asked, granted, coded, tested>>

Next ==
  \E r \in Runs :
    \/ \E s \in Stages : Ask(r, s) \/ Grant(r, s)
    \/ Code(r)
    \/ Test(r)
    \/ Publish(r)

Spec == Init /\ [][Next]_gateVars

=============================================================================
