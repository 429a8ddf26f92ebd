---------------------------- MODULE MCCodingStage ----------------------------
(***************************************************************************)
(* CodingStage on a small instance: the deployments the code tells apart.  *)
(***************************************************************************)
EXTENDS CodingStage, TLC

CONSTANTS r1, r2, b1, b2

\* The runs are of two tickets, or both of one.
TwoTickets == [r \in Runs |-> IF r = r1 THEN b1 ELSE b2]
OneTicket == [r \in Runs |-> b1]

Cloud(adapter, faults, branches) ==
  [staged |-> TRUE, configId |-> TRUE, project |-> TRUE, localIde |-> FALSE,
   adapter |-> adapter, remote |-> "gcp", claude |-> TRUE,
   faults |-> faults, plans |-> Runs, branchOf |-> branches]

Local(adapter, staged, faults, plans, branches) ==
  [staged |-> staged, configId |-> FALSE, project |-> FALSE, localIde |-> TRUE,
   adapter |-> adapter, remote |-> "local", claude |-> TRUE,
   faults |-> faults, plans |-> plans, branchOf |-> branches]

\* The cloud executor over the default remote executor, and no executor at all.
InProcess(project) ==
  [staged |-> FALSE, configId |-> FALSE, project |-> project, localIde |-> FALSE,
   adapter |-> "absent", remote |-> "local", claude |-> FALSE,
   faults |-> {"crash", "agent"}, plans |-> Runs, branchOf |-> TwoTickets]

Extension(claude, faults, plans) ==
  [Local("extension", FALSE, faults, plans, TwoTickets) EXCEPT !.claude = claude]

\* Every deployment with the faults that can tell on it.
AllDeployments ==
  {Cloud("cli", {"crash", "agent"}, TwoTickets),
   Cloud("cli", {"command", "stop"}, TwoTickets), Cloud("cli", {"stop"}, OneTicket),
   Cloud("absent", {"command", "stop"}, TwoTickets),
   Local("cli", FALSE, {"crash", "command", "agent"}, Runs, TwoTickets),
   Local("cli", FALSE, {"command"}, Runs, OneTicket),
   Local("absent", TRUE, {"crash"}, Runs, TwoTickets),
   Local("sdk", TRUE, {"command"}, {r1}, TwoTickets),
   Extension(TRUE, {"editor"}, Runs), Extension(FALSE, {"editor"}, {r1}),
   Extension(TRUE, {"crash", "command", "editor"}, {r1}),
   InProcess(TRUE), InProcess(FALSE)}

CloudOnly == {Cloud("cli", {}, TwoTickets)}
=============================================================================
