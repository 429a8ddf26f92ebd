--------------------------- MODULE MCRunContents ---------------------------
(* Instances of RunContents for TLC. *)
EXTENDS RunContents

CONSTANTS r1, r2, r3, k1, k2

Case(staged, local, outside, fails, workers, runs, limit) ==
  [staged |-> staged, local |-> local, outside |-> outside, fails |-> fails,
   workers |-> workers, runs |-> runs, decisions |-> limit]

\* Two runs one after the other, and one with every fault, indexed by others too
\* where the environment is not local; one run that two workers take up at
\* once; three runs that spend one budget.
MCDeployments ==
  {Case(TRUE, l, FALSE, FALSE, {k1}, {r1, r2}, 6) : l \in BOOLEAN}
  \cup {Case(TRUE, l, TRUE, TRUE, {k1}, {r1}, 3) : l \in BOOLEAN}
  \cup {Case(FALSE, l, FALSE, TRUE, {k1}, {r1}, 3) : l \in BOOLEAN}
  \cup {Case(TRUE, l, l, FALSE, {k1, k2}, {r1}, 3) : l \in BOOLEAN}
  \cup {Case(FALSE, FALSE, FALSE, FALSE, {k1, k2}, {r1}, 3)}
  \cup {Case(FALSE, FALSE, FALSE, FALSE, {k1, k2}, {r1, r2, r3}, 0)}

MCChain == <<"gemini", "openai">>

============================================================================
