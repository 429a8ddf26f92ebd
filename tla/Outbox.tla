------------------------------- MODULE Outbox -------------------------------
(***************************************************************************)
(* Replies on their way to Slack and WhatsApp: rows of                     *)
(* outbound_notifications, delivered by every worker that comes by, tried  *)
(* again after a backoff and given up after outbox_max_attempts.  A worker *)
(* reads the rows it will deliver, posts, and commits row by row; nothing  *)
(* keeps another worker from the same rows.                                *)
(***************************************************************************)
EXTENDS Naturals, FiniteSets

CONSTANTS
  Notes,        \* notifications, numbered in the order of created_at
  Workers,
  Crews,        \* the sets of workers that run deliver_pending, per behaviour
  FaultSets,    \* what may go wrong together: a set of sets of faults
  Limit,        \* rows per call of deliver_pending
  MaxAttempts,  \* settings.outbox_max_attempts
  ProviderTries,\* settings.provider_retry_max: posts per attempt
  NoNote

AllFaults == {"provider_error", "lost_response", "crash"}

ASSUME OutboxAssumption ==
  /\ Notes \subseteq Nat /\ NoNote \notin Notes
  /\ Crews \subseteq SUBSET Workers /\ IsFiniteSet(Workers)
  /\ FaultSets \subseteq SUBSET AllFaults
  /\ Limit \in Nat \ {0} /\ MaxAttempts \in Nat \ {0} /\ ProviderTries \in Nat \ {0}

VARIABLES
  crew, faults, \* who delivers, and what goes wrong in this behaviour
  row,          \* the table; status "absent" before the reply is enqueued
  step,         \* per worker: where deliver_pending is
  todo,         \* per worker: the rows of its query that are not yet committed
  current,      \* per worker: the row it is delivering
  loaded,       \* per worker: the columns its session holds
  expired,      \* per worker: the session has committed and reads again
  left,         \* per worker: posts left in this attempt
  attempts,     \* history: delivery attempts, counted up to MaxAttempts + 1
  delivered     \* history: how often the reply reached the provider (2 = twice or more)

vars == <<crew, faults, row, step, todo, current, loaded, expired, left, attempts, delivered>>

Row == [status: {"absent", "pending", "pending_retry", "sent", "failed"},
        tries: Nat, due: BOOLEAN]

Columns == [status: {"absent", "pending", "pending_retry", "sent", "failed"}, tries: Nat]

Unread == [status |-> "absent", tries |-> 0]
NoRow == [status |-> "absent", tries |-> 0, due |-> FALSE]
NothingLoaded == [n \in Notes |-> Unread]

TypeOK ==
  /\ crew \in Crews /\ faults \in FaultSets
  /\ row \in [Notes -> Row]
  /\ step \in [Workers -> {"idle", "next", "post", "succeeded", "raised"}]
  /\ todo \in [Workers -> SUBSET Notes]
  /\ current \in [Workers -> Notes \cup {NoNote}]
  /\ loaded \in [Workers -> [Notes -> Columns]]
  /\ expired \in [Workers -> BOOLEAN]
  /\ left \in [Workers -> 0..ProviderTries]
  /\ attempts \in [Notes -> 0..MaxAttempts + 1]
  /\ delivered \in [Notes -> 0..2]

Init ==
  /\ crew \in Crews /\ faults \in FaultSets
  /\ row = [n \in Notes |-> NoRow]
  /\ step = [k \in Workers |-> "idle"]
  /\ todo = [k \in Workers |-> {}]
  /\ current = [k \in Workers |-> NoNote]
  /\ loaded = [k \in Workers |-> NothingLoaded]
  /\ expired = [k \in Workers |-> FALSE]
  /\ left = [k \in Workers |-> 0]
  /\ attempts = [n \in Notes |-> 0]
  /\ delivered = [n \in Notes |-> 0]

-----------------------------------------------------------------------------

Goto(k, s) == step' = [step EXCEPT ![k] = s]

\* send_reply, committed with the session of the run.
Enqueue(n) ==
  /\ row[n].status = "absent"
  /\ \A m \in Notes : m < n => row[m].status # "absent"
  /\ row' = [row EXCEPT ![n] = [status |-> "pending", tries |-> 0, due |-> TRUE]]
  /\ UNCHANGED <<crew, faults, step, todo, current, loaded, expired, left, attempts, delivered>>

\* next_attempt_at = now + min(300, 2^retry_count) comes.
BackoffPasses(n) ==
  /\ row[n].status = "pending_retry" /\ ~row[n].due
  /\ row' = [row EXCEPT ![n].due = TRUE]
  /\ UNCHANGED <<crew, faults, step, todo, current, loaded, expired, left, attempts, delivered>>

\* The columns of these rows as a session reads them now.
Read(S) == [n \in Notes |-> IF n \in S THEN [status |-> row[n].status, tries |-> row[n].tries]
                                       ELSE Unread]

\* Mutants: the query loses its filter on the status, or forgets the retries.
DueAnyStatus == {n \in Notes : row[n].due}
DueOnlyPending == {n \in Notes : row[n].status = "pending" /\ row[n].due}

Due == {n \in Notes : row[n].status \in {"pending", "pending_retry"} /\ row[n].due}

\* The query of deliver_pending: the oldest rows that are due.
Query(k) ==
  /\ k \in crew /\ step[k] = "idle"
  /\ \E S \in (SUBSET Due) \ {{}} :
       /\ \A n \in S, m \in Due \ S : n < m
       /\ Cardinality(S) = Limit \/ (S = Due /\ Cardinality(S) < Limit)
       /\ todo' = [todo EXCEPT ![k] = S]
       /\ loaded' = [loaded EXCEPT ![k] = Read(S)]
  /\ Goto(k, "next")
  /\ UNCHANGED <<crew, faults, row, current, expired, left, attempts, delivered>>

\* The first row of the query is used as it was read, the later ones are read
\* again because the commit before has expired them.  Their status is not
\* looked at again.
StartRow(k) ==
  /\ step[k] = "next"
  /\ \E n \in todo[k] :
       /\ \A m \in todo[k] : n <= m
       /\ current' = [current EXCEPT ![k] = n]
  /\ loaded' = [loaded EXCEPT ![k] = IF expired[k] THEN Read(todo[k]) ELSE @]
  /\ left' = [left EXCEPT ![k] = ProviderTries]
  /\ Goto(k, "post")
  /\ UNCHANGED <<crew, faults, row, todo, expired, attempts, delivered>>

Arrives(n) == delivered' = [delivered EXCEPT ![n] = IF @ = 2 THEN 2 ELSE @ + 1]

\* Mutant: a post whose outcome is unknown counts as delivered.
PostHopes(k) ==
  LET n == current[k] IN
  /\ step[k] = "post"
  /\ attempts' = [attempts EXCEPT ![n] = IF @ > MaxAttempts THEN @ ELSE @ + 1]
  /\ Goto(k, "succeeded")
  /\ \/ Arrives(n)
     \/ "lost_response" \in faults /\ UNCHANGED delivered
  /\ UNCHANGED <<crew, faults, row, todo, current, loaded, expired, left>>

\* Mutant: one post too many.
AgainOneMore(k) == left[k] > 0

Again(k) == left[k] > 1

\* One HTTP post.  A transient error (timeout, 429, 5xx) is tried again within
\* the attempt, although a timed out post may have arrived; any other error,
\* an unknown channel and a missing token end the attempt.
Post(k) ==
  LET n == current[k] IN
  /\ step[k] = "post"
  /\ attempts' = [attempts EXCEPT ![n] =
                    IF left[k] < ProviderTries \/ @ > MaxAttempts THEN @ ELSE @ + 1]
  /\ \/ Goto(k, "succeeded") /\ Arrives(n) /\ UNCHANGED left
     \/ /\ \/ "lost_response" \in faults /\ Arrives(n)
           \/ "provider_error" \in faults /\ UNCHANGED delivered
        /\ left' = [left EXCEPT ![k] = @ - 1]
        /\ Goto(k, IF Again(k) THEN "post" ELSE "raised")
     \/ "provider_error" \in faults /\ Goto(k, "raised") /\ UNCHANGED <<delivered, left>>
  /\ UNCHANGED <<crew, faults, row, todo, current, loaded, expired>>

\* session.commit writes the columns that differ from what the session read,
\* whatever the row holds by now.
Commit(k, status, tries, due) ==
  LET n == current[k]
      old == loaded[k][n]
  IN
  /\ row' = [row EXCEPT ![n] = [status |-> IF status = old.status THEN @.status ELSE status,
                                tries  |-> IF tries = old.tries THEN @.tries ELSE tries,
                                due    |-> due]]
  /\ todo' = [todo EXCEPT ![k] = @ \ {n}]
  /\ expired' = [expired EXCEPT ![k] = todo[k] # {n}]
  /\ current' = [current EXCEPT ![k] = NoNote]
  /\ loaded' = [loaded EXCEPT ![k] = NothingLoaded]
  /\ left' = [left EXCEPT ![k] = 0]
  /\ Goto(k, IF todo[k] = {n} THEN "idle" ELSE "next")
  /\ UNCHANGED <<crew, faults, attempts, delivered>>

Succeed(k) ==
  /\ step[k] = "succeeded"
  /\ Commit(k, "sent", loaded[k][current[k]].tries, row[current[k]].due)

\* Mutant: a row is given up one attempt early.
FailEarly(k) ==
  LET tries == loaded[k][current[k]].tries + 1 IN
  /\ step[k] = "raised"
  /\ \/ tries + 1 >= MaxAttempts /\ Commit(k, "failed", tries, row[current[k]].due)
     \/ tries + 1 < MaxAttempts /\ Commit(k, "pending_retry", tries, FALSE)

\* Mutant: no row is ever given up.
FailNever(k) ==
  /\ step[k] = "raised"
  /\ Commit(k, "pending_retry", loaded[k][current[k]].tries, FALSE)

Fail(k) ==
  LET tries == loaded[k][current[k]].tries + 1 IN
  /\ step[k] = "raised"
  /\ \/ tries >= MaxAttempts /\ Commit(k, "failed", tries, row[current[k]].due)
     \/ tries < MaxAttempts /\ Commit(k, "pending_retry", tries, FALSE)

\* The process dies, or the commit raises.
WorkerDies(k) ==
  /\ "crash" \in faults
  /\ step[k] # "idle"
  /\ Goto(k, "idle")
  /\ todo' = [todo EXCEPT ![k] = {}]
  /\ current' = [current EXCEPT ![k] = NoNote]
  /\ loaded' = [loaded EXCEPT ![k] = NothingLoaded]
  /\ left' = [left EXCEPT ![k] = 0]
  /\ expired' = [expired EXCEPT ![k] = FALSE]
  /\ UNCHANGED <<crew, faults, row, attempts, delivered>>

Deliver(k) == Query(k) \/ StartRow(k) \/ Post(k) \/ Succeed(k) \/ Fail(k)

Next ==
  \/ \E n \in Notes : Enqueue(n) \/ BackoffPasses(n)
  \/ \E k \in Workers : Deliver(k) \/ WorkerDies(k)

Spec == Init /\ [][Next]_vars

\* A round of the worker's loop that finds no message and no resume event
\* delivers; of those there are finitely many in the life of a reply.  A worker
\* that died is started again.  Time passes.
FairSpec ==
  /\ Spec
  /\ \A k \in Workers : WF_vars(Deliver(k))
  /\ \A n \in Notes : WF_vars(BackoffPasses(n))

-----------------------------------------------------------------------------
(* Properties, whatever the crew and the faults *)

\* A reply that is marked sent has reached the provider.
SentWasDelivered == \A n \in Notes : row[n].status = "sent" => delivered[n] > 0

\* No reply is given up before outbox_max_attempts attempts, although workers
\* overwrite each other's retry_count.
FailedWasTried == \A n \in Notes : row[n].status = "failed" => attempts[n] >= MaxAttempts

(* With one worker; two may send a reply twice and bring a sent one back. *)

Alone == Cardinality(crew) = 1

\* A reply reaches the provider at most once, unless the worker dies between
\* post and commit or a post that arrived looks like one that did not.
DeliveredOnce ==
  Alone /\ faults \cap {"crash", "lost_response"} = {} => \A n \in Notes : delivered[n] <= 1

\* A provider that keeps failing is not bothered for ever: a row that is given
\* up is tried again only by a worker that already had it in its query.  With
\* three workers this fails: the two that are late can bring the row back as
\* pending, with the count of the one and the status of the other.
AttemptsBounded ==
  \A n \in Notes :
    /\ Cardinality(crew) <= 2 => row[n].tries < MaxAttempts + Cardinality(crew)
    /\ Alone /\ "crash" \notin faults => attempts[n] <= MaxAttempts

\* What is sent or given up stays so.
Final(n) == row[n].status \in {"sent", "failed"}
FinalStays ==
  [][Alone => \A n \in Notes : Final(n) => row'[n] = row[n]]_vars

\* Every reply is sent or given up in the end, with any crew, even though
\* retry counts are lost and sent rows come back.
Resolved ==
  \A n \in Notes : (row[n].status # "absent" /\ "crash" \notin faults /\ crew # {}) ~> Final(n)

=============================================================================
