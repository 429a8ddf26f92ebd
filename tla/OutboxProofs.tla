---------------------------- MODULE OutboxProofs ----------------------------
(***************************************************************************)
(* Theorems about Outbox, for every number of notifications, workers and   *)
(* attempts, and for every combination of faults.                          *)
(***************************************************************************)
EXTENDS Outbox, FiniteSetTheorems, TLAPS

-----------------------------------------------------------------------------
(* The inductive invariant *)

\* At least t attempts have been made, or as many as are asked for.
Tried(n, t) == t <= attempts[n] \/ MaxAttempts <= attempts[n]

Delivering == {"post", "succeeded", "raised"}

\* Nobody, table or session, counts more attempts than were made.
CountsOK ==
  /\ \A n \in Notes : Tried(n, row[n].tries)
  /\ \A k \in Workers, n \in Notes : Tried(n, loaded[k][n].tries)

\* Once it has posted, a worker's attempt is on top of those it has read about;
\* when it takes the reply for sent, it has arrived.
WorkerOK(k) ==
  /\ step[k] \in Delivering => current[k] \in Notes
  /\ step[k] = "post" => left[k] > 0
  /\ (step[k] = "post" /\ left[k] < ProviderTries) \/ step[k] = "raised"
       => Tried(current[k], loaded[k][current[k]].tries + 1)
  /\ step[k] = "succeeded" => delivered[current[k]] > 0

IInv ==
  /\ TypeOK
  /\ SentWasDelivered
  /\ FailedWasTried
  /\ CountsOK
  /\ \A k \in Workers : WorkerOK(k)

USE OutboxAssumption

LEMMA InitInv == Init => IInv
<1> SUFFICES ASSUME Init PROVE IInv
  OBVIOUS
<1>1. TypeOK
  BY DEF Init, TypeOK, NoRow, Row, NothingLoaded, Unread, Columns
<1>2. SentWasDelivered /\ FailedWasTried
  BY DEF Init, SentWasDelivered, FailedWasTried, NoRow
<1>3. CountsOK
  BY DEF Init, CountsOK, Tried, NoRow, NothingLoaded, Unread
<1>4. ASSUME NEW k \in Workers PROVE WorkerOK(k)
  BY DEF Init, WorkerOK, Delivering
<1> QED
  BY <1>1, <1>2, <1>3, <1>4 DEF IInv

-----------------------------------------------------------------------------
(* Steps that leave the histories alone or let them grow *)

\* What has been tried and delivered stays so.
Grows ==
  /\ \A n \in Notes : attempts[n] <= attempts'[n]
  /\ \A n \in Notes : delivered[n] > 0 => delivered'[n] > 0

LEMMA TriedStays ==
  ASSUME TypeOK, TypeOK', Grows, NEW n \in Notes, NEW t \in Nat, Tried(n, t)
  PROVE  t <= attempts'[n] \/ MaxAttempts <= attempts'[n]
<1>1. attempts[n] \in Nat /\ attempts'[n] \in Nat /\ attempts[n] <= attempts'[n]
  BY DEF TypeOK, Grows
<1> QED
  BY <1>1 DEF Tried

LEMMA TypeStep == ASSUME IInv, Next PROVE TypeOK'
<1>0. TypeOK /\ \A k \in Workers : WorkerOK(k)
  BY DEF IInv
<1>1. ASSUME NEW n \in Notes, Enqueue(n) PROVE TypeOK'
  BY <1>0, <1>1 DEF Enqueue, TypeOK, Row
<1>2. ASSUME NEW n \in Notes, BackoffPasses(n) PROVE TypeOK'
  <2>0. row[n] \in Row
    BY <1>0 DEF TypeOK
  <2>1. [row[n] EXCEPT !.due = TRUE] \in Row
    BY <2>0 DEF Row
  <2>2. row' = [row EXCEPT ![n] = [row[n] EXCEPT !.due = TRUE]]
    BY <1>2 DEF BackoffPasses
  <2>3. row' \in [Notes -> Row]
    BY <1>0, <2>1, <2>2 DEF TypeOK
  <2> QED
    BY <1>0, <1>2, <2>3 DEF BackoffPasses, TypeOK
<1>r. ASSUME NEW S PROVE Read(S) \in [Notes -> Columns]
  BY <1>0 DEF Read, TypeOK, Row, Columns, Unread
<1>3. ASSUME NEW k \in Workers, Query(k) PROVE TypeOK'
  <2>1. PICK S \in (SUBSET Due) \ {{}} : /\ todo' = [todo EXCEPT ![k] = S]
                                       /\ loaded' = [loaded EXCEPT ![k] = Read(S)]
    BY <1>3 DEF Query
  <2>2. S \in SUBSET Notes
    BY <2>1 DEF Due
  <2>3. todo' \in [Workers -> SUBSET Notes] /\ loaded' \in [Workers -> [Notes -> Columns]]
    BY <1>0, <1>r, <2>1, <2>2 DEF TypeOK
  <2>4. step' \in [Workers -> {"idle", "next", "post", "succeeded", "raised"}]
    BY <1>0, <1>3 DEF Query, Goto, TypeOK
  <2> QED
    BY <1>0, <1>3, <2>3, <2>4 DEF Query, TypeOK
<1>4. ASSUME NEW k \in Workers, StartRow(k) PROVE TypeOK'
  <2>1. PICK n \in todo[k] : current' = [current EXCEPT ![k] = n]
    BY <1>4 DEF StartRow
  <2>2. n \in Notes
    BY <1>0, <2>1 DEF TypeOK
  <2>3. current' \in [Workers -> Notes \cup {NoNote}]
    BY <1>0, <2>1, <2>2 DEF TypeOK
  <2>4. loaded' \in [Workers -> [Notes -> Columns]]
    BY <1>0, <1>4, <1>r DEF StartRow, TypeOK
  <2>5. step' \in [Workers -> {"idle", "next", "post", "succeeded", "raised"}]
    BY <1>0, <1>4 DEF StartRow, Goto, TypeOK
  <2>6. left' \in [Workers -> 0..ProviderTries]
    BY <1>0, <1>4 DEF StartRow, TypeOK
  <2> QED
    BY <1>0, <1>4, <2>3, <2>4, <2>5, <2>6 DEF StartRow, TypeOK
<1>5. ASSUME NEW k \in Workers, Post(k) PROVE TypeOK'
  <2>1. current[k] \in Notes /\ left[k] > 0
    BY <1>0, <1>5 DEF Post, WorkerOK, Delivering
  <2>a. attempts[current[k]] \in 0..MaxAttempts + 1 /\ MaxAttempts \in Nat
    BY <1>0, <2>1 DEF TypeOK
  <2>b. PICK v \in 0..MaxAttempts + 1 : attempts' = [attempts EXCEPT ![current[k]] = v]
    <3>1. CASE left[k] < ProviderTries \/ attempts[current[k]] > MaxAttempts
      BY <1>5, <2>a, <3>1 DEF Post
    <3>2. CASE ~(left[k] < ProviderTries \/ attempts[current[k]] > MaxAttempts)
      <4>1. attempts[current[k]] + 1 \in 0..MaxAttempts + 1
        BY <2>a, <3>2
      <4> QED
        BY <1>5, <3>2, <4>1 DEF Post
    <3> QED
      BY <3>1, <3>2
  <2>2. attempts' \in [Notes -> 0..MaxAttempts + 1]
    BY <1>0, <2>b DEF TypeOK
  <2>3. delivered' \in [Notes -> 0..2]
    BY <1>0, <1>5, <2>1 DEF Post, Arrives, TypeOK
  <2>4. left' \in [Workers -> 0..ProviderTries]
    BY <1>0, <1>5, <2>1 DEF Post, TypeOK
  <2>5. step' \in [Workers -> {"idle", "next", "post", "succeeded", "raised"}]
    BY <1>0, <1>5 DEF Post, Goto, TypeOK
  <2> QED
    BY <1>0, <1>5, <2>2, <2>3, <2>4, <2>5 DEF Post, TypeOK
<1>6. ASSUME NEW k \in Workers, step[k] \in Delivering,
             NEW status \in {"sent", "failed", "pending_retry"}, NEW tries \in Nat,
             NEW due \in BOOLEAN, Commit(k, status, tries, due)
      PROVE  TypeOK'
  <2>1. current[k] \in Notes
    BY <1>0, <1>6 DEF WorkerOK
  <2>2. row' \in [Notes -> Row]
    BY <1>0, <1>6, <2>1 DEF Commit, TypeOK, Row
  <2>3. todo' \in [Workers -> SUBSET Notes]
    BY <1>0, <1>6 DEF Commit, TypeOK
  <2>4. step' \in [Workers -> {"idle", "next", "post", "succeeded", "raised"}]
    BY <1>0, <1>6 DEF Commit, Goto, TypeOK
  <2>5. loaded' \in [Workers -> [Notes -> Columns]]
    BY <1>0, <1>6 DEF Commit, TypeOK, NothingLoaded, Unread, Columns
  <2>6. left' \in [Workers -> 0..ProviderTries] /\ expired' \in [Workers -> BOOLEAN]
    BY <1>0, <1>6 DEF Commit, TypeOK
  <2>7. current' \in [Workers -> Notes \cup {NoNote}]
    BY <1>0, <1>6 DEF Commit, TypeOK
  <2> QED
    BY <1>0, <1>6, <2>2, <2>3, <2>4, <2>5, <2>6, <2>7 DEF Commit, TypeOK
<1>c. ASSUME NEW k \in Workers, step[k] \in Delivering
      PROVE  row[current[k]].due \in BOOLEAN /\ loaded[k][current[k]].tries \in Nat
  <2>1. current[k] \in Notes
    BY <1>0, <1>c DEF WorkerOK
  <2>2. row[current[k]] \in Row
    BY <1>0, <2>1 DEF TypeOK
  <2>3. loaded[k] \in [Notes -> Columns]
    BY <1>0 DEF TypeOK
  <2> QED
    BY <2>1, <2>2, <2>3 DEF Row, Columns
<1>7. ASSUME NEW k \in Workers, Succeed(k) PROVE TypeOK'
  BY <1>6, <1>7, <1>c DEF Succeed, Delivering
<1>8. ASSUME NEW k \in Workers, Fail(k) PROVE TypeOK'
  <2>1. step[k] \in Delivering
    BY <1>8 DEF Fail, Delivering
  <2>2. loaded[k][current[k]].tries + 1 \in Nat /\ row[current[k]].due \in BOOLEAN
    BY <2>1, <1>c
  <2> QED
    BY <1>6, <1>8, <2>1, <2>2 DEF Fail
<1>9. ASSUME NEW k \in Workers, WorkerDies(k) PROVE TypeOK'
  <2>1. loaded' \in [Workers -> [Notes -> Columns]]
    BY <1>0, <1>9 DEF WorkerDies, TypeOK, NothingLoaded, Unread, Columns
  <2>2. /\ step' \in [Workers -> {"idle", "next", "post", "succeeded", "raised"}]
        /\ todo' \in [Workers -> SUBSET Notes]
        /\ current' \in [Workers -> Notes \cup {NoNote}]
    BY <1>0, <1>9 DEF WorkerDies, Goto, TypeOK
  <2>3. left' \in [Workers -> 0..ProviderTries] /\ expired' \in [Workers -> BOOLEAN]
    BY <1>0, <1>9 DEF WorkerDies, TypeOK
  <2> QED
    BY <1>0, <1>9, <2>1, <2>2, <2>3 DEF WorkerDies, TypeOK
<1> QED
  BY <1>1, <1>2, <1>3, <1>4, <1>5, <1>7, <1>8, <1>9 DEF Next, Deliver

LEMMA GrowsStep == ASSUME IInv, Next PROVE Grows
<1>0. TypeOK /\ \A k \in Workers : WorkerOK(k)
  BY DEF IInv
<1>1. ASSUME NEW k \in Workers, Post(k) PROVE Grows
  <2>1. current[k] \in Notes
    BY <1>0, <1>1 DEF Post, WorkerOK, Delivering
  <2>2. \A n \in Notes : attempts[n] <= attempts'[n]
    BY <1>0, <1>1, <2>1 DEF Post, TypeOK
  <2>3. \A n \in Notes : delivered[n] > 0 => delivered'[n] > 0
    BY <1>0, <1>1, <2>1 DEF Post, Arrives, TypeOK
  <2> QED
    BY <2>2, <2>3 DEF Grows
<1>2. ASSUME attempts' = attempts, delivered' = delivered PROVE Grows
  <2>1. \A n \in Notes : attempts[n] \in Nat
    BY <1>0 DEF TypeOK
  <2> QED
    BY <1>2, <2>1 DEF Grows
<1> QED
  BY <1>1, <1>2 DEF Next, Deliver, Enqueue, BackoffPasses, Query, StartRow, Succeed, Fail,
                    Commit, WorkerDies

-----------------------------------------------------------------------------
(* What a worker commits is covered by what has happened *)

LEMMA CommitRow ==
  ASSUME TypeOK, NEW k \in Workers, current[k] \in Notes,
         NEW status, NEW tries, NEW due, Commit(k, status, tries, due)
  PROVE  /\ \A n \in Notes : n # current[k] => row'[n] = row[n]
         /\ row'[current[k]].status \in {status, row[current[k]].status}
         /\ row'[current[k]].tries \in {tries, row[current[k]].tries}
  BY DEF Commit, TypeOK

LEMMA TriesTyped ==
  ASSUME TypeOK
  PROVE  /\ \A n \in Notes : row[n].tries \in Nat
         /\ \A k \in Workers, n \in Notes : loaded[k][n].tries \in Nat
<1>1. ASSUME NEW n \in Notes PROVE row[n].tries \in Nat
  <2>1. row[n] \in Row
    BY DEF TypeOK
  <2> QED
    BY <2>1 DEF Row
<1>2. ASSUME NEW k \in Workers, NEW n \in Notes PROVE loaded[k][n].tries \in Nat
  <2>1. loaded[k] \in [Notes -> Columns]
    BY DEF TypeOK
  <2> QED
    BY <2>1 DEF Columns
<1> QED
  BY <1>1, <1>2

\* A failed attempt has been made: the count that is written is no larger.
LEMMA RaisedTried ==
  ASSUME IInv, NEW k \in Workers, step[k] = "raised"
  PROVE  current[k] \in Notes /\ Tried(current[k], loaded[k][current[k]].tries + 1)
  BY DEF IInv, WorkerOK, Delivering

\* The rows: a count grows only by attempts made, a status becomes final only
\* when its reason is there.
RowsJustified ==
  \A n \in Notes :
    /\ row'[n].tries \in {0, row[n].tries} \/ Tried(n, row'[n].tries)
    /\ row'[n].status = "sent" => row[n].status = "sent" \/ delivered[n] > 0
    /\ row'[n].status = "failed" => row[n].status = "failed" \/ attempts[n] >= MaxAttempts

LEMMA RowsStep == ASSUME IInv, Next PROVE RowsJustified
<1>0. TypeOK /\ \A k \in Workers : WorkerOK(k)
  BY DEF IInv
<1>1. ASSUME NEW n \in Notes, Enqueue(n) PROVE RowsJustified
  <2>1. /\ row'[n] = [status |-> "pending", tries |-> 0, due |-> TRUE]
        /\ \A m \in Notes : m # n => row'[m] = row[m]
    BY <1>0, <1>1 DEF Enqueue, TypeOK
  <2>2. row'[n].tries = 0 /\ row'[n].status = "pending"
    BY <2>1
  <2> QED
    BY <2>1, <2>2 DEF RowsJustified
<1>2. ASSUME NEW n \in Notes, BackoffPasses(n) PROVE RowsJustified
  <2>1. /\ row'[n] = [row[n] EXCEPT !.due = TRUE]
        /\ \A m \in Notes : m # n => row'[m] = row[m]
    BY <1>0, <1>2 DEF BackoffPasses, TypeOK
  <2>2. row[n] \in Row
    BY <1>0 DEF TypeOK
  <2>3. row'[n].tries = row[n].tries /\ row'[n].status = row[n].status
    BY <2>1, <2>2 DEF Row
  <2> QED
    BY <2>1, <2>3 DEF RowsJustified
<1>3. ASSUME NEW k \in Workers, Succeed(k) PROVE RowsJustified
  <2>1. current[k] \in Notes /\ delivered[current[k]] > 0
    BY <1>0, <1>3 DEF Succeed, WorkerOK, Delivering
  <2>2. Commit(k, "sent", loaded[k][current[k]].tries, row[current[k]].due)
    BY <1>3 DEF Succeed
  <2>3. row'[current[k]].tries = row[current[k]].tries
    BY <1>0, <2>1, <2>2 DEF Commit, TypeOK
  <2>4. /\ \A n \in Notes : n # current[k] => row'[n] = row[n]
        /\ row'[current[k]].status \in {"sent", row[current[k]].status}
    BY <1>0, <2>1, <2>2, CommitRow
  <2> QED
    BY <2>1, <2>3, <2>4 DEF RowsJustified
<1>4. ASSUME NEW k \in Workers, Fail(k) PROVE RowsJustified
  <2>0. step[k] = "raised"
    BY <1>4 DEF Fail
  <2> DEFINE t == loaded[k][current[k]].tries + 1
  <2>1. current[k] \in Notes /\ Tried(current[k], t)
    BY <2>0, RaisedTried
  <2>2. loaded[k][current[k]].tries \in Nat
    BY <1>0, <2>1, TriesTyped
  <2>b. attempts[current[k]] \in 0..MaxAttempts + 1
    BY <1>0, <2>1 DEF TypeOK
  <2>a. attempts[current[k]] \in Nat /\ MaxAttempts \in Nat
    BY <2>b
  <2>3. CASE t >= MaxAttempts /\ Commit(k, "failed", t, row[current[k]].due)
    <3>1. attempts[current[k]] >= MaxAttempts
      BY <2>1, <2>2, <2>a, <2>3 DEF Tried
    <3> HIDE DEF t
    <3>2. /\ \A n \in Notes : n # current[k] => row'[n] = row[n]
          /\ row'[current[k]].status \in {"failed", row[current[k]].status}
          /\ row'[current[k]].tries \in {t, row[current[k]].tries}
      BY <1>0, <2>1, <2>3, CommitRow
    <3> QED
      BY <2>1, <3>1, <3>2 DEF RowsJustified
  <2>4. CASE t < MaxAttempts /\ Commit(k, "pending_retry", t, FALSE)
    <3> HIDE DEF t
    <3>1. /\ \A n \in Notes : n # current[k] => row'[n] = row[n]
          /\ row'[current[k]].status \in {"pending_retry", row[current[k]].status}
          /\ row'[current[k]].tries \in {t, row[current[k]].tries}
      BY <1>0, <2>1, <2>4, CommitRow
    <3> QED
      BY <2>1, <3>1 DEF RowsJustified
  <2> QED
    BY <1>4, <2>3, <2>4 DEF Fail
<1>5. ASSUME row' = row PROVE RowsJustified
  BY <1>5 DEF RowsJustified
<1> QED
  BY <1>1, <1>2, <1>3, <1>4, <1>5 DEF Next, Deliver, Query, StartRow, Post, WorkerDies

-----------------------------------------------------------------------------
(* What sessions hold *)

\* A session's columns are old ones, fresh ones or none.
LoadedJustified ==
  \A k \in Workers, n \in Notes :
    loaded'[k][n].tries \in {0, loaded[k][n].tries, row[n].tries}

LEMMA LoadedStep == ASSUME IInv, Next PROVE LoadedJustified
<1>0. TypeOK
  BY DEF IInv
<1>1. ASSUME NEW S, NEW n \in Notes PROVE Read(S)[n].tries \in {0, row[n].tries}
  BY DEF Read, Unread
<1>2. ASSUME NEW k \in Workers, NEW S, loaded' = [loaded EXCEPT ![k] = Read(S)]
      PROVE  LoadedJustified
  <2>1. loaded'[k] = Read(S) /\ \A j \in Workers : j # k => loaded'[j] = loaded[j]
    BY <1>0, <1>2 DEF TypeOK
  <2>2. \A n \in Notes : loaded'[k][n].tries \in {0, row[n].tries}
    BY <1>1, <2>1
  <2> QED
    BY <2>1, <2>2 DEF LoadedJustified
<1>3. ASSUME NEW k \in Workers, loaded' = [loaded EXCEPT ![k] = NothingLoaded]
      PROVE  LoadedJustified
  <2>1. \A n \in Notes : NothingLoaded[n].tries = 0
    BY DEF NothingLoaded, Unread
  <2>2. loaded'[k] = NothingLoaded /\ \A j \in Workers : j # k => loaded'[j] = loaded[j]
    BY <1>0, <1>3 DEF TypeOK
  <2> QED
    BY <2>1, <2>2 DEF LoadedJustified
<1>4. ASSUME loaded' = loaded PROVE LoadedJustified
  BY <1>4 DEF LoadedJustified
<1>5. ASSUME NEW k \in Workers, Query(k) PROVE LoadedJustified
  BY <1>2, <1>5 DEF Query
<1>6. ASSUME NEW k \in Workers, StartRow(k) PROVE LoadedJustified
  <2>1. CASE expired[k]
    BY <1>2, <1>6, <2>1 DEF StartRow
  <2>2. CASE ~expired[k]
    BY <1>0, <1>4, <1>6, <2>2 DEF StartRow, TypeOK
  <2> QED
    BY <2>1, <2>2
<1> QED
  BY <1>3, <1>4, <1>5, <1>6
  DEF Next, Deliver, Enqueue, BackoffPasses, Post, Succeed, Fail, Commit, WorkerDies

LEMMA TablesStep ==
  ASSUME IInv, Next
  PROVE  SentWasDelivered' /\ FailedWasTried' /\ CountsOK'
<1>0. TypeOK /\ TypeOK' /\ Grows /\ RowsJustified /\ LoadedJustified
  BY TypeStep, GrowsStep, RowsStep, LoadedStep DEF IInv
<1>1. SentWasDelivered'
  BY <1>0 DEF IInv, SentWasDelivered, RowsJustified, Grows
<1>2. FailedWasTried'
  <2>1. \A n \in Notes : attempts[n] \in Nat /\ attempts'[n] \in Nat
    BY <1>0 DEF TypeOK
  <2> QED
    BY <1>0, <2>1 DEF IInv, FailedWasTried, RowsJustified, Grows
<1>3. ASSUME NEW n \in Notes, NEW t \in Nat, t = 0 \/ Tried(n, t)
      PROVE  t <= attempts'[n] \/ MaxAttempts <= attempts'[n]
  <2>1. attempts'[n] \in Nat
    BY <1>0 DEF TypeOK
  <2>2. CASE t = 0
    BY <2>1, <2>2
  <2>3. CASE Tried(n, t)
    BY <1>0, <2>3, TriedStays
  <2> QED
    BY <1>3, <2>2, <2>3
<1>4. /\ \A n \in Notes : row'[n].tries \in Nat
      /\ \A k \in Workers, n \in Notes : loaded'[k][n].tries \in Nat
  <2>1. ASSUME NEW n \in Notes PROVE row'[n].tries \in Nat
    <3>1. row'[n] \in Row
      BY <1>0 DEF TypeOK
    <3> QED
      BY <3>1 DEF Row
  <2>2. ASSUME NEW k \in Workers, NEW n \in Notes PROVE loaded'[k][n].tries \in Nat
    <3>1. loaded'[k] \in [Notes -> Columns]
      BY <1>0 DEF TypeOK
    <3> QED
      BY <3>1 DEF Columns
  <2> QED
    BY <2>1, <2>2
<1>5. CountsOK'
  <2>1. ASSUME NEW n \in Notes
        PROVE  row'[n].tries <= attempts'[n] \/ MaxAttempts <= attempts'[n]
    <3>1. row'[n].tries = 0 \/ Tried(n, row'[n].tries)
      BY <1>0 DEF IInv, CountsOK, RowsJustified
    <3> QED
      BY <1>3, <1>4, <3>1
  <2>2. ASSUME NEW k \in Workers, NEW n \in Notes
        PROVE  loaded'[k][n].tries <= attempts'[n] \/ MaxAttempts <= attempts'[n]
    <3>1. loaded'[k][n].tries = 0 \/ Tried(n, loaded'[k][n].tries)
      BY <1>0 DEF IInv, CountsOK, LoadedJustified
    <3> QED
      BY <1>3, <1>4, <3>1
  <2> QED
    BY <2>1, <2>2 DEF CountsOK, Tried
<1> QED
  BY <1>1, <1>2, <1>5

-----------------------------------------------------------------------------
(* What a worker takes for granted *)

\* A worker that does not move keeps what it relies on.
LEMMA OtherWorkers ==
  ASSUME IInv, Next, NEW k \in Workers,
         step'[k] = step[k], current'[k] = current[k], loaded'[k] = loaded[k], left'[k] = left[k]
  PROVE  WorkerOK(k)'
<1>0. TypeOK /\ TypeOK' /\ Grows /\ WorkerOK(k)
  BY TypeStep, GrowsStep DEF IInv
<1>1. CASE step[k] \notin Delivering
  BY <1>0, <1>1 DEF WorkerOK, Delivering
<1>2. CASE step[k] \in Delivering
  <2> DEFINE t == loaded[k][current[k]].tries + 1
  <2>1. current[k] \in Notes
    BY <1>0, <1>2 DEF WorkerOK
  <2>2. t \in Nat
    <3>1. loaded[k][current[k]].tries \in Nat
      BY <1>0, <2>1, TriesTyped
    <3> QED
      BY <3>1
  <2>3. Tried(current[k], t) => t <= attempts'[current[k]] \/ MaxAttempts <= attempts'[current[k]]
    BY <1>0, <2>1, <2>2, TriedStays
  <2>4. delivered[current[k]] > 0 => delivered'[current[k]] > 0
    BY <1>0, <2>1 DEF Grows
  <2> QED
    BY <1>0, <2>1, <2>3, <2>4 DEF WorkerOK, Tried
<1> QED
  BY <1>1, <1>2

LEMMA PostStep ==
  ASSUME IInv, Next, NEW k \in Workers, Post(k)
  PROVE  WorkerOK(k)'
<1> DEFINE n == current[k]
           t == loaded[k][n].tries + 1
<1>0. TypeOK /\ TypeOK' /\ Grows /\ WorkerOK(k) /\ CountsOK
  BY TypeStep, GrowsStep DEF IInv
<1>1. /\ n \in Notes /\ left[k] > 0
      /\ current'[k] = n /\ loaded'[k] = loaded[k]
  BY <1>0 DEF Post, WorkerOK, Delivering
<1>2. loaded[k][n].tries \in Nat
  BY <1>0, <1>1, TriesTyped
<1>t. t \in Nat
  BY <1>2
<1>3. attempts[n] \in 0..MaxAttempts + 1 /\ left[k] \in 0..ProviderTries
  BY <1>0, <1>1 DEF TypeOK
<1>4. t <= attempts'[n] \/ MaxAttempts <= attempts'[n]
  <2>1. CASE left[k] < ProviderTries
    <3>1. Tried(n, t)
      BY <1>0, <2>1 DEF Post, WorkerOK
    <3> QED
      BY <1>0, <1>1, <1>t, <3>1, TriedStays
  <2>2. CASE ~(left[k] < ProviderTries)
    <3>1. attempts'[n] = IF attempts[n] > MaxAttempts THEN attempts[n] ELSE attempts[n] + 1
      BY <1>0, <1>1, <2>2 DEF Post, TypeOK
    <3>2. loaded[k][n].tries <= attempts[n] \/ MaxAttempts <= attempts[n]
      BY <1>0, <1>1 DEF CountsOK, Tried
    <3> QED
      BY <1>2, <1>3, <3>1, <3>2
  <2> QED
    BY <2>1, <2>2
<1>5. step'[k] \in Delivering
  BY <1>0 DEF Post, Goto, TypeOK, Delivering
<1>6. step'[k] = "post" => left'[k] > 0
  <2>1. step'[k] = "post" => left[k] > 1 /\ left'[k] = left[k] - 1
    BY <1>0 DEF Post, Goto, Again, TypeOK
  <2> QED
    BY <1>3, <2>1
<1>7. step'[k] = "succeeded" => delivered'[n] > 0
  <2>1. step'[k] = "succeeded" => Arrives(n)
    BY <1>0 DEF Post, Goto, TypeOK
  <2>2. Arrives(n) => delivered'[n] > 0
    <3>1. delivered[n] \in 0..2
      BY <1>0, <1>1 DEF TypeOK
    <3>2. Arrives(n) => delivered'[n] = IF delivered[n] = 2 THEN 2 ELSE delivered[n] + 1
      BY <1>0, <1>1 DEF Arrives, TypeOK
    <3> QED
      BY <3>1, <3>2
  <2> QED
    BY <2>1, <2>2
<1> QED
  BY <1>1, <1>4, <1>5, <1>6, <1>7 DEF WorkerOK, Tried

LEMMA WorkersStep ==
  ASSUME IInv, Next, NEW j \in Workers
  PROVE  WorkerOK(j)'
<1>0. TypeOK
  BY DEF IInv
<1>1. CASE UNCHANGED <<step, current, loaded, left>>
  BY <1>1, OtherWorkers
<1>2. ASSUME NEW k \in Workers, Query(k) PROVE WorkerOK(j)'
  <2>1. CASE j = k
    <3>1. step'[j] = "next"
      BY <1>0, <1>2, <2>1 DEF Query, Goto, TypeOK
    <3> QED
      BY <3>1 DEF WorkerOK, Delivering
  <2>2. CASE j # k
    BY <1>0, <1>2, <2>2, OtherWorkers DEF Query, Goto, TypeOK
  <2> QED
    BY <2>1, <2>2
<1>3. ASSUME NEW k \in Workers, StartRow(k) PROVE WorkerOK(j)'
  <2>1. CASE j = k
    <3>1. step'[j] = "post" /\ left'[j] = ProviderTries /\ current'[j] \in todo[j]
      BY <1>0, <1>3, <2>1 DEF StartRow, Goto, TypeOK
    <3>2. current'[j] \in Notes
      BY <1>0, <3>1 DEF TypeOK
    <3> QED
      BY <3>1, <3>2 DEF WorkerOK, Delivering
  <2>2. CASE j # k
    BY <1>0, <1>3, <2>2, OtherWorkers DEF StartRow, Goto, TypeOK
  <2> QED
    BY <2>1, <2>2
<1>4. ASSUME NEW k \in Workers, Post(k) PROVE WorkerOK(j)'
  <2>1. CASE j = k
    BY <1>4, <2>1, PostStep
  <2>2. CASE j # k
    BY <1>0, <1>4, <2>2, OtherWorkers DEF Post, Goto, TypeOK
  <2> QED
    BY <2>1, <2>2
<1>5. ASSUME NEW k \in Workers, NEW s \in {"idle", "next"}, step' = [step EXCEPT ![k] = s],
             current' = [current EXCEPT ![k] = NoNote],
             loaded' = [loaded EXCEPT ![k] = NothingLoaded], left' = [left EXCEPT ![k] = 0]
      PROVE  WorkerOK(j)'
  <2>1. CASE j = k
    <3>1. step'[j] \in {"idle", "next"}
      BY <1>0, <1>5, <2>1 DEF TypeOK
    <3> QED
      BY <3>1 DEF WorkerOK, Delivering
  <2>2. CASE j # k
    BY <1>0, <1>5, <2>2, OtherWorkers DEF TypeOK
  <2> QED
    BY <2>1, <2>2
<1>6. ASSUME NEW k \in Workers, NEW status, NEW tries, NEW due, Commit(k, status, tries, due)
      PROVE  WorkerOK(j)'
  <2>1. (IF todo[k] = {current[k]} THEN "idle" ELSE "next") \in {"idle", "next"}
    OBVIOUS
  <2> QED
    BY <1>5, <1>6, <2>1 DEF Commit, Goto
<1>7. ASSUME NEW k \in Workers, Succeed(k) \/ Fail(k) PROVE WorkerOK(j)'
  BY <1>6, <1>7 DEF Succeed, Fail
<1>8. ASSUME NEW k \in Workers, WorkerDies(k) PROVE WorkerOK(j)'
  BY <1>5, <1>8 DEF WorkerDies, Goto
<1> QED
  BY <1>1, <1>2, <1>3, <1>4, <1>7, <1>8 DEF Next, Deliver, Enqueue, BackoffPasses

-----------------------------------------------------------------------------
(* The theorems *)

LEMMA StepInv == IInv /\ [Next]_vars => IInv'
<1>1. ASSUME IInv, Next PROVE IInv'
  BY <1>1, TypeStep, TablesStep, WorkersStep DEF IInv
<1>2. ASSUME IInv, UNCHANGED vars PROVE IInv'
  BY <1>2 DEF IInv, vars, TypeOK, SentWasDelivered, FailedWasTried, CountsOK, Tried, WorkerOK
<1> QED
  BY <1>1, <1>2

LEMMA InvHolds == Spec => []IInv
BY InitInv, StepInv, PTL DEF Spec

\* The rows, the sessions of the workers and the histories keep their types, for
\* any number of replies, workers and attempts and any faults.
THEOREM OutboxTypeCorrect == Spec => []TypeOK
<1>1. IInv => TypeOK
  BY DEF IInv
<1> QED
  BY <1>1, InvHolds, PTL

\* deliver_pending marks no reply sent that has not reached the provider, with
\* any number of workers on the same rows, crashes and lost responses.
THEOREM SentReached == Spec => []SentWasDelivered
<1>1. IInv => SentWasDelivered
  BY DEF IInv
<1> QED
  BY <1>1, InvHolds, PTL

\* deliver_pending gives no reply up before outbox_max_attempts attempts, although
\* workers overwrite each other's retry_count.
THEOREM GivenUpTried == Spec => []FailedWasTried
<1>1. IInv => FailedWasTried
  BY DEF IInv
<1> QED
  BY <1>1, InvHolds, PTL

-----------------------------------------------------------------------------
(* A second invariant: who holds which row *)

Few == Cardinality(crew) <= 2

\* A session will use what it has read of this row without reading it again.
InForce(k, n) ==
  /\ n \in todo[k]
  /\ (step[k] \in Delivering /\ current[k] = n) \/ (step[k] = "next" /\ ~expired[k])

\* Only a worker of the crew holds rows, and only rows that exist.
CrewOK ==
  /\ \A k \in Workers :
       /\ k \notin crew => step[k] = "idle"
       /\ step[k] = "idle" => todo[k] = {}
       /\ step[k] \in Delivering => current[k] \in todo[k]
       /\ \A n \in todo[k] : row[n].status # "absent"
  /\ \A n \in Notes : row[n].status = "absent" => row[n].tries = 0

\* A row is final because somebody committed it, who holds it no longer: of two
\* workers at most one can touch it again, and then nobody.
HeldOK ==
  Few => \A n \in Notes :
    /\ Final(n) => \E j \in crew : n \notin todo[j]
    /\ row[n].tries >= MaxAttempts => Final(n)
    /\ row[n].tries <= MaxAttempts + 1
    /\ row[n].tries > MaxAttempts => ~Alone /\ \A k \in Workers : n \notin todo[k]

\* What a session read as final still is, and of one worker everything it read.
LoadedOK ==
  Few => \A k \in Workers, n \in Notes : InForce(k, n) =>
    /\ loaded[k][n].tries >= MaxAttempts => loaded[k][n].status \in {"sent", "failed"}
    /\ Alone \/ loaded[k][n].status \in {"sent", "failed"}
         => loaded[k][n].status = row[n].status /\ loaded[k][n].tries = row[n].tries

\* A reply that has arrived is marked sent, or about to be.
OnceOK ==
  Alone /\ faults \cap {"crash", "lost_response"} = {} => \A n \in Notes :
    /\ delivered[n] <= 1
    /\ delivered[n] > 0
         => row[n].status = "sent" \/ \E k \in crew : step[k] = "succeeded" /\ current[k] = n

\* The attempt under way has been made.
Posted(n) ==
  \E k \in crew :
    /\ current[k] = n
    /\ (step[k] = "post" /\ left[k] < ProviderTries) \/ step[k] \in {"succeeded", "raised"}

\* One worker counts every attempt but the one under way.
TriesOK ==
  Alone /\ "crash" \notin faults => \A n \in Notes :
    /\ attempts[n] <= MaxAttempts
    /\ ~Final(n) => attempts[n] <= row[n].tries + IF Posted(n) THEN 1 ELSE 0

HInv == CrewOK /\ HeldOK /\ LoadedOK /\ OnceOK /\ TriesOK

LEMMA SecondInit == Init => HInv
<1> SUFFICES ASSUME Init PROVE HInv
  OBVIOUS
<1>1. /\ \A n \in Notes : row[n].status = "absent" /\ row[n].tries = 0
      /\ \A k \in Workers : step[k] = "idle" /\ todo[k] = {}
      /\ \A n \in Notes : attempts[n] = 0 /\ delivered[n] = 0
  BY DEF Init, NoRow
<1>2. CrewOK
  BY <1>1 DEF CrewOK, Delivering
<1>3. HeldOK
  BY <1>1 DEF HeldOK, Final
<1>4. LoadedOK
  BY <1>1 DEF LoadedOK, InForce
<1>5. OnceOK
  BY <1>1 DEF OnceOK
<1>6. TriesOK
  BY <1>1 DEF TriesOK, Final, Posted
<1> QED
  BY <1>2, <1>3, <1>4, <1>5, <1>6 DEF HInv

\* A crew of one, a crew of two.
LEMMA One ==
  ASSUME TypeOK, Alone, NEW j \in crew, NEW k \in crew
  PROVE  j = k
<1>1. IsFiniteSet(crew)
  BY FS_Subset DEF TypeOK
<1>2. PICK x : crew = {x}
  BY <1>1, FS_Singleton DEF Alone
<1> QED
  BY <1>2

LEMMA Two ==
  ASSUME TypeOK, Few, NEW i \in crew, NEW j \in crew, NEW k \in crew, i # j
  PROVE  k \in {i, j}
<1>1. SUFFICES ASSUME k \notin {i, j} PROVE FALSE
  OBVIOUS
<1>2. IsFiniteSet(crew)
  BY FS_Subset DEF TypeOK
<1>3. IsFiniteSet({i}) /\ Cardinality({i}) = 1
  BY FS_Singleton
<1>4. IsFiniteSet({i} \cup {j}) /\ Cardinality({i} \cup {j}) = 2
  BY <1>3, FS_AddElement, SMTT(20)
<1> DEFINE S == {i} \cup {j}
<1>5. IsFiniteSet(S) /\ Cardinality(S) = 2 /\ k \notin S /\ S \subseteq crew
  BY <1>1, <1>4
<1> HIDE DEF S
<1>6. Cardinality(S \cup {k}) = Cardinality(S) + 1
  BY <1>5, FS_AddElement
<1>7. S \cup {k} \subseteq crew
  BY <1>5
<1>8. Cardinality(S \cup {k}) <= Cardinality(crew) /\ Cardinality(crew) \in Nat
  BY <1>2, <1>7, FS_Subset, FS_CardinalityType
<1> DEFINE c == Cardinality(crew)
           d == Cardinality(S \cup {k})
<1>9. c \in Nat /\ c <= 2 /\ d = 3 /\ d <= c
  BY <1>5, <1>6, <1>8 DEF Few
<1> HIDE DEF c, d
<1> QED
  BY <1>9

LEMMA AloneFew == Alone => Few
BY DEF Alone, Few

LEMMA Holder ==
  ASSUME TypeOK, CrewOK, NEW k \in Workers, NEW n, n \in todo[k]
  PROVE  k \in crew /\ step[k] # "idle" /\ n \in Notes /\ row[n].status # "absent"
BY DEF TypeOK, CrewOK

\* What two workers hold, or the only one, is not final.
LEMMA HeldByTwo ==
  ASSUME TypeOK, CrewOK, HeldOK, Few, NEW j \in Workers, NEW k \in Workers, j # k,
         NEW n, n \in todo[j], n \in todo[k]
  PROVE  ~Final(n)
<1>1. j \in crew /\ k \in crew /\ n \in Notes
  BY Holder
<1>2. ASSUME NEW i \in crew, n \notin todo[i] PROVE FALSE
  BY <1>1, <1>2, Two
<1> QED
  BY <1>1, <1>2 DEF HeldOK

LEMMA HeldByOne ==
  ASSUME TypeOK, CrewOK, HeldOK, Alone, NEW k \in Workers, NEW n, n \in todo[k]
  PROVE  ~Final(n)
<1>1. k \in crew /\ n \in Notes
  BY Holder
<1>2. ASSUME NEW i \in crew, n \notin todo[i] PROVE FALSE
  BY <1>1, <1>2, One
<1> QED
  BY <1>1, <1>2, AloneFew DEF HeldOK

-----------------------------------------------------------------------------
(* The second invariant, step by step *)

\* Enqueue and BackoffPasses: no session moves, no row is or becomes final.
LEMMA PrepareStep ==
  ASSUME IInv, HInv, TypeOK', NEW n \in Notes, Enqueue(n) \/ BackoffPasses(n)
  PROVE  HInv'
<1>0. TypeOK /\ CrewOK /\ HeldOK /\ LoadedOK /\ OnceOK /\ TriesOK
  BY DEF IInv, HInv
<1>1. UNCHANGED <<crew, faults, step, todo, current, loaded, expired, left, attempts, delivered>>
  BY DEF Enqueue, BackoffPasses
<1>2. ASSUME NEW m \in Notes
      PROVE  /\ row'[m].tries = row[m].tries
             /\ \/ row'[m].status = row[m].status
                \/ row[m].status = "absent" /\ row'[m].status = "pending"
  <2>1. CASE Enqueue(n)
    <3>1. row'[m] = IF m = n THEN [status |-> "pending", tries |-> 0, due |-> TRUE] ELSE row[m]
      BY <1>0, <2>1 DEF Enqueue, TypeOK
    <3>2. row[n].status = "absent" /\ row[n].tries = 0
      BY <1>0, <2>1 DEF Enqueue, CrewOK
    <3> QED
      BY <3>1, <3>2
  <2>2. CASE BackoffPasses(n)
    <3>1. row[m] \in Row
      BY <1>0 DEF TypeOK
    <3>2. row'[m] = IF m = n THEN [row[m] EXCEPT !.due = TRUE] ELSE row[m]
      BY <1>0, <2>2 DEF BackoffPasses, TypeOK
    <3> QED
      BY <3>1, <3>2 DEF Row
  <2> QED
    BY <2>1, <2>2
<1>3. \A m \in Notes : Final(m)' <=> Final(m)
  BY <1>2 DEF Final
<1>4. \A k \in Workers, m \in Notes : m \in todo[k] => row'[m].status = row[m].status
  BY <1>0, <1>2, Holder
<1>5. CrewOK'
  <2>1. ASSUME NEW k \in Workers, NEW m \in todo[k] PROVE row'[m].status # "absent"
    <3>1. m \in Notes /\ row[m].status # "absent"
      BY <1>0, <2>1, Holder
    <3> QED
      BY <1>4, <2>1, <3>1
  <2>2. \A m \in Notes : row'[m].status = "absent" => row'[m].tries = 0
    BY <1>0, <1>2 DEF CrewOK
  <2> QED
    BY <1>0, <1>1, <2>1, <2>2 DEF CrewOK, Delivering
<1>6. HeldOK'
  BY <1>0, <1>1, <1>2, <1>3 DEF HeldOK, Few, Alone
<1>7. LoadedOK'
  BY <1>0, <1>1, <1>2, <1>4 DEF LoadedOK, Few, Alone, InForce, Delivering
<1>8. OnceOK'
  BY <1>0, <1>1, <1>2 DEF OnceOK, Alone
<1>9. TriesOK'
  <2>1. ASSUME NEW m \in Notes PROVE Posted(m)' <=> Posted(m)
    BY <1>1 DEF Posted
  <2>2. (Alone /\ "crash" \notin faults)' <=> Alone /\ "crash" \notin faults
    BY <1>1 DEF Alone
  <2>3. ASSUME NEW m \in Notes, Alone, "crash" \notin faults
        PROVE  /\ attempts'[m] <= MaxAttempts
               /\ ~Final(m)' => attempts'[m] <= row'[m].tries + IF Posted(m)' THEN 1 ELSE 0
    BY <1>0, <1>1, <1>2, <1>3, <2>1, <2>3 DEF TriesOK
  <2> QED
    BY <2>2, <2>3 DEF TriesOK
<1> QED
  BY <1>5, <1>6, <1>7, <1>8, <1>9 DEF HInv

\* Steps of a worker k that change no row: k holds what it held, or rows of a
\* query, or nothing; what is in force for it is as the table has it.
LEMMA SessionStep ==
  ASSUME IInv, HInv, NEW k \in Workers, UNCHANGED <<crew, faults, row>>,
         \A j \in Workers : j # k =>
           /\ step'[j] = step[j] /\ todo'[j] = todo[j] /\ current'[j] = current[j]
           /\ loaded'[j] = loaded[j] /\ expired'[j] = expired[j],
         k \in crew,
         todo'[k] \subseteq todo[k] \/ todo'[k] \subseteq Due,
         step'[k] = "idle" => todo'[k] = {},
         step'[k] \in Delivering => current'[k] \in todo'[k],
         \A n \in Notes : InForce(k, n)' =>
           \/ InForce(k, n) /\ loaded'[k][n] = loaded[k][n]
           \/ loaded'[k][n].status = row[n].status /\ loaded'[k][n].tries = row[n].tries
  PROVE  CrewOK' /\ HeldOK' /\ LoadedOK'
<1>0. TypeOK /\ CrewOK /\ HeldOK /\ LoadedOK
  BY DEF IInv, HInv
<1>1. ASSUME NEW n \in Notes, Final(n), n \in todo'[k] PROVE n \in todo[k]
  BY <1>1 DEF Due, Final
<1>2. ASSUME NEW n \in todo'[k] PROVE n \in Notes /\ row[n].status # "absent"
  BY <1>0, <1>2, Holder DEF Due
<1>3. CrewOK'
  BY <1>0, <1>2 DEF CrewOK
<1>4. HeldOK'
  <2> SUFFICES ASSUME Few, NEW n \in Notes
               PROVE  /\ Final(n) => \E j \in crew : n \notin todo'[j]
                      /\ row[n].tries > MaxAttempts => \A j \in Workers : n \notin todo'[j]
    BY <1>0 DEF HeldOK, Few, Alone, Final
  <2>1. Final(n) => \E j \in crew : n \notin todo'[j]
    <3>1. crew \subseteq Workers
      BY <1>0 DEF TypeOK
    <3> QED
      BY <1>0, <1>1, <3>1 DEF HeldOK
  <2>2. ASSUME row[n].tries > MaxAttempts, NEW j \in Workers PROVE n \notin todo'[j]
    <3>1. n \notin todo[j] /\ row[n].tries \in Nat
      BY <1>0, <2>2, TriesTyped DEF HeldOK
    <3>2. Final(n)
      BY <1>0, <2>2, <3>1 DEF HeldOK
    <3> QED
      BY <1>1, <3>1, <3>2
  <2> QED
    BY <2>1, <2>2
<1>5. LoadedOK'
  <2> SUFFICES ASSUME Few, NEW j \in Workers, NEW n \in Notes, InForce(j, n)'
               PROVE  /\ loaded'[j][n].tries >= MaxAttempts
                           => loaded'[j][n].status \in {"sent", "failed"}
                      /\ Alone \/ loaded'[j][n].status \in {"sent", "failed"}
                           => /\ loaded'[j][n].status = row[n].status
                              /\ loaded'[j][n].tries = row[n].tries
    BY DEF LoadedOK, Few, Alone
  <2>1. CASE InForce(j, n) /\ loaded'[j][n] = loaded[j][n]
    BY <1>0, <2>1 DEF LoadedOK
  <2>2. CASE loaded'[j][n].status = row[n].status /\ loaded'[j][n].tries = row[n].tries
    BY <1>0, <2>2 DEF HeldOK, Final
  <2>3. CASE j # k
    BY <2>1, <2>3 DEF InForce
  <2> QED
    BY <2>1, <2>2, <2>3
<1> QED
  BY <1>3, <1>4, <1>5

LEMMA QueryStep ==
  ASSUME IInv, HInv, TypeOK', NEW k \in Workers, Query(k)
  PROVE  HInv'
<1>0. TypeOK /\ CrewOK /\ OnceOK /\ TriesOK
  BY DEF IInv, HInv
<1>1. PICK S \in SUBSET Due : todo' = [todo EXCEPT ![k] = S] /\ loaded' = [loaded EXCEPT ![k] = Read(S)]
  BY DEF Query
<1>2. /\ todo'[k] = S /\ loaded'[k] = Read(S) /\ step'[k] = "next" /\ step[k] = "idle"
      /\ k \in crew
      /\ \A j \in Workers : j # k =>
           step'[j] = step[j] /\ todo'[j] = todo[j] /\ loaded'[j] = loaded[j]
  BY <1>0, <1>1 DEF Query, Goto, TypeOK
<1>3. UNCHANGED <<crew, faults, row, current, expired, left, attempts, delivered>>
  BY DEF Query
<1>4. \A n \in Notes : InForce(k, n)' =>
        loaded'[k][n].status = row[n].status /\ loaded'[k][n].tries = row[n].tries
  BY <1>2 DEF InForce, Read
<1>5. CrewOK' /\ HeldOK' /\ LoadedOK'
  <2>1. step'[k] \notin Delivering /\ step'[k] # "idle" /\ todo'[k] \subseteq Due
    BY <1>2 DEF Delivering
  <2> QED
    BY <1>2, <1>3, <1>4, <2>1, SessionStep
<1>6. OnceOK'
  BY <1>0, <1>2, <1>3 DEF OnceOK, Alone, TypeOK
<1>7. TriesOK'
  <2>1. \A n \in Notes : Posted(n)' <=> Posted(n)
    BY <1>0, <1>2, <1>3 DEF Posted, TypeOK
  <2> QED
    BY <1>0, <1>3, <2>1 DEF TriesOK, Alone, Final
<1> QED
  BY <1>5, <1>6, <1>7 DEF HInv

LEMMA StartStep ==
  ASSUME IInv, HInv, TypeOK', NEW k \in Workers, StartRow(k)
  PROVE  HInv'
<1>0. TypeOK /\ CrewOK /\ OnceOK /\ TriesOK
  BY DEF IInv, HInv
<1>1. PICK n \in todo[k] : current' = [current EXCEPT ![k] = n]
  BY DEF StartRow
<1>2. /\ current'[k] = n /\ step'[k] = "post" /\ step[k] = "next" /\ left'[k] = ProviderTries
      /\ loaded'[k] = IF expired[k] THEN Read(todo[k]) ELSE loaded[k]
      /\ \A j \in Workers : j # k => /\ step'[j] = step[j] /\ current'[j] = current[j]
                                     /\ loaded'[j] = loaded[j] /\ left'[j] = left[j]
  BY <1>0, <1>1 DEF StartRow, Goto, TypeOK
<1>3. UNCHANGED <<crew, faults, row, todo, expired, attempts, delivered>>
  BY DEF StartRow
<1>h. k \in crew
  BY <1>0, <1>1, Holder
<1>4. ASSUME NEW m \in Notes, InForce(k, m)'
      PROVE  \/ InForce(k, m) /\ loaded'[k][m] = loaded[k][m]
             \/ loaded'[k][m].status = row[m].status /\ loaded'[k][m].tries = row[m].tries
  <2>1. m \in todo[k]
    BY <1>3, <1>4 DEF InForce
  <2>2. CASE expired[k]
    BY <1>2, <2>1, <2>2 DEF Read
  <2>3. CASE ~expired[k]
    BY <1>2, <2>1, <2>3 DEF InForce
  <2> QED
    BY <2>2, <2>3
<1>5. CrewOK' /\ HeldOK' /\ LoadedOK'
  <2>1. step'[k] # "idle" /\ current'[k] \in todo'[k] /\ todo'[k] \subseteq todo[k]
    BY <1>1, <1>2, <1>3
  <2> QED
    BY <1>2, <1>3, <1>4, <1>h, <2>1, SessionStep
<1>6. OnceOK'
  BY <1>0, <1>2, <1>3 DEF OnceOK, Alone, TypeOK
<1>7. TriesOK'
  <2>1. \A m \in Notes : Alone => ~Posted(m)
    BY <1>0, <1>2, <1>h, One DEF Posted
  <2>2. ASSUME Alone, "crash" \notin faults, NEW m \in Notes, ~Final(m)
        PROVE  attempts[m] <= row[m].tries + IF Posted(m)' THEN 1 ELSE 0
    <3>1. attempts[m] <= row[m].tries /\ row[m].tries \in Nat /\ attempts[m] \in Nat
      <4>1. attempts[m] <= row[m].tries + 0 /\ row[m].tries \in Nat
        BY <1>0, <2>1, <2>2, TriesTyped DEF TriesOK
      <4>2. attempts[m] \in 0..MaxAttempts + 1
        BY <1>0 DEF TypeOK
      <4> QED
        BY <4>1, <4>2
    <3> QED
      BY <3>1
  <2> QED
    BY <1>0, <1>3, <2>2 DEF TriesOK, Alone, Final
<1> QED
  BY <1>5, <1>6, <1>7 DEF HInv

LEMMA DiesStep ==
  ASSUME IInv, HInv, TypeOK', NEW k \in Workers, WorkerDies(k)
  PROVE  HInv'
<1>0. TypeOK /\ CrewOK /\ OnceOK /\ TriesOK
  BY DEF IInv, HInv
<1>1. /\ step'[k] = "idle" /\ todo'[k] = {} /\ k \in crew
      /\ \A j \in Workers : j # k =>
           /\ step'[j] = step[j] /\ todo'[j] = todo[j] /\ current'[j] = current[j]
           /\ loaded'[j] = loaded[j] /\ expired'[j] = expired[j]
  BY <1>0 DEF WorkerDies, Goto, TypeOK, CrewOK
<1>2. UNCHANGED <<crew, faults, row, attempts, delivered>> /\ "crash" \in faults
  BY DEF WorkerDies
<1>3. CrewOK' /\ HeldOK' /\ LoadedOK'
  <2>1. step'[k] \notin Delivering /\ todo'[k] \subseteq todo[k] /\ \A n \in Notes : ~InForce(k, n)'
    BY <1>1 DEF Delivering, InForce
  <2> QED
    BY <1>1, <1>2, <2>1, SessionStep
<1>4. OnceOK' /\ TriesOK'
  BY <1>2 DEF OnceOK, TriesOK
<1> QED
  BY <1>3, <1>4 DEF HInv

\* One worker posts what has not arrived yet, and has an attempt left for it.
LEMMA HeldPostStep ==
  ASSUME IInv, HInv, TypeOK', NEW k \in Workers, Post(k)
  PROVE  HInv'
<1> DEFINE n == current[k]
<1>0. TypeOK /\ CrewOK /\ HeldOK /\ LoadedOK /\ OnceOK /\ TriesOK /\ WorkerOK(k)
  BY DEF IInv, HInv
<1>1. step[k] = "post" /\ n \in todo[k] /\ n \in Notes /\ k \in crew
  BY <1>0, Holder DEF Post, CrewOK, Delivering
<1>2. UNCHANGED <<crew, faults, row, todo, current, loaded, expired>>
  BY DEF Post
<1>3. /\ step'[k] \in Delivering
      /\ \A j \in Workers : j # k => step'[j] = step[j] /\ left'[j] = left[j]
  BY <1>0 DEF Post, Goto, TypeOK, Delivering
<1>4. CrewOK' /\ HeldOK' /\ LoadedOK'
  <2>1. step'[k] # "idle" /\ current'[k] \in todo'[k] /\ todo'[k] \subseteq todo[k]
    BY <1>1, <1>2, <1>3 DEF Delivering
  <2>2. \A m \in Notes : InForce(k, m)' => InForce(k, m) /\ loaded'[k][m] = loaded[k][m]
    BY <1>1, <1>2, <1>3 DEF InForce, Delivering
  <2> QED
    BY <1>1, <1>2, <1>3, <2>1, <2>2, SessionStep
<1>5. ASSUME Alone PROVE ~Final(n)
  BY <1>0, <1>1, <1>5, HeldByOne
<1>6. OnceOK'
  <2> SUFFICES ASSUME Alone, faults \cap {"crash", "lost_response"} = {}, NEW m \in Notes
               PROVE  /\ delivered'[m] <= 1
                      /\ delivered'[m] > 0
                           => \/ row[m].status = "sent"
                              \/ \E j \in crew : step'[j] = "succeeded" /\ current[j] = m
    BY <1>2 DEF OnceOK, Alone
  <2>1. delivered[n] = 0
    <3>1. \A j \in crew : step[j] = "post"
      BY <1>0, <1>1, One
    <3>2. ~(delivered[n] > 0)
      BY <1>0, <1>1, <1>5, <3>1 DEF OnceOK, Final
    <3>3. delivered[n] \in 0..2
      BY <1>0, <1>1 DEF TypeOK
    <3> QED
      BY <3>2, <3>3
  <2>2. UNCHANGED delivered \/ (Arrives(n) /\ step'[k] = "succeeded")
    BY <1>0 DEF Post, Goto, TypeOK
  <2>3. CASE m = n
    <3>1. UNCHANGED delivered => delivered'[m] = 0
      BY <2>1, <2>3
    <3>2. Arrives(n) => delivered'[m] = 1
      BY <1>0, <1>1, <2>1, <2>3 DEF Arrives, TypeOK
    <3>3. delivered'[m] = 0 \/ (delivered'[m] = 1 /\ step'[k] = "succeeded")
      BY <2>2, <3>1, <3>2
    <3> QED
      BY <1>1, <2>3, <3>3
  <2>4. CASE m # n
    <3>1. delivered'[m] = delivered[m]
      BY <1>0, <2>2, <2>4 DEF Arrives, TypeOK
    <3>2. \A j \in crew : ~(step[j] = "succeeded" /\ current[j] = m)
      BY <1>1, <2>4, One, <1>0
    <3> QED
      BY <1>0, <3>1, <3>2 DEF OnceOK
  <2> QED
    BY <2>3, <2>4
<1>7. TriesOK'
  <2> SUFFICES ASSUME Alone, "crash" \notin faults, NEW m \in Notes
               PROVE  /\ attempts'[m] <= MaxAttempts
                      /\ ~Final(m) => attempts'[m] <= row[m].tries + IF Posted(m)' THEN 1 ELSE 0
    BY <1>2 DEF TriesOK, Alone, Final
  <2>1. /\ attempts[m] <= MaxAttempts
        /\ ~Final(m) => attempts[m] <= row[m].tries + IF Posted(m) THEN 1 ELSE 0
    BY <1>0 DEF TriesOK
  <2>2. row[m].tries \in Nat /\ attempts[m] \in Nat
    <3>1. attempts[m] \in 0..MaxAttempts + 1
      BY <1>0 DEF TypeOK
    <3>2. attempts[m] \in Nat
      BY <3>1
    <3> QED
      BY <1>0, <3>2, TriesTyped
  <2>3. CASE m = n
    <3>1. Posted(m)'
      <4>1. left[k] \in 0..ProviderTries /\ left[k] > 0 /\ ProviderTries \in Nat
        BY <1>0, <1>1 DEF WorkerOK, TypeOK
      <4>2. step'[k] = "post" => left'[k] < ProviderTries
        <5>1. step'[k] = "post" => left'[k] = left[k] - 1
          BY <1>0 DEF Post, Goto, Again, TypeOK
        <5> QED
          BY <4>1, <5>1
      <4> QED
        BY <1>1, <1>2, <1>3, <2>3, <4>2 DEF Posted, Delivering
    <3>2. CASE left[k] < ProviderTries
      <4>1. attempts'[m] = attempts[m]
        BY <1>0, <1>1, <2>3, <3>2 DEF Post, TypeOK
      <4>2. Posted(m)
        BY <1>1, <2>3, <3>2 DEF Posted
      <4> QED
        BY <2>1, <3>1, <4>1, <4>2
    <3>3. CASE ~(left[k] < ProviderTries)
      <4>1. attempts'[m] = IF attempts[m] > MaxAttempts THEN attempts[m] ELSE attempts[m] + 1
        BY <1>0, <1>1, <2>3, <3>3 DEF Post, TypeOK
      <4>2. ~Posted(m)
        BY <1>0, <1>1, <2>3, <3>3, One DEF Posted
      <4>3. ~Final(m) /\ ~(row[m].tries >= MaxAttempts)
        BY <1>0, <1>5, <2>3, AloneFew DEF HeldOK
      <4>4. attempts[m] <= row[m].tries
        <5>1. attempts[m] <= row[m].tries + 0
          BY <2>1, <4>2, <4>3
        <5> QED
          BY <2>2, <5>1
      <4> QED
        BY <2>2, <3>1, <4>1, <4>3, <4>4
    <3> QED
      BY <3>2, <3>3
  <2>4. CASE m # n
    <3>1. attempts'[m] = attempts[m]
      BY <1>0, <1>1, <2>4 DEF Post, TypeOK
    <3>2. ~Posted(m)
      BY <1>0, <1>1, <2>4, One DEF Posted
    <3>3. ~Final(m) => attempts[m] <= row[m].tries + 0
      BY <2>1, <3>2
    <3> QED
      BY <2>1, <2>2, <3>1, <3>3
  <2> QED
    BY <2>3, <2>4
<1> QED
  BY <1>4, <1>6, <1>7 DEF HInv

\* What a commit leaves behind.  A row is final then, or one that has attempts
\* left; the count goes beyond the limit only if the row was final before.
Closes(k) ==
  LET n == current[k]
      ended == row'[n].status \in {"sent", "failed"}
  IN
  /\ Few =>
       /\ ended \/ row'[n].tries < MaxAttempts
       /\ row'[n].tries > MaxAttempts => row'[n].tries = MaxAttempts + 1 /\ ended /\ Final(n)
  /\ Alone => /\ ended \/ row'[n].tries = row[n].tries + 1
              /\ step[k] = "succeeded" => row'[n].status = "sent"
  /\ row'[n].status # "absent"

LEMMA CommitCloses ==
  ASSUME IInv, HInv, NEW k \in Workers, Succeed(k) \/ Fail(k)
  PROVE  Closes(k)
<1> DEFINE n == current[k]
           st == row[n].status
           tr == row[n].tries
           os == loaded[k][n].status
           ot == loaded[k][n].tries
           rs == row'[n].status
           rt == row'[n].tries
<1>0. TypeOK /\ CrewOK /\ HeldOK /\ LoadedOK
  BY DEF IInv, HInv
<1>1. n \in todo[k] /\ n \in Notes /\ k \in crew /\ InForce(k, n)
  BY <1>0, Holder DEF Succeed, Fail, CrewOK, Delivering, InForce
<1>2. st # "absent" /\ tr \in Nat /\ ot \in Nat
  BY <1>0, <1>1, Holder, TriesTyped
<1>3. Few => /\ ot >= MaxAttempts => os \in {"sent", "failed"}
             /\ Alone \/ os \in {"sent", "failed"} => os = st /\ ot = tr
  BY <1>0, <1>1 DEF LoadedOK
<1>4. Few => tr <= MaxAttempts /\ (tr >= MaxAttempts => st \in {"sent", "failed"})
  <2>1. Few => ~(tr > MaxAttempts) /\ (tr >= MaxAttempts => st \in {"sent", "failed"})
    BY <1>0, <1>1 DEF HeldOK, Final
  <2> HIDE DEF tr, st
  <2> QED
    BY <1>2, <2>1
<1>5. \/ /\ step[k] = "succeeded"
         /\ rt = tr /\ rs = IF "sent" = os THEN st ELSE "sent"
      \/ /\ step[k] = "raised" /\ rt = ot + 1
         /\ \/ ot + 1 >= MaxAttempts /\ rs = IF "failed" = os THEN st ELSE "failed"
            \/ ot + 1 < MaxAttempts /\ rs = IF "pending_retry" = os THEN st ELSE "pending_retry"
  <2>1. ASSUME NEW status, NEW tries, NEW due, Commit(k, status, tries, due)
        PROVE  /\ rs = IF status = os THEN st ELSE status
               /\ rt = IF tries = ot THEN tr ELSE tries
    BY <1>0, <1>1, <2>1 DEF Commit, TypeOK
  <2>2. CASE Succeed(k)
    <3>1. step[k] = "succeeded" /\ Commit(k, "sent", ot, row[n].due)
      BY <2>2 DEF Succeed
    <3> QED
      BY <2>1, <3>1
  <2>3. CASE Fail(k)
    <3>1. /\ step[k] = "raised"
          /\ \/ ot + 1 >= MaxAttempts /\ Commit(k, "failed", ot + 1, row[n].due)
             \/ ot + 1 < MaxAttempts /\ Commit(k, "pending_retry", ot + 1, FALSE)
      BY <2>3 DEF Fail
    <3>2. ot + 1 # ot
      BY <1>2
    <3>3. CASE ot + 1 >= MaxAttempts /\ Commit(k, "failed", ot + 1, row[n].due)
      BY <2>1, <3>1, <3>2, <3>3
    <3>4. CASE ot + 1 < MaxAttempts /\ Commit(k, "pending_retry", ot + 1, FALSE)
      BY <2>1, <3>1, <3>2, <3>4
    <3> QED
      BY <3>1, <3>3, <3>4
  <2> QED
    BY <2>2, <2>3
<1>6. /\ Few =>
           /\ rs \in {"sent", "failed"} \/ rt < MaxAttempts
           /\ rt > MaxAttempts =>
                rt = MaxAttempts + 1 /\ rs \in {"sent", "failed"} /\ st \in {"sent", "failed"}
      /\ Alone => /\ rs \in {"sent", "failed"} \/ rt = tr + 1
                  /\ step[k] = "succeeded" => rs = "sent"
      /\ rs # "absent"
  <2> HIDE DEF st, tr, os, ot, rs, rt
  <2> QED
    BY <1>2, <1>3, <1>4, <1>5, AloneFew
<1> QED
  BY <1>6 DEF Closes, Final

\* A commit: the worker lets go of the row, and of two nobody holds it both times.
LEMMA CloseStep ==
  ASSUME IInv, HInv, NEW k \in Workers, Succeed(k) \/ Fail(k)
  PROVE  HInv'
<1> DEFINE n == current[k]
<1>0. TypeOK /\ CrewOK /\ HeldOK /\ LoadedOK /\ OnceOK /\ TriesOK /\ Closes(k)
  BY CommitCloses DEF IInv, HInv
<1>1. n \in todo[k] /\ n \in Notes /\ k \in crew /\ step[k] \in {"succeeded", "raised"}
  BY <1>0, Holder DEF Succeed, Fail, CrewOK, Delivering
<1>2. PICK status, tries, due : Commit(k, status, tries, due)
  BY DEF Succeed, Fail
<1>3. UNCHANGED <<crew, faults, attempts, delivered>>
  BY <1>2 DEF Commit
<1>4. /\ \A m \in Notes : m # n => row'[m] = row[m]
      /\ todo'[k] = todo[k] \ {n}
      /\ step'[k] = IF todo[k] = {n} THEN "idle" ELSE "next"
      /\ expired'[k] = (todo[k] # {n})
      /\ current'[k] = NoNote
      /\ \A j \in Workers : j # k =>
           /\ step'[j] = step[j] /\ todo'[j] = todo[j] /\ current'[j] = current[j]
           /\ loaded'[j] = loaded[j] /\ expired'[j] = expired[j] /\ left'[j] = left[j]
  BY <1>0, <1>1, <1>2 DEF Commit, Goto, TypeOK
<1>5. step'[k] \in {"idle", "next"} /\ \A m \in Notes : ~InForce(k, m)'
  BY <1>4 DEF InForce, Delivering
<1>6. row'[n].status # "absent"
  BY <1>0 DEF Closes
<1>7. \A m \in Notes : m # n => row'[m] = row[m] /\ (Final(m)' <=> Final(m))
  BY <1>4 DEF Final
<1>8. CrewOK'
  <2>1. ASSUME NEW j \in Workers
        PROVE  /\ j \notin crew => step'[j] = "idle"
               /\ step'[j] = "idle" => todo'[j] = {}
               /\ step'[j] \in Delivering => current'[j] \in todo'[j]
               /\ \A m \in todo'[j] : row'[m].status # "absent"
    <3>1. \A m \in todo'[j] : row'[m].status # "absent"
      <4>1. todo'[j] \subseteq todo[j]
        BY <1>4
      <4>2. \A m \in todo[j] : m \in Notes /\ row[m].status # "absent"
        BY <1>0, Holder
      <4> QED
        BY <1>4, <1>6, <4>1, <4>2
    <3>2. CASE j = k
      BY <1>1, <1>4, <3>1, <3>2 DEF Delivering
    <3>3. CASE j # k
      BY <1>0, <1>4, <3>1, <3>3 DEF CrewOK
    <3> QED
      BY <3>2, <3>3
  <2>2. \A m \in Notes : row'[m].status = "absent" => row'[m].tries = 0
    BY <1>0, <1>4, <1>6 DEF CrewOK
  <2> QED
    BY <1>3, <2>1, <2>2 DEF CrewOK
<1>9. HeldOK'
  <2> SUFFICES ASSUME Few, NEW m \in Notes
               PROVE  /\ Final(m)' => \E j \in crew : m \notin todo'[j]
                      /\ row'[m].tries >= MaxAttempts => Final(m)'
                      /\ row'[m].tries <= MaxAttempts + 1
                      /\ row'[m].tries > MaxAttempts
                           => ~Alone /\ \A j \in Workers : m \notin todo'[j]
    BY <1>3 DEF HeldOK, Few, Alone
  <2>1. CASE m = n
    <3>1. m \notin todo'[k]
      BY <1>4, <2>1
    <3>2. /\ Final(m)' \/ row'[m].tries < MaxAttempts
          /\ row'[m].tries > MaxAttempts
               => row'[m].tries = MaxAttempts + 1 /\ Final(m)' /\ Final(m)
      BY <1>0, <2>1 DEF Closes, Final
    <3>3. ASSUME Final(m) PROVE ~Alone /\ \A j \in Workers : m \notin todo'[j]
      BY <1>0, <1>1, <1>4, <2>1, <3>1, <3>3, HeldByOne, HeldByTwo
    <3>4. row'[m].tries \in Nat
      <4>1. TypeOK'
        BY TypeStep DEF Next, Deliver
      <4>2. row'[m] \in Row
        BY <4>1 DEF TypeOK
      <4> QED
        BY <4>2 DEF Row
    <3>5. /\ row'[m].tries >= MaxAttempts => Final(m)'
          /\ row'[m].tries <= MaxAttempts + 1
      BY <3>2, <3>4
    <3> QED
      BY <1>1, <3>1, <3>2, <3>3, <3>5
  <2>2. CASE m # n
    <3>1. \A j \in Workers : m \in todo'[j] <=> m \in todo[j]
      BY <1>4, <2>2
    <3>2. crew \subseteq Workers
      BY <1>0 DEF TypeOK
    <3> QED
      BY <1>0, <1>7, <2>2, <3>1, <3>2 DEF HeldOK
  <2> QED
    BY <2>1, <2>2
<1>10. LoadedOK'
  <2> SUFFICES ASSUME Few, NEW j \in Workers, NEW m \in Notes, InForce(j, m)'
               PROVE  /\ loaded'[j][m].tries >= MaxAttempts
                           => loaded'[j][m].status \in {"sent", "failed"}
                      /\ Alone \/ loaded'[j][m].status \in {"sent", "failed"}
                           => /\ loaded'[j][m].status = row'[m].status
                              /\ loaded'[j][m].tries = row'[m].tries
    BY <1>3 DEF LoadedOK, Few, Alone
  <2>1. j # k
    BY <1>5
  <2>2. InForce(j, m) /\ loaded'[j] = loaded[j] /\ m \in todo[j]
    BY <1>4, <2>1 DEF InForce
  <2>3. CASE m = n
    <3>1. ~Final(m) /\ ~Alone
      BY <1>0, <1>1, <2>1, <2>2, <2>3, Holder, HeldByTwo, One
    <3> QED
      BY <1>0, <2>2, <3>1 DEF LoadedOK, Final
  <2>4. CASE m # n
    BY <1>0, <1>4, <2>2, <2>4 DEF LoadedOK
  <2> QED
    BY <2>3, <2>4
<1>11. OnceOK'
  <2> SUFFICES ASSUME Alone, faults \cap {"crash", "lost_response"} = {}, NEW m \in Notes,
                      delivered[m] > 0
               PROVE  row'[m].status = "sent"
    BY <1>0, <1>3 DEF OnceOK, Alone
  <2>1. row[m].status = "sent" \/ (step[k] = "succeeded" /\ m = n)
    BY <1>0, <1>1, One DEF OnceOK
  <2>2. ~Final(n)
    BY <1>0, <1>1, HeldByOne
  <2> QED
    BY <1>0, <1>4, <2>1, <2>2 DEF Closes, Final
<1>12. TriesOK'
  <2> SUFFICES ASSUME Alone, "crash" \notin faults, NEW m \in Notes, ~Final(m)'
               PROVE  attempts[m] <= row'[m].tries + IF Posted(m)' THEN 1 ELSE 0
    BY <1>0, <1>3 DEF TriesOK, Alone
  <2>1. ~Posted(m)'
    BY <1>0, <1>1, <1>3, <1>5, One DEF Posted
  <2>2. row[m].tries \in Nat /\ attempts[m] \in Nat
    <3>1. attempts[m] \in 0..MaxAttempts + 1
      BY <1>0 DEF TypeOK
    <3>2. attempts[m] \in Nat
      BY <3>1
    <3> QED
      BY <1>0, <3>2, TriesTyped
  <2>3. CASE m = n
    <3>1. ~Final(m)
      BY <1>0, <1>1, <2>3, HeldByOne
    <3>2. attempts[m] <= row[m].tries + IF Posted(m) THEN 1 ELSE 0
      BY <1>0, <3>1 DEF TriesOK
    <3>3. row'[m].tries = row[m].tries + 1
      BY <1>0, <2>3 DEF Closes, Final
    <3> QED
      BY <2>1, <2>2, <3>2, <3>3
  <2>4. CASE m # n
    <3>1. ~Posted(m)
      BY <1>0, <1>1, <2>4, One DEF Posted
    <3>2. row'[m] = row[m] /\ ~Final(m)
      BY <1>7, <2>4
    <3>3. attempts[m] <= row[m].tries + 0
      BY <1>0, <3>1, <3>2 DEF TriesOK
    <3> QED
      BY <2>1, <3>2, <3>3
  <2> QED
    BY <2>3, <2>4
<1> QED
  BY <1>8, <1>9, <1>10, <1>11, <1>12 DEF HInv

LEMMA SecondStep == ASSUME IInv, HInv, [Next]_vars PROVE HInv'
<1>1. CASE Next
  <2>1. TypeOK'
    BY <1>1, TypeStep
  <2> QED
    BY <1>1, <2>1, PrepareStep, QueryStep, StartStep, HeldPostStep, CloseStep, DiesStep
    DEF Next, Deliver
<1>2. CASE UNCHANGED vars
  BY <1>2 DEF HInv, vars, CrewOK, HeldOK, LoadedOK, OnceOK, TriesOK, Few, Alone, Final, Posted,
              InForce
<1> QED
  BY <1>1, <1>2

LEMMA SecondHolds == Spec => [](IInv /\ HInv)
<1>1. IInv /\ HInv /\ [Next]_vars => (IInv /\ HInv)'
  BY StepInv, SecondStep
<1> QED
  BY <1>1, InitInv, SecondInit, PTL DEF Spec

-----------------------------------------------------------------------------
(* What holds for one worker, and for two *)

\* Unless the worker dies or an answer is lost, deliver_pending posts no reply
\* again that has reached the provider.
THEOREM OnceDelivered == Spec => []DeliveredOnce
<1>1. HInv => DeliveredOnce
  BY DEF HInv, OnceOK, DeliveredOnce
<1> QED
  BY <1>1, SecondHolds, PTL

\* retry_count never passes outbox_max_attempts with one worker, and with two by
\* one at most; one worker makes no more attempts than that.
THEOREM AttemptsEnd == Spec => []AttemptsBounded
<1>1. ASSUME IInv, HInv PROVE AttemptsBounded
  <2> SUFFICES ASSUME NEW n \in Notes
               PROVE  /\ Few => row[n].tries < MaxAttempts + Cardinality(crew)
                      /\ Alone /\ "crash" \notin faults => attempts[n] <= MaxAttempts
    BY DEF AttemptsBounded, Few
  <2>0. TypeOK /\ CrewOK /\ HeldOK /\ TriesOK
    BY <1>1 DEF IInv, HInv
  <2>1. ASSUME Few PROVE row[n].tries < MaxAttempts + Cardinality(crew)
    <3> DEFINE c == Cardinality(crew)
               t == row[n].tries
    <3>1. IsFiniteSet(crew)
      BY <2>0, FS_Subset DEF TypeOK
    <3>2. c \in Nat /\ c <= 2 /\ t \in Nat
      BY <2>0, <2>1, <3>1, FS_CardinalityType, TriesTyped DEF Few
    <3>3. c = 0 => ~Final(n)
      BY <2>0, <2>1, <3>1, FS_EmptySet DEF HeldOK
    <3>4. /\ t >= MaxAttempts => Final(n)
          /\ t <= MaxAttempts + 1
          /\ t > MaxAttempts => c # 1
      BY <2>0, <2>1 DEF HeldOK, Alone
    <3> HIDE DEF c, t
    <3>5. t < MaxAttempts + c
      BY <3>2, <3>3, <3>4
    <3> QED
      BY <3>5 DEF c, t
  <2>2. Alone /\ "crash" \notin faults => attempts[n] <= MaxAttempts
    BY <2>0 DEF TriesOK
  <2> QED
    BY <2>1, <2>2
<1> QED
  BY <1>1, SecondHolds, PTL

\* With one worker nobody touches a row again that is sent or given up.
THEOREM FinalRowsStay == Spec => FinalStays
<1>1. ASSUME IInv, HInv, [Next]_vars, Alone, NEW n \in Notes, Final(n) PROVE row'[n] = row[n]
  <2>0. TypeOK /\ CrewOK /\ HeldOK
    BY <1>1 DEF IInv, HInv
  <2>1. ASSUME NEW m \in Notes, Enqueue(m) \/ BackoffPasses(m) PROVE row'[n] = row[n]
    <3>1. m # n
      BY <1>1, <2>1 DEF Enqueue, BackoffPasses, Final
    <3> QED
      BY <2>0, <2>1, <3>1 DEF Enqueue, BackoffPasses, TypeOK
  <2>2. ASSUME NEW k \in Workers, Succeed(k) \/ Fail(k) PROVE row'[n] = row[n]
    <3>1. current[k] \in todo[k]
      BY <2>0, <2>2 DEF Succeed, Fail, CrewOK, Delivering
    <3>2. current[k] # n
      BY <1>1, <2>0, <3>1, HeldByOne
    <3> QED
      BY <2>0, <2>2, <3>2 DEF Succeed, Fail, Commit, TypeOK
  <2>3. CASE UNCHANGED row
    BY <2>3
  <2> QED
    BY <1>1, <2>1, <2>2, <2>3
    DEF Next, Deliver, Query, StartRow, Post, WorkerDies, vars
<1>2. IInv /\ HInv /\ [Next]_vars
        => [Alone => \A n \in Notes : Final(n) => row'[n] = row[n]]_vars
  BY <1>1
<1> QED
  BY <1>2, SecondHolds, PTL DEF Spec, FinalStays

=============================================================================
