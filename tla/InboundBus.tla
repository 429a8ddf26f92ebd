----------------------------- MODULE InboundBus -----------------------------
(***************************************************************************)
(* The way of a chat message from the provider's webhook to a run: the     *)
(* ingress claims its idempotency key and publishes it, a worker takes it, *)
(* works on it and acknowledges it or hands it to the dead letters, and an *)
(* operator replays those.  Two deployments: a Redis list (what is popped  *)
(* is gone) and Pub/Sub (what is not acknowledged comes again).            *)
(***************************************************************************)
EXTENDS Naturals, Sequences, FiniteSets

CONSTANTS
  Messages,      \* chat messages, by idempotency key
  Webhooks,      \* webhook bodies
  Batch,         \* the messages of a body, in order
  Requests,      \* webhook requests the ingress serves at the same time
  Workers,       \* orchestrator worker processes
  Transports,    \* deployments considered: subset of {"redis", "pubsub"}
  FaultSets,     \* what may go wrong together: a set of sets of faults
  MaxSends,      \* bounds how often the provider sends a body
  MaxReplays,    \* bounds the calls of replay-dlq
  MaxMessages,   \* replay-dlq --max-messages
  MaxDeliveries, \* max_delivery_attempts of the subscription
  DeadLetters,   \* what a time on Redis has left to the Pub/Sub deployment
  NoMessage, NoWebhook

AllFaults == {"publish_error", "ingress_crash", "work_error", "crash", "slow_work", "ops_crash"}

ASSUME InboundBusAssumption ==
  /\ Batch \in [Webhooks -> Seq(Messages)]
  /\ \A w \in Webhooks : Batch[w] # <<>>
  /\ Transports \subseteq {"redis", "pubsub"}
  /\ FaultSets \subseteq SUBSET AllFaults
  /\ MaxSends \in Nat /\ MaxReplays \in Nat /\ MaxMessages \in Nat /\ MaxDeliveries \in Nat \ {0}
  /\ DeadLetters \in Seq(Messages)
  /\ \A i, j \in DOMAIN DeadLetters : DeadLetters[i] = DeadLetters[j] => i = j
  /\ NoMessage \notin Messages /\ NoWebhook \notin Webhooks
  /\ IsFiniteSet(Workers)
  /\ Workers \cap {"none", "ready", "acked", "dead"} = {}

VARIABLES
  transport, faults,  \* the deployment, and what goes wrong in this behaviour
  claimed,    \* Redis keys thekedar:idem:*
  request,    \* per ingress request: its body and the position it has reached
  sends,      \* per body: how often the provider has sent it
  accepted,   \* bodies that were answered with "accepted"
  inbound,    \* Redis list thekedar:queue:inbound, oldest first
  dlq,        \* Redis list thekedar:queue:dlq, oldest first
  sub,        \* Pub/Sub, per message: "none", "ready", leased to a worker, "acked", "dead"
  deliveries, \* Pub/Sub, per message: how often it was delivered
  step, hand, \* per worker: where it is, and the message it works on
  resume,     \* a resume event waits in thekedar:queue:resume
  ops,        \* the operator's replay-dlq
  replayRuns, \* how often it was called
  published,  \* history: messages the ingress has published
  started,    \* history: runs started, per message
  replays,    \* history: how often a message was replayed
  done        \* history: messages whose processing has ended well

ingress == <<claimed, request, sends, accepted>>
pubsub  == <<sub, deliveries>>
worker  == <<step, hand, resume>>
replay  == <<ops, replayRuns, replays>>
setting == <<transport, faults>>

history == <<published, started, done>>
vars == <<setting, ingress, inbound, dlq, pubsub, worker, replay, history>>

NoRequest == [step |-> "idle", hook |-> NoWebhook, next |-> 1]
NoOps == [step |-> "idle", msg |-> NoMessage, dry |-> FALSE, left |-> 0]

TypeOK ==
  /\ transport \in Transports /\ faults \in FaultSets
  /\ claimed \subseteq Messages
  /\ request \in [Requests -> [step: {"idle", "claim", "publish"}, hook: Webhooks \cup {NoWebhook}, next: Nat]]
  /\ sends \in [Webhooks -> 0..MaxSends]
  /\ accepted \subseteq Webhooks
  /\ inbound \in Seq(Messages) /\ dlq \in Seq(Messages)
  /\ sub \in [Messages -> {"none", "ready", "acked", "dead"} \cup Workers]
  /\ deliveries \in [Messages -> 0..MaxDeliveries]
  /\ step \in [Workers -> {"idle", "begin", "work", "ack", "nack"}]
  /\ hand \in [Workers -> Messages \cup {NoMessage}]
  /\ resume \in BOOLEAN
  /\ ops \in [step: {"idle", "pop", "publish", "push_back"}, msg: Messages \cup {NoMessage},
              dry: BOOLEAN, left: 0..MaxMessages]
  /\ replayRuns \in 0..MaxReplays
  /\ published \subseteq Messages /\ done \subseteq Messages
  /\ started \in [Messages -> Nat] /\ replays \in [Messages -> Nat]

\* The ingress does not serve a Pub/Sub deployment: there replay-dlq is what
\* fills the topic, with what is left from a time on Redis.
Init ==
  /\ transport \in Transports /\ faults \in FaultSets
  /\ claimed = {} /\ accepted = {} /\ sends = [w \in Webhooks |-> 0]
  /\ request = [q \in Requests |-> NoRequest]
  /\ inbound = <<>>
  /\ dlq = IF transport = "pubsub" THEN DeadLetters ELSE <<>>
  /\ sub = [m \in Messages |-> "none"] /\ deliveries = [m \in Messages |-> 0]
  /\ step = [k \in Workers |-> "idle"] /\ hand = [k \in Workers |-> NoMessage]
  /\ resume \in BOOLEAN
  /\ ops = NoOps /\ replayRuns = 0
  /\ published = {} /\ done = {}
  /\ started = [m \in Messages |-> 0] /\ replays = [m \in Messages |-> 0]

-----------------------------------------------------------------------------
(* The ingress *)

\* A body arrives, for the first time or again.  get_bus insists on the Redis
\* bus: with Pub/Sub the request fails before anything is claimed.  A request
\* that is refused (rate limit, signature) changes nothing either.
Receive(q, w) ==
  /\ transport = "redis"
  /\ request[q].step = "idle"
  /\ sends[w] < MaxSends
  /\ sends' = [sends EXCEPT ![w] = @ + 1]
  /\ request' = [request EXCEPT ![q] = [step |-> "claim", hook |-> w, next |-> 1]]
  /\ UNCHANGED <<setting, claimed, accepted, inbound, dlq, pubsub, worker, replay, history>>

Event(q) == Batch[request[q].hook][request[q].next]

\* The loop goes on with the next event, or the request is answered.
NextEvent(q) ==
  LET w == request[q].hook
      last == request[q].next = Len(Batch[w])
  IN
  /\ request' = [request EXCEPT ![q] = IF last THEN NoRequest
                   ELSE [step |-> "claim", hook |-> w, next |-> request[q].next + 1]]
  /\ accepted' = IF last THEN accepted \cup {w} ELSE accepted

\* Mutant: the key is only looked up here, and claimed with the publication.
ClaimNotAtomic(q) ==
  /\ request[q].step = "claim"
  /\ \/ Event(q) \in published /\ NextEvent(q)
     \/ /\ Event(q) \notin published
        /\ request' = [request EXCEPT ![q].step = "publish"]
        /\ UNCHANGED accepted
  /\ claimed' = claimed \cup {Event(q)}
  /\ UNCHANGED <<setting, sends, inbound, dlq, pubsub, worker, replay, history>>

\* SET NX: one request wins the key, every other one skips the event.
Claim(q) ==
  /\ request[q].step = "claim"
  /\ \/ Event(q) \in claimed /\ NextEvent(q)
     \/ /\ Event(q) \notin claimed
        /\ request' = [request EXCEPT ![q].step = "publish"]
        /\ UNCHANGED accepted
  /\ claimed' = claimed \cup {Event(q)}
  /\ UNCHANGED <<setting, sends, inbound, dlq, pubsub, worker, replay, history>>

Publish(q) ==
  /\ request[q].step = "publish"
  /\ inbound' = Append(inbound, Event(q))
  /\ published' = published \cup {Event(q)}
  /\ NextEvent(q)
  /\ UNCHANGED <<setting, claimed, sends, dlq, pubsub, worker, replay, started, done>>

\* LPUSH fails, or the ingress stops: the provider gets no 2xx, the claim stays.
RequestFails(q) ==
  /\ \/ request[q].step = "publish" /\ "publish_error" \in faults
     \/ request[q].step # "idle" /\ "ingress_crash" \in faults
  /\ request' = [request EXCEPT ![q] = NoRequest]
  /\ UNCHANGED <<setting, claimed, sends, accepted, inbound, dlq, pubsub, worker, replay, history>>

-----------------------------------------------------------------------------
(* Pub/Sub.  External: modelled from PubSubMessageBus and the subscription's
   dead_letter_policy. *)

\* A message that is given back is delivered again until its attempts are used.
GivenBack(m) == sub' = [sub EXCEPT ![m] = IF deliveries[m] < MaxDeliveries THEN "ready" ELSE "dead"]

\* The deadline passes: nobody has the message any more, or work takes long.
LeaseExpires(m) ==
  /\ sub[m] \in Workers
  /\ hand[sub[m]] # m \/ "slow_work" \in faults
  /\ GivenBack(m)
  /\ UNCHANGED <<setting, ingress, inbound, dlq, deliveries, worker, replay, history>>

-----------------------------------------------------------------------------
(* The worker's loop *)

Take(k, m) ==
  /\ step[k] = "idle"
  /\ step' = [step EXCEPT ![k] = "begin"]
  /\ hand' = [hand EXCEPT ![k] = m]

Drop(k) ==
  /\ step' = [step EXCEPT ![k] = "idle"]
  /\ hand' = [hand EXCEPT ![k] = NoMessage]

\* BRPOP
Pop(k) ==
  /\ transport = "redis" /\ inbound # <<>>
  /\ Take(k, Head(inbound))
  /\ inbound' = Tail(inbound)
  /\ UNCHANGED <<setting, ingress, dlq, pubsub, resume, replay, history>>

\* pull: any message that is ready, in no order.  With nothing ready it returns
\* nothing or raises DeadlineExceeded; the worker that is restarted then is idle
\* like the one before.
Pull(k) ==
  /\ \E m \in Messages :
       /\ sub[m] = "ready"
       /\ Take(k, m)
       /\ sub' = [sub EXCEPT ![m] = k]
       /\ deliveries' = [deliveries EXCEPT ![m] = @ + 1]
  /\ UNCHANGED <<setting, ingress, inbound, dlq, resume, replay, history>>

\* Mutant: the message is acknowledged before it is worked on.
BeginAcksFirst(k) ==
  /\ step[k] = "begin"
  /\ sub' = [sub EXCEPT ![hand[k]] = IF transport = "pubsub" THEN "acked" ELSE @]
  /\ started' = [started EXCEPT ![hand[k]] = @ + 1]
  /\ step' = [step EXCEPT ![k] = "work"]
  /\ UNCHANGED <<setting, ingress, inbound, dlq, deliveries, hand, resume, replay, published, done>>

\* process_payload inserts the row of a run; a decision for a pending approval
\* needs no new run; a payload that does not validate raises.
Begin(k) ==
  /\ step[k] = "begin"
  /\ \/ /\ started' = [started EXCEPT ![hand[k]] = @ + 1]
        /\ step' = [step EXCEPT ![k] = "work"]
     \/ step' = [step EXCEPT ![k] = "work"] /\ UNCHANGED started
     \/ "work_error" \in faults /\ step' = [step EXCEPT ![k] = "nack"] /\ UNCHANGED started
  /\ UNCHANGED <<setting, ingress, inbound, dlq, pubsub, hand, resume, replay, published, done>>

\* The graph or the resume returns; only the Pub/Sub bus has an ack.
Work(k) ==
  /\ step[k] = "work"
  /\ \/ /\ done' = done \cup {hand[k]}
        /\ \/ transport = "redis" /\ Drop(k)
           \/ transport = "pubsub" /\ step' = [step EXCEPT ![k] = "ack"] /\ UNCHANGED hand
     \/ /\ "work_error" \in faults
        /\ step' = [step EXCEPT ![k] = "nack"]
        /\ UNCHANGED <<hand, done>>
  /\ UNCHANGED <<setting, ingress, inbound, dlq, pubsub, resume, replay, published, started>>

\* The ack id may be out of date: the message then comes again or it does not.
\* An ack that raises is taken for a failure of the work.
Ack(k) ==
  LET m == hand[k] IN
  /\ step[k] = "ack"
  /\ \/ /\ sub[m] \in {"ready"} \cup Workers
        /\ sub' = [sub EXCEPT ![m] = "acked"]
        /\ Drop(k)
     \/ sub[m] # k /\ UNCHANGED sub /\ Drop(k)
     \/ "work_error" \in faults /\ step' = [step EXCEPT ![k] = "nack"] /\ UNCHANGED <<sub, hand>>
  /\ UNCHANGED <<setting, ingress, inbound, dlq, deliveries, resume, replay, history>>

\* Mutant: on Redis a failed message goes back to the end of its queue.
NackRequeues(k) ==
  /\ step[k] = "nack" /\ transport = "redis"
  /\ inbound' = Append(inbound, hand[k])
  /\ Drop(k)
  /\ UNCHANGED <<setting, ingress, dlq, pubsub, resume, replay, history>>

\* Mutant: no dead letter is written.
NackDrops(k) ==
  /\ step[k] = "nack"
  /\ Drop(k)
  /\ UNCHANGED <<setting, ingress, inbound, dlq, pubsub, resume, replay, history>>

\* Redis: a dead letter.  Pub/Sub: a deadline of zero, if the lease still holds.
Nack(k) ==
  LET m == hand[k] IN
  /\ step[k] = "nack"
  /\ \/ transport = "redis" /\ dlq' = Append(dlq, m) /\ UNCHANGED sub
     \/ transport = "pubsub" /\ sub[m] = k /\ GivenBack(m) /\ UNCHANGED dlq
     \/ transport = "pubsub" /\ sub[m] # k /\ UNCHANGED <<sub, dlq>>
  /\ Drop(k)
  /\ UNCHANGED <<setting, ingress, inbound, deliveries, resume, replay, history>>

\* Only a worker that finds no inbound message looks at the resume list.  A
\* pull may come back empty although there is something; but a pull that runs
\* into its timeout raises, outside the loop's try, and ends the process before
\* it comes here: on Pub/Sub nothing says that this step is ever taken.
ConsumeResume(k) ==
  /\ step[k] = "idle" /\ resume
  /\ transport = "redis" => inbound = <<>>
  /\ resume' = FALSE
  /\ UNCHANGED <<setting, ingress, inbound, dlq, pubsub, step, hand, replay, history>>

WorkerDies(k) ==
  /\ "crash" \in faults
  /\ step[k] # "idle"
  /\ Drop(k)
  /\ UNCHANGED <<setting, ingress, inbound, dlq, pubsub, resume, replay, history>>

-----------------------------------------------------------------------------
(* thekedar ops replay-dlq *)

StartReplay(dry) ==
  /\ ops.step = "idle"
  /\ replayRuns < MaxReplays
  /\ replayRuns' = replayRuns + 1
  /\ ops' = [NoOps EXCEPT !.step = "pop", !.dry = dry, !.left = MaxMessages]
  /\ UNCHANGED <<setting, ingress, inbound, dlq, pubsub, worker, replays, history>>

\* Mutant: --max-messages does not end the loop.
ReplayPopUnbounded ==
  /\ ops.step = "pop" /\ dlq # <<>>
  /\ ops' = [ops EXCEPT !.step = IF ops.dry THEN "push_back" ELSE "publish",
                        !.msg = Head(dlq), !.left = @ - 1]
  /\ dlq' = Tail(dlq)
  /\ UNCHANGED <<setting, ingress, inbound, pubsub, worker, replayRuns, replays, history>>

\* The oldest dead letter is taken out, in a dry run too.
ReplayPop ==
  /\ ops.step = "pop"
  /\ \/ /\ dlq = <<>> \/ ops.left = 0
        /\ ops' = NoOps
        /\ UNCHANGED dlq
     \/ /\ dlq # <<>> /\ ops.left > 0
        /\ ops' = [ops EXCEPT !.step = IF ops.dry THEN "push_back" ELSE "publish",
                              !.msg = Head(dlq), !.left = @ - 1]
        /\ dlq' = Tail(dlq)
  /\ UNCHANGED <<setting, ingress, inbound, pubsub, worker, replayRuns, replays, history>>

\* The SQL mirror says "replayed" and the message is published again.
ReplayPublish ==
  LET m == ops.msg IN
  /\ ops.step = "publish"
  /\ \/ transport = "redis" /\ inbound' = Append(inbound, m) /\ UNCHANGED sub
     \/ transport = "pubsub" /\ sub' = [sub EXCEPT ![m] = "ready"] /\ UNCHANGED inbound
  /\ replays' = [replays EXCEPT ![m] = @ + 1]
  /\ ops' = [ops EXCEPT !.step = "pop", !.msg = NoMessage]
  /\ UNCHANGED <<setting, ingress, dlq, deliveries, worker, replayRuns, history>>

\* A dry run puts it back at the other end.
ReplayPushBack ==
  /\ ops.step = "push_back"
  /\ dlq' = Append(dlq, ops.msg)
  /\ ops' = [ops EXCEPT !.step = "pop", !.msg = NoMessage]
  /\ UNCHANGED <<setting, ingress, inbound, pubsub, worker, replayRuns, replays, history>>

OpsDies ==
  /\ "ops_crash" \in faults
  /\ ops.step # "idle"
  /\ ops' = NoOps
  /\ UNCHANGED <<setting, ingress, inbound, dlq, pubsub, worker, replayRuns, replays, history>>

-----------------------------------------------------------------------------

Serve(q)    == Claim(q) \/ Publish(q)
Loop(k)     == Pop(k) \/ Pull(k) \/ Begin(k) \/ Work(k) \/ Ack(k) \/ Nack(k)
ReplayStep  == ReplayPop \/ ReplayPublish \/ ReplayPushBack

Next ==
  \/ \E q \in Requests : Serve(q) \/ RequestFails(q) \/ \E w \in Webhooks : Receive(q, w)
  \/ \E k \in Workers : Loop(k) \/ ConsumeResume(k) \/ WorkerDies(k)
  \/ \E m \in Messages : LeaseExpires(m)
  \/ ReplayStep \/ OpsDies \/ \E dry \in BOOLEAN : StartReplay(dry)

Spec == Init /\ [][Next]_vars

\* Requests, workers (restarted when they die), a started command and Pub/Sub's
\* deadlines go on; nobody has to send or to replay, and no resume event is
\* promised its turn: inbound messages go first, and see ConsumeResume.
Fairness ==
  /\ \A q \in Requests : WF_vars(Serve(q))
  /\ \A k \in Workers : WF_vars(Loop(k))
  /\ \A m \in Messages : WF_vars(LeaseExpires(m))
  /\ WF_vars(ReplayStep)

FairSpec == Spec /\ Fairness

-----------------------------------------------------------------------------
(* Properties *)

InList(m, s) == \E i \in DOMAIN s : s[i] = m
InHand(m) == \E k \in Workers : hand[k] = m

\* On Redis a message starts one run, and one more for each replay, however
\* often and however concurrently the provider sends it, and whoever dies.
OneRunPerDelivery ==
  transport = "redis" => \A m \in Messages : started[m] <= 1 + replays[m]

\* A claimed message is on its way, somewhere, or done: unless a process dies
\* with the only copy.  On Pub/Sub a worker that dies loses nothing.
Copies(m) ==
  \/ \E q \in Requests : request[q].step = "publish" /\ Event(q) = m
  \/ InList(m, inbound) \/ InList(m, dlq) \/ InHand(m)
  \/ ops.msg = m \/ sub[m] # "none"
Losing == {"publish_error", "ingress_crash", "ops_crash"}
            \cup (IF transport = "redis" THEN {"crash"} ELSE {})
Known == claimed \cup {m \in Messages : transport = "pubsub" /\ InList(m, DeadLetters)}
NothingLost ==
  faults \cap Losing = {} => \A m \in Known : Copies(m) \/ m \in done

\* Pub/Sub forgets a message only after some worker has finished it, whatever
\* leases expire, acks arrive late and workers die.
AckedDone == \A m \in Messages : sub[m] = "acked" => m \in done

\* A message that is known is finished or ends among the dead letters, where an
\* operator finds it: no retry goes on for ever.
AtRest(m) == m \in done \/ InList(m, dlq) \/ sub[m] = "dead"
Handled ==
  \A m \in Messages : (m \in Known /\ faults \cap Losing = {}) ~> AtRest(m)

\* Every event of an accepted webhook has been published, or another request is
\* about to publish it (docs/RELIABILITY.md:13, 0 lost after ACK).
AcceptedIsPublished ==
  \A w \in accepted : \A i \in DOMAIN Batch[w] :
    \/ Batch[w][i] \in published
    \/ \E q \in Requests : request[q].step = "publish" /\ Event(q) = Batch[w][i]

=============================================================================
