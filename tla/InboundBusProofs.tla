-------------------------- MODULE InboundBusProofs --------------------------
(***************************************************************************)
(* Theorems about InboundBus, for every set of messages, bodies, requests  *)
(* and workers, every length of the dead letters and every combination of  *)
(* faults, on both transports.                                             *)
(***************************************************************************)
EXTENDS InboundBus, FiniteSetTheorems, TLAPS

-----------------------------------------------------------------------------
(* The inductive invariant *)

\* A request in the loop stands at an event of its body; what it is about to
\* publish is claimed, was never published, and is claimed for it alone.
RequestOK(q) ==
  /\ request[q].step # "idle" =>
       /\ transport = "redis"
       /\ request[q].hook \in Webhooks
       /\ request[q].next \in 1..Len(Batch[request[q].hook])
  /\ request[q].step = "publish" =>
       /\ Event(q) \in claimed \ published
       /\ \A r \in Requests : request[r].step = "publish" /\ r # q => Event(r) # Event(q)

ClaimsOK == published \subseteq claimed /\ \A q \in Requests : RequestOK(q)

\* A worker has a message exactly while it works; it acknowledges what is done.
WorkerOK(k) ==
  /\ step[k] = "idle" => hand[k] = NoMessage
  /\ step[k] # "idle" => /\ hand[k] \in Messages
                         /\ transport = "pubsub" => sub[hand[k]] # "none"
  /\ step[k] = "ack" => transport = "pubsub" /\ hand[k] \in done

OpsOK ==
  /\ ops.step \in {"publish", "push_back"} => ops.msg \in Messages
  /\ ops.step \notin {"publish", "push_back"} => ops.msg = NoMessage

\* Each deployment uses its own half of the state.  On Pub/Sub a message is a
\* dead letter of old, in the operator's hands, or on the topic, one of these
\* at a time; a message that is ready may still be delivered.
Waits(m) == InList(m, dlq) \/ ops.msg = m
RedisOK == \A m \in Messages : sub[m] = "none"
PubSubOK ==
  /\ inbound = <<>> /\ claimed = {}
  /\ \A i, j \in DOMAIN dlq : dlq[i] = dlq[j] => i = j
  /\ \A m \in Messages :
       /\ ops.msg = m => ~InList(m, dlq)
       /\ Waits(m) => sub[m] = "none"
       /\ sub[m] = "none" => deliveries[m] = 0
       /\ sub[m] = "ready" => deliveries[m] < MaxDeliveries
TransportOK == /\ transport = "redis" => RedisOK
               /\ transport = "pubsub" => PubSubOK

\* On Redis the runs of a message that were started, and those its copies in
\* the list and in the hands of workers will start, come from one publication
\* by the ingress and from the replays.
Places(m, s) == {i \in DOMAIN s : s[i] = m}
Beginning(m) == {k \in Workers : step[k] = "begin" /\ hand[k] = m}
ToStart(m) == Cardinality(Places(m, inbound)) + Cardinality(Beginning(m))
Sent(m) == IF m \in published THEN 1 ELSE 0
RunsOK ==
  transport = "redis" => \A m \in Messages : started[m] + ToStart(m) <= Sent(m) + replays[m]

IInv ==
  /\ TypeOK
  /\ ClaimsOK
  /\ \A k \in Workers : WorkerOK(k)
  /\ OpsOK
  /\ TransportOK
  /\ RunsOK
  /\ NothingLost
  /\ AckedDone

USE InboundBusAssumption

-----------------------------------------------------------------------------
(* Lists *)

LEMMA InAppend ==
  ASSUME NEW s \in Seq(Messages), NEW n \in Messages, NEW m
  PROVE  InList(m, Append(s, n)) <=> InList(m, s) \/ m = n
<1>1. /\ DOMAIN Append(s, n) = 1..Len(s) + 1 /\ DOMAIN s = 1..Len(s) /\ Len(s) \in Nat
      /\ \A i \in 1..Len(s) : Append(s, n)[i] = s[i]
      /\ Append(s, n)[Len(s) + 1] = n
  OBVIOUS
<1>2. ASSUME InList(m, Append(s, n)) PROVE InList(m, s) \/ m = n
  <2>1. PICK i \in 1..Len(s) + 1 : Append(s, n)[i] = m
    BY <1>1, <1>2 DEF InList
  <2>2. i \in 1..Len(s) \/ i = Len(s) + 1
    BY <1>1
  <2> QED
    BY <1>1, <2>1, <2>2 DEF InList
<1>3. ASSUME InList(m, s) PROVE InList(m, Append(s, n))
  <2>1. PICK i \in 1..Len(s) : s[i] = m
    BY <1>1, <1>3 DEF InList
  <2>2. i \in 1..Len(s) + 1 /\ Append(s, n)[i] = m
    BY <1>1, <2>1
  <2> QED
    BY <1>1, <2>2 DEF InList
<1>4. ASSUME m = n PROVE InList(m, Append(s, n))
  <2>1. Len(s) + 1 \in 1..Len(s) + 1
    BY <1>1
  <2> QED
    BY <1>1, <1>4, <2>1 DEF InList
<1> QED
  BY <1>2, <1>3, <1>4

LEMMA TailFacts ==
  ASSUME NEW s \in Seq(Messages), s # <<>>
  PROVE  /\ Tail(s) \in Seq(Messages) /\ Head(s) \in Messages /\ Head(s) = s[1]
         /\ Len(s) \in Nat /\ Len(s) > 0 /\ Len(Tail(s)) = Len(s) - 1
         /\ DOMAIN s = 1..Len(s) /\ DOMAIN Tail(s) = 1..Len(s) - 1
         /\ \A i \in 1..Len(s) - 1 : Tail(s)[i] = s[i + 1]
  OBVIOUS

LEMMA InTail ==
  ASSUME NEW s \in Seq(Messages), s # <<>>, NEW m
  PROVE  InList(m, s) <=> InList(m, Tail(s)) \/ m = Head(s)
<1>1. ASSUME InList(m, s) PROVE InList(m, Tail(s)) \/ m = Head(s)
  <2>1. PICK i \in 1..Len(s) : s[i] = m
    BY <1>1, TailFacts DEF InList
  <2>2. CASE i = 1
    BY <2>1, <2>2, TailFacts
  <2>3. CASE i # 1
    <3>1. i - 1 \in 1..Len(s) - 1 /\ (i - 1) + 1 = i
      BY <2>1, <2>3, TailFacts
    <3>2. Tail(s)[i - 1] = m
      BY <2>1, <3>1, TailFacts
    <3> QED
      BY <3>1, <3>2, TailFacts DEF InList
  <2> QED
    BY <2>2, <2>3
<1>2. ASSUME InList(m, Tail(s)) PROVE InList(m, s)
  <2>1. PICK i \in 1..Len(s) - 1 : Tail(s)[i] = m
    BY <1>2, TailFacts DEF InList
  <2>2. i + 1 \in 1..Len(s) /\ s[i + 1] = m
    BY <2>1, TailFacts
  <2> QED
    BY <2>2, TailFacts DEF InList
<1>3. ASSUME m = Head(s) PROVE InList(m, s)
  <2>1. 1 \in 1..Len(s)
    BY TailFacts
  <2> QED
    BY <1>3, <2>1, TailFacts DEF InList
<1> QED
  BY <1>1, <1>2, <1>3

\* No message twice.
Once(s) == \A i, j \in DOMAIN s : s[i] = s[j] => i = j

LEMMA OnceAppend ==
  ASSUME NEW s \in Seq(Messages), NEW n \in Messages, Once(s), ~InList(n, s)
  PROVE  Once(Append(s, n))
<1>1. /\ DOMAIN Append(s, n) = 1..Len(s) + 1 /\ DOMAIN s = 1..Len(s) /\ Len(s) \in Nat
      /\ \A i \in 1..Len(s) : Append(s, n)[i] = s[i]
      /\ Append(s, n)[Len(s) + 1] = n
  OBVIOUS
<1>2. ASSUME NEW i \in 1..Len(s) + 1, NEW j \in 1..Len(s) + 1, Append(s, n)[i] = Append(s, n)[j]
      PROVE  i = j
  <2>1. (i \in 1..Len(s) \/ i = Len(s) + 1) /\ (j \in 1..Len(s) \/ j = Len(s) + 1)
    BY <1>1
  <2>2. CASE i \in 1..Len(s) /\ j \in 1..Len(s)
    BY <1>1, <1>2, <2>2 DEF Once
  <2>3. CASE i = Len(s) + 1 /\ j = Len(s) + 1
    BY <2>3
  <2>4. CASE i \in 1..Len(s) /\ j = Len(s) + 1
    BY <1>1, <1>2, <2>4 DEF InList
  <2>5. CASE i = Len(s) + 1 /\ j \in 1..Len(s)
    BY <1>1, <1>2, <2>5 DEF InList
  <2> QED
    BY <2>1, <2>2, <2>3, <2>4, <2>5
<1> QED
  BY <1>1, <1>2 DEF Once

LEMMA OnceTail ==
  ASSUME NEW s \in Seq(Messages), s # <<>>, Once(s)
  PROVE  Once(Tail(s)) /\ ~InList(Head(s), Tail(s))
<1>1. Once(Tail(s))
  <2>1. ASSUME NEW i \in 1..Len(s) - 1, NEW j \in 1..Len(s) - 1, Tail(s)[i] = Tail(s)[j]
        PROVE  i = j
    <3>1. i + 1 \in DOMAIN s /\ j + 1 \in DOMAIN s /\ s[i + 1] = s[j + 1]
      BY <2>1, TailFacts
    <3>2. i + 1 = j + 1
      BY <3>1 DEF Once
    <3> QED
      BY <3>2
  <2> QED
    BY <2>1, TailFacts DEF Once
<1>2. ASSUME InList(Head(s), Tail(s)) PROVE FALSE
  <2>1. PICK i \in 1..Len(s) - 1 : Tail(s)[i] = Head(s)
    BY <1>2, TailFacts DEF InList
  <2>2. i + 1 \in DOMAIN s /\ 1 \in DOMAIN s /\ s[i + 1] = s[1]
    BY <2>1, TailFacts
  <2>3. i + 1 = 1
    BY <2>2 DEF Once
  <2> QED
    BY <2>3
<1> QED
  BY <1>1, <1>2

\* How often a message is in a list, when one is added at the end and when the
\* first is taken.
LEMMA PlacesFinite ==
  ASSUME NEW s \in Seq(Messages), NEW m
  PROVE  IsFiniteSet(Places(m, s)) /\ Cardinality(Places(m, s)) \in Nat
<1>1. Len(s) \in Nat /\ DOMAIN s = 1..Len(s)
  OBVIOUS
<1>2. IsFiniteSet(1..Len(s))
  <2>1. 1 \in Int /\ Len(s) \in Int
    BY <1>1
  <2> QED
    BY <2>1, FS_Interval, Zenon
<1>3. Places(m, s) \in SUBSET (1..Len(s))
  BY <1>1 DEF Places
<1> QED
  BY <1>2, <1>3, FS_Subset, FS_CardinalityType

LEMMA PlacesAppend ==
  ASSUME NEW s \in Seq(Messages), NEW n \in Messages, NEW m
  PROVE  Cardinality(Places(m, Append(s, n)))
           = Cardinality(Places(m, s)) + (IF m = n THEN 1 ELSE 0)
<1>1. /\ DOMAIN Append(s, n) = 1..Len(s) + 1 /\ DOMAIN s = 1..Len(s) /\ Len(s) \in Nat
      /\ \A i \in 1..Len(s) : Append(s, n)[i] = s[i]
      /\ Append(s, n)[Len(s) + 1] = n
  OBVIOUS
<1>2. 1..Len(s) + 1 = (1..Len(s)) \cup {Len(s) + 1} /\ Len(s) + 1 \notin 1..Len(s)
  BY <1>1
<1>3. CASE m = n
  <2>1. Places(m, Append(s, n)) = Places(m, s) \cup {Len(s) + 1}
    BY <1>1, <1>2, <1>3 DEF Places
  <2>2. Len(s) + 1 \notin Places(m, s)
    BY <1>1, <1>2 DEF Places
  <2> QED
    BY <1>3, <2>1, <2>2, PlacesFinite, FS_AddElement
<1>4. CASE m # n
  <2>1. Places(m, Append(s, n)) = Places(m, s)
    BY <1>1, <1>2, <1>4 DEF Places
  <2> QED
    BY <1>4, <2>1, PlacesFinite
<1> QED
  BY <1>3, <1>4

LEMMA PlacesTail ==
  ASSUME NEW s \in Seq(Messages), s # <<>>, NEW m
  PROVE  Cardinality(Places(m, s))
           = Cardinality(Places(m, Tail(s))) + (IF m = Head(s) THEN 1 ELSE 0)
<1> DEFINE A == Places(m, Tail(s))
           B == Places(m, s) \ {1}
           up == [i \in A |-> i + 1]
<1>1. Len(s) \in Nat /\ A \subseteq 1..Len(s) - 1 /\ B \subseteq 2..Len(s)
  BY TailFacts DEF Places
<1>2. \A i \in A : i + 1 \in B
  BY <1>1, TailFacts DEF Places
<1>3. \A j \in B : j - 1 \in A /\ (j - 1) + 1 = j
  BY <1>1, TailFacts DEF Places
<1>4. up \in Bijection(A, B)
  <2>1. up \in [A -> B]
    BY <1>2
  <2>2. \A i, j \in A : up[i] = up[j] => i = j
    BY <1>1
  <2>3. \A j \in B : \E i \in A : up[i] = j
    BY <1>3
  <2> HIDE DEF up, A, B
  <2> QED
    BY <2>1, <2>2, <2>3 DEF Bijection, Injection, Surjection, IsInjective
<1>5. IsFiniteSet(A) /\ Cardinality(A) \in Nat /\ IsFiniteSet(Places(m, s)) /\ Cardinality(Places(m, s)) \in Nat
  BY PlacesFinite, TailFacts
<1>6. Cardinality(B) = Cardinality(A)
  BY <1>4, <1>5, FS_Bijection DEF ExistsBijection
<1>7. 1 \in Places(m, s) <=> m = Head(s)
  BY TailFacts DEF Places
<1>8. Cardinality(B) = IF m = Head(s) THEN Cardinality(Places(m, s)) - 1 ELSE Cardinality(Places(m, s))
  BY <1>5, <1>7, FS_RemoveElement
<1> QED
  BY <1>5, <1>6, <1>8

-----------------------------------------------------------------------------
(* The initial states, and types *)

LEMMA NothingBegins ==
  ASSUME inbound = <<>>, \A k \in Workers : step[k] = "idle", NEW m
  PROVE  ToStart(m) = 0
<1>1. Places(m, inbound) = {} /\ Beginning(m) = {}
  BY DEF Places, Beginning
<1>2. Cardinality(Places(m, inbound)) = 0 /\ Cardinality(Beginning(m)) = 0
  BY <1>1, FS_EmptySet
<1> QED
  BY <1>2 DEF ToStart

LEMMA InitInv == Init => IInv
<1> SUFFICES ASSUME Init PROVE IInv
  OBVIOUS
<1>1. TypeOK
  <2>1. \A q \in Requests :
          NoRequest \in [step: {"idle", "claim", "publish"}, hook: Webhooks \cup {NoWebhook}, next: Nat]
    BY DEF NoRequest
  <2>2. ops \in [step: {"idle", "pop", "publish", "push_back"}, msg: Messages \cup {NoMessage},
                 dry: BOOLEAN, left: 0..MaxMessages]
    BY DEF Init, NoOps
  <2>3. inbound \in Seq(Messages) /\ dlq \in Seq(Messages)
    BY DEF Init
  <2> QED
    BY <2>1, <2>2, <2>3 DEF Init, TypeOK
<1>2. ClaimsOK
  BY DEF Init, ClaimsOK, RequestOK, NoRequest
<1>3. \A k \in Workers : WorkerOK(k)
  BY DEF Init, WorkerOK
<1>4. OpsOK
  BY DEF Init, OpsOK, NoOps
<1>5. TransportOK
  <2>1. ASSUME transport = "pubsub" PROVE PubSubOK
    <3>1. \A m \in Messages : sub[m] = "none" /\ deliveries[m] = 0 /\ ops.msg # m
      BY DEF Init, NoOps
    <3>2. inbound = <<>> /\ claimed = {} /\ dlq = DeadLetters
      BY <2>1 DEF Init
    <3> QED
      BY <3>1, <3>2 DEF PubSubOK, Waits
  <2> QED
    BY <2>1 DEF Init, TransportOK, RedisOK
<1>6. RunsOK
  <2>1. ASSUME NEW m \in Messages PROVE started[m] + ToStart(m) <= Sent(m) + replays[m]
    <3>1. started[m] = 0 /\ replays[m] = 0 /\ Sent(m) \in Nat
      BY DEF Init, Sent
    <3>2. ToStart(m) = 0
      BY NothingBegins DEF Init
    <3> QED
      BY <3>1, <3>2
  <2> QED
    BY <2>1 DEF RunsOK
<1>7. NothingLost
  BY DEF Init, NothingLost, Known, Copies
<1>8. AckedDone
  BY DEF Init, AckedDone
<1> QED
  BY <1>1, <1>2, <1>3, <1>4, <1>5, <1>6, <1>7, <1>8 DEF IInv

Request == [step: {"idle", "claim", "publish"}, hook: Webhooks \cup {NoWebhook}, next: Nat]
Operator == [step: {"idle", "pop", "publish", "push_back"}, msg: Messages \cup {NoMessage},
             dry: BOOLEAN, left: 0..MaxMessages]
Subs == {"none", "ready", "acked", "dead"} \cup Workers
Steps == {"idle", "begin", "work", "ack", "nack"}

\* TypeOK with names for the sets.
Types ==
  /\ transport \in Transports /\ faults \in FaultSets
  /\ claimed \subseteq Messages /\ accepted \subseteq Webhooks
  /\ request \in [Requests -> Request] /\ sends \in [Webhooks -> 0..MaxSends]
  /\ inbound \in Seq(Messages) /\ dlq \in Seq(Messages)
  /\ sub \in [Messages -> Subs] /\ deliveries \in [Messages -> 0..MaxDeliveries]
  /\ step \in [Workers -> Steps] /\ hand \in [Workers -> Messages \cup {NoMessage}]
  /\ resume \in BOOLEAN /\ ops \in Operator /\ replayRuns \in 0..MaxReplays
  /\ published \subseteq Messages /\ done \subseteq Messages
  /\ started \in [Messages -> Nat] /\ replays \in [Messages -> Nat]

LEMMA Typed == (TypeOK <=> Types) /\ (TypeOK' <=> Types')
  BY DEF TypeOK, Types, Request, Operator, Subs, Steps

LEMMA OneTransport == TypeOK => transport \in {"redis", "pubsub"}
  BY DEF TypeOK

\* The event at which a request stands.
LEMMA EventTyped ==
  ASSUME TypeOK, ClaimsOK, NEW q \in Requests, request[q].step # "idle"
  PROVE  /\ request[q].hook \in Webhooks
         /\ Len(Batch[request[q].hook]) \in Nat
         /\ request[q].next \in 1..Len(Batch[request[q].hook])
         /\ Event(q) \in Messages
<1> DEFINE w == request[q].hook
           n == request[q].next
<1>1. w \in Webhooks /\ n \in 1..Len(Batch[w])
  BY DEF ClaimsOK, RequestOK
<1>2. Batch[w] \in Seq(Messages)
  BY <1>1
<1>3. Batch[w][n] \in Messages
  BY <1>1, <1>2
<1> QED
  BY <1>1, <1>2, <1>3 DEF Event

\* A request becomes idle, goes to a later event of its body, or publishes.
LEMMA NextEventMoves ==
  ASSUME TypeOK, ClaimsOK, NEW q \in Requests, request[q].step # "idle", NextEvent(q)
  PROVE  /\ request' = [request EXCEPT ![q] = request'[q]] /\ request'[q] \in Request
         /\ request'[q].step \in {"idle", "claim"}
         /\ request'[q].step # "idle" => /\ request'[q].hook \in Webhooks
                                         /\ request'[q].next \in 1..Len(Batch[request'[q].hook])
         /\ accepted' \subseteq Webhooks
<1> DEFINE w == request[q].hook
           n == request[q].next
           Further == [step |-> "claim", hook |-> w, next |-> n + 1]
<1>1. w \in Webhooks /\ Len(Batch[w]) \in Nat /\ n \in 1..Len(Batch[w])
  BY EventTyped
<1>2. request \in [Requests -> Request]
  BY Typed DEF Types
<1>3. NoRequest \in Request /\ NoRequest.step = "idle"
  BY DEF NoRequest, Request
<1>4. Further \in Request /\ Further.step = "claim" /\ Further.hook = w /\ Further.next = n + 1
  BY <1>1 DEF Request
<1>5. request' = [request EXCEPT ![q] = IF n = Len(Batch[w]) THEN NoRequest ELSE Further]
  BY DEF NextEvent
<1>6. request'[q] = IF n = Len(Batch[w]) THEN NoRequest ELSE Further
  BY <1>2, <1>5
<1>7. accepted' \subseteq Webhooks
  BY <1>1, Typed DEF Types, NextEvent
<1> HIDE DEF Further
<1>8. CASE n = Len(Batch[w])
  BY <1>2, <1>3, <1>5, <1>6, <1>7, <1>8
<1>9. CASE n # Len(Batch[w])
  BY <1>1, <1>2, <1>4, <1>5, <1>6, <1>7, <1>9
<1> QED
  BY <1>8, <1>9

LEMMA TypeStep == ASSUME IInv, Next PROVE TypeOK'
<1>0. TypeOK /\ ClaimsOK /\ OpsOK /\ \A k \in Workers : WorkerOK(k)
  BY DEF IInv
<1>t. /\ transport \in Transports /\ faults \in FaultSets
      /\ claimed \subseteq Messages /\ accepted \subseteq Webhooks
      /\ request \in [Requests -> Request] /\ sends \in [Webhooks -> 0..MaxSends]
      /\ inbound \in Seq(Messages) /\ dlq \in Seq(Messages)
      /\ sub \in [Messages -> Subs] /\ deliveries \in [Messages -> 0..MaxDeliveries]
      /\ step \in [Workers -> Steps] /\ hand \in [Workers -> Messages \cup {NoMessage}]
      /\ resume \in BOOLEAN /\ ops \in Operator /\ replayRuns \in 0..MaxReplays
      /\ published \subseteq Messages /\ done \subseteq Messages
      /\ started \in [Messages -> Nat] /\ replays \in [Messages -> Nat]
  BY <1>0, Typed DEF Types, Types
<1> USE DEF setting, ingress, pubsub, worker, replay, history
<1>1. ASSUME NEW q \in Requests, NEW w \in Webhooks, Receive(q, w) PROVE TypeOK'
  <2>1. [step |-> "claim", hook |-> w, next |-> 1] \in Request
    BY DEF Request
  <2>2. request' \in [Requests -> Request]
    BY <1>1, <1>t, <2>1 DEF Receive
  <2>3. sends[w] + 1 \in 0..MaxSends
    BY <1>1, <1>t DEF Receive
  <2>4. sends' \in [Webhooks -> 0..MaxSends]
    BY <1>1, <1>t, <2>3 DEF Receive
  <2> QED
    BY <1>1, <1>t, <2>2, <2>4, Typed DEF Receive, Types
<1>e. ASSUME NEW q \in Requests, NextEvent(q), request[q].step # "idle"
      PROVE  request' \in [Requests -> Request] /\ accepted' \subseteq Webhooks
  <2>1. request' = [request EXCEPT ![q] = request'[q]] /\ request'[q] \in Request /\ accepted' \subseteq Webhooks
    BY <1>0, <1>e, NextEventMoves
  <2> QED
    BY <1>t, <2>1
<1>2. ASSUME NEW q \in Requests, Claim(q) PROVE TypeOK'
  <2>1. request[q].step = "claim"
    BY <1>2 DEF Claim
  <2>2. Event(q) \in Messages
    BY <1>0, <2>1, EventTyped
  <2>3. ASSUME request' = [request EXCEPT ![q].step = "publish"], UNCHANGED accepted
        PROVE  request' \in [Requests -> Request] /\ accepted' \subseteq Webhooks
    <3>0. request[q] \in Request
      BY <1>t
    <3>1. [request[q] EXCEPT !.step = "publish"] \in Request
      BY <3>0 DEF Request
    <3>2. request' = [request EXCEPT ![q] = [request[q] EXCEPT !.step = "publish"]]
      BY <2>3
    <3> QED
      BY <1>t, <2>3, <3>1, <3>2
  <2>4. request' \in [Requests -> Request] /\ accepted' \subseteq Webhooks
    BY <1>2, <1>e, <2>1, <2>3 DEF Claim
  <2>5. claimed' \subseteq Messages
    BY <1>2, <1>t, <2>2 DEF Claim
  <2> QED
    BY <1>2, <1>t, <2>4, <2>5, Typed DEF Claim, Types
<1>3. ASSUME NEW q \in Requests, Publish(q) PROVE TypeOK'
  <2>1. request[q].step = "publish"
    BY <1>3 DEF Publish
  <2>2. Event(q) \in Messages
    BY <1>0, <2>1, EventTyped
  <2>3. request' \in [Requests -> Request] /\ accepted' \subseteq Webhooks
    BY <1>3, <1>e, <2>1 DEF Publish
  <2>4. inbound' \in Seq(Messages) /\ published' \subseteq Messages
    BY <1>3, <1>t, <2>2 DEF Publish
  <2> QED
    BY <1>3, <1>t, <2>3, <2>4, Typed DEF Publish, Types
<1>4. ASSUME NEW q \in Requests, RequestFails(q) PROVE TypeOK'
  <2>1. NoRequest \in Request
    BY DEF NoRequest, Request
  <2>2. request' \in [Requests -> Request]
    BY <1>4, <1>t, <2>1 DEF RequestFails
  <2> QED
    BY <1>4, <1>t, <2>2, Typed DEF RequestFails, Types
<1>g. ASSUME NEW m \in Messages, GivenBack(m) PROVE sub' \in [Messages -> Subs]
  <2>1. (IF deliveries[m] < MaxDeliveries THEN "ready" ELSE "dead") \in Subs
    BY DEF Subs
  <2> QED
    BY <1>g, <1>t, <2>1 DEF GivenBack
<1>5. ASSUME NEW m \in Messages, LeaseExpires(m) PROVE TypeOK'
  <2>1. sub' \in [Messages -> Subs]
    BY <1>5, <1>g DEF LeaseExpires
  <2> QED
    BY <1>5, <1>t, <2>1, Typed DEF LeaseExpires, Types
<1>h. ASSUME NEW k \in Workers, NEW m \in Messages, Take(k, m)
      PROVE  step' \in [Workers -> Steps] /\ hand' \in [Workers -> Messages \cup {NoMessage}]
  BY <1>h, <1>t DEF Take, Steps
<1>d. ASSUME NEW k \in Workers, Drop(k)
      PROVE  step' \in [Workers -> Steps] /\ hand' \in [Workers -> Messages \cup {NoMessage}]
  BY <1>d, <1>t DEF Drop, Steps
<1>6. ASSUME NEW k \in Workers, Pop(k) PROVE TypeOK'
  <2>1. inbound # <<>> /\ inbound' = Tail(inbound)
    BY <1>6 DEF Pop
  <2>2. inbound' \in Seq(Messages) /\ Head(inbound) \in Messages
    BY <1>t, <2>1, TailFacts
  <2>3. step' \in [Workers -> Steps] /\ hand' \in [Workers -> Messages \cup {NoMessage}]
    BY <1>6, <1>h, <2>2 DEF Pop
  <2> QED
    BY <1>6, <1>t, <2>2, <2>3, Typed DEF Pop, Types
<1>7. ASSUME NEW k \in Workers, Pull(k) PROVE TypeOK'
  <2>1. PICK m \in Messages : /\ sub[m] = "ready" /\ Take(k, m)
                              /\ sub' = [sub EXCEPT ![m] = k]
                              /\ deliveries' = [deliveries EXCEPT ![m] = @ + 1]
    BY <1>7 DEF Pull
  <2>2. deliveries[m] < MaxDeliveries
    BY <1>0, <2>1, OneTransport DEF IInv, TransportOK, RedisOK, PubSubOK
  <2>3. deliveries[m] + 1 \in 0..MaxDeliveries
    BY <1>t, <2>2
  <2>4. deliveries' \in [Messages -> 0..MaxDeliveries]
    BY <1>t, <2>1, <2>3
  <2>5. sub' \in [Messages -> Subs]
    BY <1>t, <2>1 DEF Subs
  <2>6. step' \in [Workers -> Steps] /\ hand' \in [Workers -> Messages \cup {NoMessage}]
    BY <1>h, <2>1
  <2> QED
    BY <1>7, <1>t, <2>4, <2>5, <2>6, Typed DEF Pull, Types
<1>8. ASSUME NEW k \in Workers, Begin(k) PROVE TypeOK'
  <2>1. hand[k] \in Messages
    BY <1>0, <1>8 DEF Begin, WorkerOK
  <2>2. started' \in [Messages -> Nat]
    <3>1. started[hand[k]] + 1 \in Nat
      BY <1>t, <2>1
    <3>2. started' = started \/ started' = [started EXCEPT ![hand[k]] = started[hand[k]] + 1]
      BY <1>8 DEF Begin
    <3> QED
      BY <1>t, <3>1, <3>2
  <2>3. step' \in [Workers -> Steps]
    BY <1>8, <1>t DEF Begin, Steps
  <2> QED
    BY <1>8, <1>t, <2>2, <2>3, Typed DEF Begin, Types
<1>9. ASSUME NEW k \in Workers, Work(k) PROVE TypeOK'
  <2>1. hand[k] \in Messages
    BY <1>0, <1>9 DEF Work, WorkerOK
  <2>2. done' \subseteq Messages
    BY <1>9, <1>t, <2>1 DEF Work
  <2>3. step' \in [Workers -> Steps] /\ hand' \in [Workers -> Messages \cup {NoMessage}]
    <3>1. CASE Drop(k)
      BY <1>d, <3>1
    <3>2. CASE step' = [step EXCEPT ![k] = "ack"] /\ UNCHANGED hand
      BY <1>t, <3>2 DEF Steps
    <3>3. CASE step' = [step EXCEPT ![k] = "nack"] /\ UNCHANGED hand
      BY <1>t, <3>3 DEF Steps
    <3> QED
      BY <1>9, <3>1, <3>2, <3>3 DEF Work
  <2> QED
    BY <1>9, <1>t, <2>2, <2>3, Typed DEF Work, Types
<1>10. ASSUME NEW k \in Workers, Ack(k) PROVE TypeOK'
  <2>1. hand[k] \in Messages
    BY <1>0, <1>10 DEF Ack, WorkerOK
  <2>2. sub' \in [Messages -> Subs]
    BY <1>10, <1>t, <2>1 DEF Ack, Subs
  <2>3. step' \in [Workers -> Steps] /\ hand' \in [Workers -> Messages \cup {NoMessage}]
    <3>1. CASE Drop(k)
      BY <1>d, <3>1
    <3>2. CASE step' = [step EXCEPT ![k] = "nack"] /\ UNCHANGED hand
      BY <1>t, <3>2 DEF Steps
    <3> QED
      BY <1>10, <3>1, <3>2 DEF Ack
  <2> QED
    BY <1>10, <1>t, <2>2, <2>3, Typed DEF Ack, Types
<1>11. ASSUME NEW k \in Workers, Nack(k) PROVE TypeOK'
  <2>1. hand[k] \in Messages
    BY <1>0, <1>11 DEF Nack, WorkerOK
  <2>2. sub' \in [Messages -> Subs] /\ dlq' \in Seq(Messages)
    <3>1. /\ sub' = sub \/ GivenBack(hand[k])
          /\ dlq' = dlq \/ dlq' = Append(dlq, hand[k])
      BY <1>11 DEF Nack
    <3>2. sub' \in [Messages -> Subs]
      BY <1>t, <1>g, <2>1, <3>1
    <3>3. dlq \in Seq(Messages) /\ Append(dlq, hand[k]) \in Seq(Messages)
      BY <1>t, <2>1
    <3>4. dlq' \in Seq(Messages)
      BY <3>1, <3>3
    <3> QED
      BY <3>2, <3>4
  <2>3. step' \in [Workers -> Steps] /\ hand' \in [Workers -> Messages \cup {NoMessage}]
    BY <1>11, <1>d DEF Nack
  <2> QED
    BY <1>11, <1>t, <2>2, <2>3, Typed DEF Nack, Types
<1>12. ASSUME NEW k \in Workers, ConsumeResume(k) PROVE TypeOK'
  BY <1>12, <1>t, Typed DEF ConsumeResume, Types
<1>13. ASSUME NEW k \in Workers, WorkerDies(k) PROVE TypeOK'
  <2>1. step' \in [Workers -> Steps] /\ hand' \in [Workers -> Messages \cup {NoMessage}]
    BY <1>13, <1>d DEF WorkerDies
  <2> QED
    BY <1>13, <1>t, <2>1, Typed DEF WorkerDies, Types
<1>14. ASSUME NEW dry \in BOOLEAN, StartReplay(dry) PROVE TypeOK'
  <2>1. ops' \in Operator
    <3>1. ops' = [step |-> "pop", msg |-> NoMessage, dry |-> dry, left |-> MaxMessages]
      BY <1>14 DEF StartReplay, NoOps
    <3>2. MaxMessages \in 0..MaxMessages
      OBVIOUS
    <3> QED
      BY <3>1, <3>2 DEF Operator
  <2>2. replayRuns' \in 0..MaxReplays
    BY <1>14, <1>t DEF StartReplay
  <2> QED
    BY <1>14, <1>t, <2>1, <2>2, Typed DEF StartReplay, Types
<1>15. ASSUME ReplayPop PROVE TypeOK'
  <2>1. NoOps \in Operator
    BY DEF NoOps, Operator
  <2>2. ASSUME dlq # <<>>, ops.left > 0, dlq' = Tail(dlq),
               ops' = [ops EXCEPT !.step = IF ops.dry THEN "push_back" ELSE "publish",
                                  !.msg = Head(dlq), !.left = @ - 1]
        PROVE  ops' \in Operator /\ dlq' \in Seq(Messages)
    <3>1. Head(dlq) \in Messages /\ dlq' \in Seq(Messages)
      BY <1>t, <2>2, TailFacts
    <3>2. ops.left - 1 \in 0..MaxMessages
      BY <1>t, <2>2, SMTT(20) DEF Operator
    <3> QED
      BY <1>t, <2>2, <3>1, <3>2 DEF Operator
  <2>3. ops' \in Operator /\ dlq' \in Seq(Messages)
    BY <1>15, <1>t, <2>1, <2>2 DEF ReplayPop
  <2> QED
    BY <1>15, <1>t, <2>3, Typed DEF ReplayPop, Types
<1>o. [ops EXCEPT !.step = "pop", !.msg = NoMessage] \in Operator
  BY <1>t DEF Operator
<1>16. ASSUME ReplayPublish PROVE TypeOK'
  <2>1. ops.msg \in Messages
    BY <1>0, <1>16 DEF ReplayPublish, OpsOK
  <2>2. ops' \in Operator
    BY <1>16, <1>o DEF ReplayPublish
  <2>3. inbound' \in Seq(Messages) /\ sub' \in [Messages -> Subs]
    <3>1. /\ sub' = sub \/ sub' = [sub EXCEPT ![ops.msg] = "ready"]
          /\ inbound' = inbound \/ inbound' = Append(inbound, ops.msg)
      BY <1>16 DEF ReplayPublish
    <3>2. sub' \in [Messages -> Subs]
      BY <1>t, <2>1, <3>1 DEF Subs
    <3>3. inbound \in Seq(Messages) /\ Append(inbound, ops.msg) \in Seq(Messages)
      BY <1>t, <2>1
    <3>4. inbound' \in Seq(Messages)
      BY <3>1, <3>3
    <3> QED
      BY <3>2, <3>4
  <2>4. replays' \in [Messages -> Nat]
    BY <1>16, <1>t, <2>1, SMTT(20) DEF ReplayPublish
  <2> QED
    BY <1>16, <1>t, <2>2, <2>3, <2>4, Typed DEF ReplayPublish, Types
<1>17. ASSUME ReplayPushBack PROVE TypeOK'
  <2>1. ops.msg \in Messages
    BY <1>0, <1>17 DEF ReplayPushBack, OpsOK
  <2>2. ops' \in Operator
    BY <1>17, <1>o DEF ReplayPushBack
  <2>3. dlq' \in Seq(Messages)
    BY <1>17, <1>t, <2>1 DEF ReplayPushBack
  <2> QED
    BY <1>17, <1>t, <2>2, <2>3, Typed DEF ReplayPushBack, Types
<1>18. ASSUME OpsDies PROVE TypeOK'
  <2>1. ops' \in Operator
    BY <1>18 DEF OpsDies, NoOps, Operator
  <2> QED
    BY <1>18, <1>t, <2>1, Typed DEF OpsDies, Types
<1> QED
  BY <1>1, <1>2, <1>3, <1>4, <1>5, <1>6, <1>7, <1>8, <1>9, <1>10, <1>11, <1>12, <1>13,
     <1>14, <1>15, <1>16, <1>17, <1>18 DEF Next, Serve, Loop, ReplayStep

-----------------------------------------------------------------------------
(* Requests and claims *)

\* One request moves: the others stand where they stood.
LEMMA OthersStand ==
  ASSUME TypeOK, NEW q \in Requests, request' = [request EXCEPT ![q] = request'[q]],
         NEW r \in Requests, r # q
  PROVE  request'[r] = request[r] /\ Event(r)' = Event(r)
<1>1. request \in [Requests -> Request]
  BY Typed DEF Types
<1>2. request'[r] = request[r]
  BY <1>1
<1> QED
  BY <1>2 DEF Event

LEMMA ClaimsMove ==
  ASSUME TypeOK, ClaimsOK, NEW q \in Requests, request' = [request EXCEPT ![q] = request'[q]],
         UNCHANGED transport, claimed \subseteq claimed', published' \subseteq claimed',
         request'[q].step # "idle" =>
           /\ transport = "redis" /\ request'[q].hook \in Webhooks
           /\ request'[q].next \in 1..Len(Batch[request'[q].hook]),
         \A r \in Requests : request[r].step = "publish" /\ r # q => Event(r) \notin published' \ published,
         request'[q].step = "publish" =>
           /\ Event(q)' \in claimed' \ published'
           /\ \A r \in Requests : request[r].step = "publish" /\ r # q => Event(r) # Event(q)'
  PROVE  ClaimsOK'
<1>1. ASSUME NEW r \in Requests PROVE RequestOK(r)'
  <2>1. CASE r = q
    <3>1. request'[q].step = "publish" =>
            \A s \in Requests : request'[s].step = "publish" /\ s # q => Event(s)' # Event(q)'
      BY OthersStand
    <3> QED
      BY <2>1, <3>1 DEF RequestOK
  <2>2. CASE r # q
    <3>1. request'[r] = request[r] /\ Event(r)' = Event(r) /\ RequestOK(r)
      BY <2>2, OthersStand DEF ClaimsOK
    <3>2. ASSUME request[r].step = "publish", NEW s \in Requests, request'[s].step = "publish", s # r
          PROVE  Event(s)' # Event(r)'
      <4>1. CASE s = q
        BY <2>2, <3>1, <3>2, <4>1
      <4>2. CASE s # q
        <5>1. request[s].step = "publish" /\ Event(s)' = Event(s)
          BY <3>2, <4>2, OthersStand
        <5> QED
          BY <3>1, <3>2, <5>1 DEF RequestOK
      <4> QED
        BY <4>1, <4>2
    <3>3. request[r].step = "publish" => Event(r)' \in claimed' \ published'
      BY <2>2, <3>1 DEF RequestOK
    <3> QED
      BY <3>1, <3>2, <3>3 DEF RequestOK
  <2> QED
    BY <2>1, <2>2
<1> QED
  BY <1>1 DEF ClaimsOK

\* Nobody else touches requests, claims or what was published.
LEMMA ClaimsStay ==
  ASSUME ClaimsOK, UNCHANGED <<transport, request, claimed, published>>
  PROVE  ClaimsOK'
  BY DEF ClaimsOK, RequestOK, Event

LEMMA ClaimsStep == ASSUME IInv, Next PROVE ClaimsOK'
<1>0. TypeOK /\ ClaimsOK
  BY DEF IInv
<1> USE DEF setting, ingress, pubsub, worker, replay, history
<1>t. request \in [Requests -> Request] /\ published \subseteq claimed
  BY <1>0, Typed DEF Types, ClaimsOK
<1>1. ASSUME NEW q \in Requests, NEW w \in Webhooks, Receive(q, w) PROVE ClaimsOK'
  <2>1. request'[q] = [step |-> "claim", hook |-> w, next |-> 1]
    BY <1>1, <1>t DEF Receive
  <2>2. request' = [request EXCEPT ![q] = request'[q]]
    BY <1>1, <2>1 DEF Receive
  <2>3. Batch[w] \in Seq(Messages) /\ Batch[w] # <<>>
    OBVIOUS
  <2>4. 1 \in 1..Len(Batch[w])
    BY <2>3
  <2>5. UNCHANGED <<transport, claimed, published>> /\ transport = "redis"
    BY <1>1 DEF Receive
  <2>6. /\ request'[q].step = "claim" /\ request'[q].hook \in Webhooks
        /\ request'[q].next \in 1..Len(Batch[request'[q].hook])
    BY <2>1, <2>4
  <2> QED
    BY <1>0, <1>t, <2>2, <2>5, <2>6, ClaimsMove
<1>2. ASSUME NEW q \in Requests, Claim(q) PROVE ClaimsOK'
  <2>1. request[q].step = "claim" /\ UNCHANGED <<transport, published>> /\ claimed' = claimed \cup {Event(q)}
    BY <1>2 DEF Claim
  <2>2. transport = "redis" /\ RequestOK(q)
    BY <1>0, <2>1 DEF ClaimsOK, RequestOK
  <2>3. CASE Event(q) \in claimed /\ NextEvent(q)
    BY <1>0, <1>t, <2>1, <2>2, <2>3, NextEventMoves, ClaimsMove
  <2>4. CASE Event(q) \notin claimed /\ request' = [request EXCEPT ![q].step = "publish"]
    <3>1. request' = [request EXCEPT ![q] = [request[q] EXCEPT !.step = "publish"]]
      BY <2>4
    <3>2. request[q] \in Request
      BY <1>t
    <3>3. /\ request'[q].step = "publish" /\ request'[q].hook = request[q].hook
          /\ request'[q].next = request[q].next
      BY <1>t, <3>1, <3>2 DEF Request
    <3>4. request' = [request EXCEPT ![q] = request'[q]]
      BY <1>t, <3>1
    <3>5. Event(q)' = Event(q)
      BY <3>3 DEF Event
    <3>6. \A r \in Requests : request[r].step = "publish" => Event(r) \in claimed
      BY <1>0 DEF ClaimsOK, RequestOK
    <3>7. Event(q)' \in claimed' \ published'
      BY <1>t, <2>1, <2>4, <3>5
    <3>8. /\ request'[q].hook \in Webhooks
          /\ request'[q].next \in 1..Len(Batch[request'[q].hook])
      BY <2>1, <2>2, <3>3 DEF RequestOK
    <3>9. \A r \in Requests : request[r].step = "publish" /\ r # q =>
            Event(r) \notin published' \ published /\ Event(r) # Event(q)'
      BY <2>1, <2>4, <3>5, <3>6
    <3>10. claimed \subseteq claimed' /\ published' \subseteq claimed' /\ UNCHANGED transport
      BY <1>t, <2>1
    <3> QED
      BY <1>0, <2>2, <3>4, <3>7, <3>8, <3>9, <3>10, ClaimsMove
  <2> QED
    BY <1>2, <2>3, <2>4 DEF Claim
<1>3. ASSUME NEW q \in Requests, Publish(q) PROVE ClaimsOK'
  <2>1. /\ request[q].step = "publish" /\ UNCHANGED <<transport, claimed>> /\ NextEvent(q)
        /\ published' = published \cup {Event(q)}
    BY <1>3 DEF Publish
  <2>2. transport = "redis" /\ RequestOK(q)
    BY <1>0, <2>1 DEF ClaimsOK, RequestOK
  <2>3. published' \subseteq claimed'
    BY <1>t, <2>1, <2>2 DEF RequestOK
  <2>4. \A r \in Requests : request[r].step = "publish" /\ r # q => Event(r) \notin published' \ published
    BY <2>1, <2>2 DEF RequestOK
  <2>5. /\ request' = [request EXCEPT ![q] = request'[q]]
        /\ request'[q].step \in {"idle", "claim"}
        /\ request'[q].step # "idle" => /\ request'[q].hook \in Webhooks
                                        /\ request'[q].next \in 1..Len(Batch[request'[q].hook])
    BY <1>0, <2>1, NextEventMoves
  <2> QED
    BY <1>0, <2>1, <2>2, <2>3, <2>4, <2>5, ClaimsMove
<1>4. ASSUME NEW q \in Requests, RequestFails(q) PROVE ClaimsOK'
  <2>1. request' = [request EXCEPT ![q] = NoRequest] /\ UNCHANGED <<transport, claimed, published>>
    BY <1>4 DEF RequestFails
  <2>2. request'[q] = NoRequest /\ NoRequest.step = "idle"
    BY <1>t, <2>1 DEF NoRequest
  <2> QED
    BY <1>0, <1>t, <2>1, <2>2, ClaimsMove
<1>5. ASSUME NEW m \in Messages, LeaseExpires(m) PROVE ClaimsOK'
  BY <1>0, <1>5, ClaimsStay DEF LeaseExpires
<1>6. ASSUME NEW k \in Workers, Loop(k) \/ ConsumeResume(k) \/ WorkerDies(k) PROVE ClaimsOK'
  <2>1. UNCHANGED <<transport, request, claimed, published>>
    BY <1>6 DEF Loop, Pop, Pull, Begin, Work, Ack, Nack, ConsumeResume, WorkerDies
  <2> QED
    BY <1>0, <2>1, ClaimsStay
<1>7. ASSUME ReplayStep \/ OpsDies \/ \E dry \in BOOLEAN : StartReplay(dry) PROVE ClaimsOK'
  <2>1. UNCHANGED <<transport, request, claimed, published>>
    BY <1>7 DEF ReplayStep, ReplayPop, ReplayPublish, ReplayPushBack, OpsDies, StartReplay
  <2> QED
    BY <1>0, <2>1, ClaimsStay
<1> QED
  BY <1>1, <1>2, <1>3, <1>4, <1>5, <1>6, <1>7 DEF Next, Serve
-----------------------------------------------------------------------------
(* The topic, workers and the operator *)

\* What every step does to a message on the topic: it never leaves it, and it
\* is acknowledged only by the worker that has it done.
LEMMA TopicStep ==
  ASSUME IInv, Next
  PROVE  /\ UNCHANGED <<transport, faults>> /\ done \subseteq done'
         /\ \A m \in Messages : sub[m] # "none" => sub'[m] # "none"
         /\ \A m \in Messages : sub'[m] = "acked" => sub[m] = "acked" \/ m \in done
         /\ transport = "redis" => UNCHANGED sub
<1> DEFINE Good == /\ UNCHANGED <<transport, faults>> /\ done \subseteq done'
                   /\ \A m \in Messages : sub[m] # "none" => sub'[m] # "none"
                   /\ \A m \in Messages : sub'[m] = "acked" => sub[m] = "acked" \/ m \in done
                   /\ transport = "redis" => UNCHANGED sub
<1>0. TypeOK /\ ClaimsOK /\ TransportOK /\ \A k \in Workers : WorkerOK(k)
  BY DEF IInv
<1> USE DEF setting, ingress, pubsub, worker, replay, history
<1>t. /\ sub \in [Messages -> Subs] /\ hand \in [Workers -> Messages \cup {NoMessage}]
      /\ transport = "redis" => \A m \in Messages : sub[m] = "none"
  BY <1>0, Typed DEF Types, TransportOK, RedisOK
<1>s. ASSUME UNCHANGED <<transport, faults, sub, done>> PROVE Good
  BY <1>s
<1>o. ASSUME UNCHANGED <<transport, faults, done>>, NEW m \in Messages, NEW v, transport # "redis",
             v # "none", v = "acked" => m \in done, sub' = [sub EXCEPT ![m] = v]
      PROVE  Good
  <2>1. \A n \in Messages : sub'[n] = sub[n] \/ (n = m /\ sub'[n] = v)
    BY <1>o, <1>t
  <2> QED
    BY <1>o, <2>1
<1>g. ASSUME UNCHANGED <<transport, faults, done>>, NEW m \in Messages, GivenBack(m), transport # "redis"
      PROVE  Good
  <2> DEFINE v == IF deliveries[m] < MaxDeliveries THEN "ready" ELSE "dead"
  <2>1. v # "none" /\ v # "acked" /\ sub' = [sub EXCEPT ![m] = v]
    BY <1>g DEF GivenBack
  <2> HIDE DEF v, Good
  <2> QED
    BY <1>g, <1>o, <2>1
<1> HIDE DEF Good
<1>1. ASSUME NEW q \in Requests, Serve(q) \/ RequestFails(q) \/ \E w \in Webhooks : Receive(q, w) PROVE Good
  <2>1. UNCHANGED <<transport, faults, sub, done>>
    BY <1>1 DEF Serve, Claim, Publish, RequestFails, Receive
  <2> QED
    BY <1>s, <2>1
<1>2. ASSUME NEW m \in Messages, LeaseExpires(m) PROVE Good
  <2>1. transport # "redis"
    BY <1>2, <1>t DEF LeaseExpires
  <2> QED
    BY <1>2, <1>g, <2>1 DEF LeaseExpires
<1>3. ASSUME NEW k \in Workers, Pop(k) \/ Begin(k) \/ ConsumeResume(k) \/ WorkerDies(k) PROVE Good
  <2>1. UNCHANGED <<transport, faults, sub, done>>
    BY <1>3 DEF Pop, Begin, ConsumeResume, WorkerDies
  <2> QED
    BY <1>s, <2>1
<1>4. ASSUME NEW k \in Workers, Pull(k) PROVE Good
  <2>1. PICK m \in Messages : sub[m] = "ready" /\ sub' = [sub EXCEPT ![m] = k]
    BY <1>4 DEF Pull
  <2>2. k # "none" /\ k # "acked" /\ transport # "redis"
    BY <1>t, <2>1
  <2> QED
    BY <1>4, <1>o, <2>1, <2>2 DEF Pull
<1>5. ASSUME NEW k \in Workers, Work(k) PROVE Good
  <2>1. UNCHANGED <<transport, faults, sub>> /\ done \subseteq done'
    BY <1>5 DEF Work
  <2> QED
    BY <2>1 DEF Good
<1>6. ASSUME NEW k \in Workers, Ack(k) PROVE Good
  <2>1. hand[k] \in Messages /\ hand[k] \in done /\ transport = "pubsub"
    BY <1>0, <1>6 DEF Ack, WorkerOK
  <2>2. CASE sub' = [sub EXCEPT ![hand[k]] = "acked"]
    BY <1>6, <1>o, <2>1, <2>2 DEF Ack
  <2>3. CASE UNCHANGED sub
    BY <1>6, <1>s, <2>3 DEF Ack
  <2> QED
    BY <1>6, <2>2, <2>3 DEF Ack
<1>7. ASSUME NEW k \in Workers, Nack(k) PROVE Good
  <2>1. hand[k] \in Messages
    BY <1>0, <1>7 DEF Nack, WorkerOK
  <2>2. CASE UNCHANGED sub
    BY <1>7, <1>s, <2>2 DEF Nack
  <2>3. CASE transport = "pubsub" /\ GivenBack(hand[k])
    BY <1>7, <1>g, <2>1, <2>3 DEF Nack
  <2> QED
    BY <1>7, <2>2, <2>3 DEF Nack
<1>8. ASSUME ReplayPublish PROVE Good
  <2>1. ops.msg \in Messages
    BY <1>8 DEF ReplayPublish, OpsOK, IInv
  <2>2. CASE UNCHANGED sub
    BY <1>8, <1>s, <2>2 DEF ReplayPublish
  <2>3. CASE transport = "pubsub" /\ sub' = [sub EXCEPT ![ops.msg] = "ready"]
    BY <1>8, <1>o, <2>1, <2>3 DEF ReplayPublish
  <2> QED
    BY <1>8, <2>2, <2>3 DEF ReplayPublish
<1>9. ASSUME ReplayPop \/ ReplayPushBack \/ OpsDies \/ \E dry \in BOOLEAN : StartReplay(dry) PROVE Good
  <2>1. UNCHANGED <<transport, faults, sub, done>>
    BY <1>9 DEF ReplayPop, ReplayPushBack, OpsDies, StartReplay
  <2> QED
    BY <1>s, <2>1
<1>10. Good
  BY <1>1, <1>2, <1>3, <1>4, <1>5, <1>6, <1>7, <1>8, <1>9 DEF Next, Loop, ReplayStep
<1> QED
  BY <1>10 DEF Good

LEMMA AckedStep == ASSUME IInv, Next PROVE AckedDone'
<1>1. AckedDone
  BY DEF IInv
<1> QED
  BY <1>1, TopicStep DEF AckedDone

LEMMA WorkersStep == ASSUME IInv, Next, NEW k \in Workers PROVE WorkerOK(k)'
<1>0. TypeOK /\ WorkerOK(k)
  BY DEF IInv
<1> USE DEF setting, ingress, pubsub, worker, replay, history
<1>t. step \in [Workers -> Steps] /\ hand \in [Workers -> Messages \cup {NoMessage}] /\ sub \in [Messages -> Subs]
  BY <1>0, Typed DEF Types
<1>g. /\ transport' = transport /\ done \subseteq done'
      /\ \A m \in Messages : sub[m] # "none" => sub'[m] # "none"
  BY TopicStep
<1>s. ASSUME step'[k] = step[k], hand'[k] = hand[k] PROVE WorkerOK(k)'
  BY <1>0, <1>g, <1>s DEF WorkerOK
<1>i. ASSUME step'[k] = "idle", hand'[k] = NoMessage PROVE WorkerOK(k)'
  BY <1>i DEF WorkerOK
<1>m. ASSUME step[k] # "idle", step'[k] \in {"begin", "work", "nack"}, hand'[k] = hand[k] PROVE WorkerOK(k)'
  BY <1>0, <1>g, <1>m DEF WorkerOK
<1>d. ASSUME Drop(k) PROVE WorkerOK(k)'
  BY <1>d, <1>i, <1>t DEF Drop
<1>1. ASSUME NEW j \in Workers, j # k, Loop(j) \/ ConsumeResume(j) \/ WorkerDies(j) PROVE WorkerOK(k)'
  <2>1. step'[k] = step[k] /\ hand'[k] = hand[k]
    BY <1>1, <1>t DEF Loop, Pop, Pull, Begin, Work, Ack, Nack, ConsumeResume, WorkerDies, Take, Drop
  <2> QED
    BY <1>s, <2>1
<1>2. ASSUME UNCHANGED <<step, hand>> PROVE WorkerOK(k)'
  BY <1>2, <1>s
<1>3. ASSUME Pop(k) PROVE WorkerOK(k)'
  <2>1. Head(inbound) \in Messages
    BY <1>0, <1>3, TailFacts, Typed DEF Pop, Types
  <2>2. step'[k] = "begin" /\ hand'[k] = Head(inbound) /\ transport = "redis"
    BY <1>3, <1>t DEF Pop, Take
  <2> QED
    BY <1>g, <2>1, <2>2 DEF WorkerOK
<1>4. ASSUME Pull(k) PROVE WorkerOK(k)'
  <2>1. PICK m \in Messages : Take(k, m) /\ sub' = [sub EXCEPT ![m] = k]
    BY <1>4 DEF Pull
  <2>2. step'[k] = "begin" /\ hand'[k] = m /\ sub'[m] = k /\ k # "none"
    BY <1>t, <2>1 DEF Take
  <2> QED
    BY <2>2 DEF WorkerOK
<1>5. ASSUME Begin(k) PROVE WorkerOK(k)'
  BY <1>5, <1>m, <1>t DEF Begin
<1>6. ASSUME Work(k) PROVE WorkerOK(k)'
  <2>1. hand[k] \in Messages /\ (transport = "pubsub" => sub[hand[k]] # "none")
    BY <1>0, <1>6 DEF Work, WorkerOK
  <2>2. ASSUME done' = done \cup {hand[k]}, transport = "pubsub", step'[k] = "ack", hand' = hand PROVE WorkerOK(k)'
    BY <1>g, <2>1, <2>2 DEF WorkerOK
  <2> QED
    BY <1>6, <1>d, <1>m, <1>t, <2>2 DEF Work
<1>7. ASSUME Ack(k) \/ Nack(k) \/ WorkerDies(k) PROVE WorkerOK(k)'
  BY <1>7, <1>d, <1>m, <1>t DEF Ack, Nack, WorkerDies
<1>8. ASSUME ConsumeResume(k) PROVE WorkerOK(k)'
  BY <1>8, <1>2 DEF ConsumeResume
<1>9. ASSUME NEW q \in Requests, Serve(q) \/ RequestFails(q) \/ \E w \in Webhooks : Receive(q, w) PROVE WorkerOK(k)'
  BY <1>9, <1>2 DEF Serve, Claim, Publish, RequestFails, Receive
<1>10. ASSUME NEW m \in Messages, LeaseExpires(m) PROVE WorkerOK(k)'
  BY <1>10, <1>2 DEF LeaseExpires
<1>11. ASSUME ReplayStep \/ OpsDies \/ \E dry \in BOOLEAN : StartReplay(dry) PROVE WorkerOK(k)'
  BY <1>11, <1>2 DEF ReplayStep, ReplayPop, ReplayPublish, ReplayPushBack, OpsDies, StartReplay
<1> QED
  BY <1>1, <1>3, <1>4, <1>5, <1>6, <1>7, <1>8, <1>9, <1>10, <1>11 DEF Next, Loop

LEMMA OpsStep == ASSUME IInv, Next PROVE OpsOK'
<1>0. TypeOK /\ OpsOK
  BY DEF IInv
<1> USE DEF setting, ingress, pubsub, worker, replay, history
<1>t. ops \in Operator /\ dlq \in Seq(Messages)
  BY <1>0, Typed DEF Types
<1>s. ASSUME UNCHANGED ops PROVE OpsOK'
  BY <1>0, <1>s DEF OpsOK
<1>n. ASSUME ops'.step \in {"idle", "pop"}, ops'.msg = NoMessage PROVE OpsOK'
  BY <1>n DEF OpsOK
<1>p. ASSUME ops' = [ops EXCEPT !.step = "pop", !.msg = NoMessage] PROVE OpsOK'
  BY <1>n, <1>p, <1>t DEF Operator
<1>i. ASSUME ops' = NoOps PROVE OpsOK'
  BY <1>i, <1>n DEF NoOps
<1>1. ASSUME NEW q \in Requests, Serve(q) \/ RequestFails(q) \/ \E w \in Webhooks : Receive(q, w) PROVE OpsOK'
  BY <1>1, <1>s DEF Serve, Claim, Publish, RequestFails, Receive
<1>2. ASSUME NEW m \in Messages, LeaseExpires(m) PROVE OpsOK'
  BY <1>2, <1>s DEF LeaseExpires
<1>3. ASSUME NEW k \in Workers, Loop(k) \/ ConsumeResume(k) \/ WorkerDies(k) PROVE OpsOK'
  BY <1>3, <1>s DEF Loop, Pop, Pull, Begin, Work, Ack, Nack, ConsumeResume, WorkerDies
<1>4. ASSUME NEW dry \in BOOLEAN, StartReplay(dry) PROVE OpsOK'
  BY <1>4, <1>n DEF StartReplay, NoOps
<1>5. ASSUME ReplayPop PROVE OpsOK'
  <2>1. CASE ops' = NoOps
    BY <1>i, <2>1
  <2>2. CASE dlq # <<>> /\ ops' = [ops EXCEPT !.step = IF ops.dry THEN "push_back" ELSE "publish",
                                              !.msg = Head(dlq), !.left = @ - 1]
    <3>1. Head(dlq) \in Messages
      BY <1>t, <2>2, TailFacts
    <3>2. ops'.msg = Head(dlq) /\ ops'.step \in {"push_back", "publish"}
      BY <1>t, <2>2 DEF Operator
    <3> QED
      BY <3>1, <3>2 DEF OpsOK
  <2> QED
    BY <1>5, <2>1, <2>2 DEF ReplayPop
<1>6. ASSUME ReplayPublish \/ ReplayPushBack \/ OpsDies PROVE OpsOK'
  BY <1>6, <1>p, <1>i DEF ReplayPublish, ReplayPushBack, OpsDies
<1> QED
  BY <1>1, <1>2, <1>3, <1>4, <1>5, <1>6 DEF Next, ReplayStep

-----------------------------------------------------------------------------
(* The two deployments *)

LEMMA PubSubStep == ASSUME IInv, Next, transport = "pubsub" PROVE PubSubOK'
<1>0. TypeOK /\ ClaimsOK /\ OpsOK /\ PubSubOK /\ \A k \in Workers : WorkerOK(k)
  BY DEF IInv, TransportOK
<1> USE DEF setting, ingress, pubsub, worker, replay, history
<1>t. /\ sub \in [Messages -> Subs] /\ deliveries \in [Messages -> 0..MaxDeliveries]
      /\ dlq \in Seq(Messages) /\ ops \in Operator
  BY <1>0, Typed DEF Types
<1>u. \A q \in Requests : request[q].step = "idle"
  BY <1>0 DEF ClaimsOK, RequestOK
\* Steps that leave the dead letters, the operator and the lists alone.
<1>s. ASSUME UNCHANGED <<inbound, claimed, dlq, ops>>,
             \A m \in Messages : /\ Waits(m) => sub'[m] = sub[m]
                                 /\ sub'[m] = "none" => deliveries'[m] = 0
                                 /\ sub'[m] = "ready" => deliveries'[m] < MaxDeliveries
      PROVE  PubSubOK'
  BY <1>0, <1>s DEF PubSubOK, Waits, InList
<1>c. ASSUME UNCHANGED <<inbound, claimed, dlq, ops, sub, deliveries>> PROVE PubSubOK'
  BY <1>0, <1>c DEF PubSubOK, Waits, InList
\* Steps that change one message on the topic.
<1>o. ASSUME UNCHANGED <<inbound, claimed, dlq, ops>>, NEW m \in Messages, NEW v, v # "none",
             sub[m] # "none", sub' = [sub EXCEPT ![m] = v],
             \A n \in Messages : n # m => deliveries'[n] = deliveries[n],
             v = "ready" => deliveries'[m] < MaxDeliveries
      PROVE  PubSubOK'
  <2>1. \A n \in Messages : sub'[n] = IF n = m THEN v ELSE sub[n]
    BY <1>o, <1>t
  <2>2. ~Waits(m)
    BY <1>0, <1>o DEF PubSubOK
  <2>3. \A n \in Messages : /\ Waits(n) => sub'[n] = sub[n]
                            /\ sub'[n] = "none" => deliveries'[n] = 0
                            /\ sub'[n] = "ready" => deliveries'[n] < MaxDeliveries
    BY <1>0, <1>o, <2>1, <2>2 DEF PubSubOK
  <2> QED
    BY <1>o, <1>s, <2>3
<1>g. ASSUME UNCHANGED <<inbound, claimed, dlq, ops, deliveries>>, NEW m \in Messages, GivenBack(m), sub[m] # "none"
      PROVE  PubSubOK'
  <2> DEFINE v == IF deliveries[m] < MaxDeliveries THEN "ready" ELSE "dead"
  <2>1. v # "none" /\ (v = "ready" => deliveries[m] < MaxDeliveries) /\ sub' = [sub EXCEPT ![m] = v]
    BY <1>g DEF GivenBack
  <2> HIDE DEF v
  <2> QED
    BY <1>g, <1>o, <2>1
<1>1. ASSUME NEW q \in Requests, Serve(q) \/ RequestFails(q) \/ \E w \in Webhooks : Receive(q, w) PROVE FALSE
  BY <1>1, <1>u DEF Serve, Claim, Publish, RequestFails, Receive
<1>2. ASSUME NEW m \in Messages, LeaseExpires(m) PROVE PubSubOK'
  BY <1>2, <1>g DEF LeaseExpires
<1>3. ASSUME NEW k \in Workers, Begin(k) \/ Work(k) \/ ConsumeResume(k) \/ WorkerDies(k) PROVE PubSubOK'
  BY <1>3, <1>c DEF Begin, Work, ConsumeResume, WorkerDies
<1>4. ASSUME NEW k \in Workers, Pop(k) PROVE FALSE
  BY <1>4 DEF Pop
<1>5. ASSUME NEW k \in Workers, Pull(k) PROVE PubSubOK'
  <2>1. PICK m \in Messages : /\ sub[m] = "ready" /\ sub' = [sub EXCEPT ![m] = k]
                              /\ deliveries' = [deliveries EXCEPT ![m] = @ + 1]
    BY <1>5 DEF Pull
  <2>2. k # "none" /\ k # "ready"
    OBVIOUS
  <2>3. \A n \in Messages : n # m => deliveries'[n] = deliveries[n]
    BY <1>t, <2>1
  <2> QED
    BY <1>5, <1>o, <2>1, <2>2, <2>3 DEF Pull
<1>6. ASSUME NEW k \in Workers, Ack(k) PROVE PubSubOK'
  <2>1. hand[k] \in Messages
    BY <1>0, <1>6 DEF Ack, WorkerOK
  <2>2. UNCHANGED <<inbound, claimed, dlq, ops, deliveries>>
    BY <1>6 DEF Ack
  <2>3. CASE UNCHANGED sub
    BY <1>c, <2>2, <2>3
  <2>4. CASE sub[hand[k]] \in {"ready"} \cup Workers /\ sub' = [sub EXCEPT ![hand[k]] = "acked"]
    BY <1>o, <2>1, <2>2, <2>4
  <2> QED
    BY <1>6, <2>3, <2>4 DEF Ack
<1>7. ASSUME NEW k \in Workers, Nack(k) PROVE PubSubOK'
  <2>1. hand[k] \in Messages
    BY <1>0, <1>7 DEF Nack, WorkerOK
  <2>2. UNCHANGED <<inbound, claimed, dlq, ops, deliveries>>
    BY <1>7 DEF Nack
  <2>3. CASE UNCHANGED sub
    BY <1>c, <2>2, <2>3
  <2>4. CASE sub[hand[k]] = k /\ GivenBack(hand[k])
    BY <1>g, <2>1, <2>2, <2>4
  <2> QED
    BY <1>7, <2>3, <2>4 DEF Nack
\* The operator.
<1>8. ASSUME NEW dry \in BOOLEAN, StartReplay(dry) PROVE PubSubOK'
  <2>1. ops.msg = NoMessage /\ ops'.msg = NoMessage /\ UNCHANGED <<inbound, claimed, dlq, sub, deliveries>>
    BY <1>0, <1>8 DEF StartReplay, NoOps, OpsOK
  <2> QED
    BY <1>0, <2>1 DEF PubSubOK, Waits, InList
<1>9. ASSUME OpsDies PROVE PubSubOK'
  <2>1. ops'.msg = NoMessage /\ UNCHANGED <<inbound, claimed, dlq, sub, deliveries>>
    BY <1>9 DEF OpsDies, NoOps
  <2> QED
    BY <1>0, <2>1 DEF PubSubOK, Waits, InList
<1>10. ASSUME ReplayPop PROVE PubSubOK'
  <2>1. ops.msg = NoMessage /\ UNCHANGED <<inbound, claimed, sub, deliveries>>
    BY <1>0, <1>10 DEF ReplayPop, OpsOK
  <2>2. CASE UNCHANGED dlq /\ ops' = NoOps
    <3>1. ops'.msg = NoMessage
      BY <2>2 DEF NoOps
    <3> QED
      BY <1>0, <2>1, <2>2, <3>1 DEF PubSubOK, Waits, InList
  <2>3. CASE dlq # <<>> /\ dlq' = Tail(dlq)
             /\ ops' = [ops EXCEPT !.step = IF ops.dry THEN "push_back" ELSE "publish",
                                   !.msg = Head(dlq), !.left = @ - 1]
    <3>1. ops'.msg = Head(dlq)
      BY <1>t, <2>3 DEF Operator
    <3>2. Once(dlq') /\ ~InList(Head(dlq), dlq')
      BY <1>0, <1>t, <2>3, OnceTail DEF Once, PubSubOK
    <3>3. \A m : InList(m, dlq) <=> InList(m, dlq') \/ m = Head(dlq)
      BY <1>t, <2>3, InTail
    <3>4. \A m \in Messages : Waits(m)' => Waits(m)
      BY <3>1, <3>3 DEF Waits
    <3>5. \A m \in Messages : ops'.msg = m => ~InList(m, dlq')
      BY <3>1, <3>2
    <3> QED
      BY <1>0, <2>1, <3>2, <3>4, <3>5 DEF PubSubOK, Once
  <2> QED
    BY <1>10, <2>2, <2>3 DEF ReplayPop
<1>11. ASSUME ReplayPublish PROVE PubSubOK'
  <2> DEFINE m == ops.msg
  <2>1. m \in Messages /\ Waits(m)
    BY <1>0, <1>11 DEF ReplayPublish, OpsOK, Waits
  <2>2. /\ UNCHANGED <<inbound, claimed, dlq, deliveries>> /\ sub' = [sub EXCEPT ![m] = "ready"]
        /\ ops' = [ops EXCEPT !.step = "pop", !.msg = NoMessage]
    BY <1>11 DEF ReplayPublish
  <2>3. ops'.msg = NoMessage
    BY <1>t, <2>2 DEF Operator
  <2>4. ~InList(m, dlq) /\ sub[m] = "none" /\ deliveries[m] = 0
    BY <1>0, <2>1 DEF PubSubOK
  <2>5. \A n \in Messages : sub'[n] = IF n = m THEN "ready" ELSE sub[n]
    BY <1>t, <2>2
  <2>6. \A n \in Messages : Waits(n)' => InList(n, dlq) /\ n # m
    BY <2>2, <2>3, <2>4 DEF Waits
  <2>7. \A n \in Messages : /\ ops'.msg = n => ~InList(n, dlq')
                            /\ Waits(n)' => sub'[n] = "none"
                            /\ sub'[n] = "none" => deliveries'[n] = 0
                            /\ sub'[n] = "ready" => deliveries'[n] < MaxDeliveries
    BY <1>0, <2>2, <2>3, <2>4, <2>5, <2>6 DEF PubSubOK, Waits
  <2> QED
    BY <1>0, <2>2, <2>7 DEF PubSubOK
<1>12. ASSUME ReplayPushBack PROVE PubSubOK'
  <2> DEFINE m == ops.msg
  <2>1. m \in Messages /\ ~InList(m, dlq) /\ Waits(m)
    BY <1>0, <1>12 DEF ReplayPushBack, OpsOK, PubSubOK, Waits
  <2>2. /\ UNCHANGED <<inbound, claimed, sub, deliveries>> /\ dlq' = Append(dlq, m)
        /\ ops' = [ops EXCEPT !.step = "pop", !.msg = NoMessage]
    BY <1>12 DEF ReplayPushBack
  <2>3. ops'.msg = NoMessage
    BY <1>t, <2>2 DEF Operator
  <2>4. Once(dlq')
    BY <1>0, <1>t, <2>1, <2>2, OnceAppend, ZenonT(40) DEF Once, PubSubOK
  <2>5. \A n : InList(n, dlq') <=> InList(n, dlq) \/ n = m
    BY <1>t, <2>1, <2>2, InAppend
  <2>6. \A n \in Messages : Waits(n)' => Waits(n)
    BY <2>1, <2>3, <2>5 DEF Waits
  <2> QED
    BY <1>0, <2>2, <2>3, <2>4, <2>6 DEF PubSubOK, Once
<1> QED
  BY <1>1, <1>2, <1>3, <1>4, <1>5, <1>6, <1>7, <1>8, <1>9, <1>10, <1>11, <1>12 DEF Next, Loop, ReplayStep

LEMMA TransportStep == ASSUME IInv, Next PROVE TransportOK'
<1>1. ASSUME transport' = "redis" PROVE RedisOK'
  BY <1>1, TopicStep DEF IInv, TransportOK, RedisOK
<1>2. ASSUME transport' = "pubsub" PROVE PubSubOK'
  BY <1>2, TopicStep, PubSubStep
<1> QED
  BY <1>1, <1>2 DEF TransportOK
-----------------------------------------------------------------------------
(* How many runs a message starts on Redis *)

LEMMA CountsTyped ==
  ASSUME TypeOK, NEW m
  PROVE  /\ Cardinality(Places(m, inbound)) \in Nat
         /\ IsFiniteSet(Beginning(m)) /\ Cardinality(Beginning(m)) \in Nat
         /\ ToStart(m) \in Nat /\ Sent(m) \in {0, 1}
<1>1. inbound \in Seq(Messages) /\ Beginning(m) \in SUBSET Workers
  BY Typed DEF Types, Beginning
<1>2. /\ Cardinality(Places(m, inbound)) \in Nat
      /\ IsFiniteSet(Beginning(m)) /\ Cardinality(Beginning(m)) \in Nat
  BY <1>1, PlacesFinite, FS_Subset, FS_CardinalityType
<1> QED
  BY <1>2 DEF ToStart, Sent

\* A worker that takes the message has it to begin; one that goes on has not.
LEMMA BeginningTaken ==
  ASSUME TypeOK, NEW k \in Workers, NEW m \in Messages, Take(k, m), NEW n
  PROVE  Cardinality(Beginning(n)') = Cardinality(Beginning(n)) + (IF n = m THEN 1 ELSE 0)
<1>1. step \in [Workers -> Steps] /\ hand \in [Workers -> Messages \cup {NoMessage}]
  BY Typed DEF Types
<1>2. \A j \in Workers : /\ step'[j] = IF j = k THEN "begin" ELSE step[j]
                         /\ hand'[j] = IF j = k THEN m ELSE hand[j]
  BY <1>1 DEF Take
<1>3. k \notin Beginning(n)
  BY DEF Take, Beginning
<1>4. Beginning(n)' = IF n = m THEN Beginning(n) \cup {k} ELSE Beginning(n)
  BY <1>2, <1>3 DEF Beginning
<1>5. IsFiniteSet(Beginning(n)) /\ Cardinality(Beginning(n)) \in Nat
  BY CountsTyped
<1>6. CASE n = m
  <2>1. Cardinality(Beginning(n) \cup {k}) = Cardinality(Beginning(n)) + 1
    BY <1>3, <1>5, FS_AddElement
  <2> QED
    BY <1>4, <1>6, <2>1
<1>7. CASE n # m
  BY <1>4, <1>5, <1>7
<1> QED
  BY <1>6, <1>7

LEMMA BeginningLeft ==
  ASSUME TypeOK, NEW k \in Workers, step'[k] # "begin", NEW n,
         \A j \in Workers : j # k => step'[j] = step[j] /\ hand'[j] = hand[j]
  PROVE  Cardinality(Beginning(n)')
           = Cardinality(Beginning(n)) - (IF step[k] = "begin" /\ hand[k] = n THEN 1 ELSE 0)
<1>1. Beginning(n)' = Beginning(n) \ {k}
  BY DEF Beginning
<1>2. k \in Beginning(n) <=> step[k] = "begin" /\ hand[k] = n
  BY DEF Beginning
<1>3. IsFiniteSet(Beginning(n)) /\ Cardinality(Beginning(n)) \in Nat
  BY CountsTyped
<1>4. Cardinality(Beginning(n) \ {k})
        = IF k \in Beginning(n) THEN Cardinality(Beginning(n)) - 1 ELSE Cardinality(Beginning(n))
  BY <1>3, FS_RemoveElement
<1> QED
  BY <1>1, <1>2, <1>3, <1>4

LEMMA RunsStep == ASSUME IInv, Next, transport = "redis" PROVE RunsOK'
<1>0. TypeOK /\ TypeOK' /\ ClaimsOK /\ OpsOK /\ RunsOK /\ \A k \in Workers : WorkerOK(k)
  BY TypeStep DEF IInv
<1> USE DEF setting, ingress, pubsub, worker, replay, history
<1>t. /\ step \in [Workers -> Steps] /\ hand \in [Workers -> Messages \cup {NoMessage}]
      /\ inbound \in Seq(Messages) /\ started \in [Messages -> Nat] /\ replays \in [Messages -> Nat]
      /\ started' \in [Messages -> Nat] /\ replays' \in [Messages -> Nat]
  BY <1>0, Typed DEF Types
<1>n. \A m : /\ Cardinality(Places(m, inbound)) \in Nat /\ Cardinality(Beginning(m)) \in Nat
             /\ Sent(m) \in {0, 1}
  BY <1>0, CountsTyped
<1>p. \A m : /\ Cardinality(Places(m, inbound))' \in Nat /\ Cardinality(Beginning(m))' \in Nat
             /\ Sent(m)' \in {0, 1}
  <2>1. ASSUME NEW m PROVE IsFiniteSet(Beginning(m)')
    <3>1. Beginning(m)' \in SUBSET Workers
      BY DEF Beginning
    <3> QED
      BY <3>1, FS_Subset
  <2>2. inbound' \in Seq(Messages)
    BY <1>0, Typed DEF Types
  <2> QED
    BY <2>1, <2>2, PlacesFinite, FS_CardinalityType DEF Sent
<1>r. \A m \in Messages :
        started[m] + (Cardinality(Places(m, inbound)) + Cardinality(Beginning(m))) <= Sent(m) + replays[m]
  BY <1>0 DEF RunsOK, ToStart
\* It is enough that what was started and what is to be started grow no faster
\* than what was sent and replayed.
<1>k. ASSUME \A m \in Messages :
               started'[m] + (Cardinality(Places(m, inbound))' + Cardinality(Beginning(m))') + (Sent(m) + replays[m])
                 <= started[m] + (Cardinality(Places(m, inbound)) + Cardinality(Beginning(m))) + (Sent(m)' + replays'[m])
      PROVE  RunsOK'
  <2>1. ASSUME NEW m \in Messages PROVE (started[m] + ToStart(m) <= Sent(m) + replays[m])'
    <3>1. started[m] \in Nat /\ replays[m] \in Nat /\ started'[m] \in Nat /\ replays'[m] \in Nat
      BY <1>t
    <3>2. /\ Cardinality(Places(m, inbound)) \in Nat /\ Cardinality(Beginning(m)) \in Nat
          /\ Cardinality(Places(m, inbound))' \in Nat /\ Cardinality(Beginning(m))' \in Nat
          /\ Sent(m) \in Nat /\ Sent(m)' \in Nat
      BY <1>n, <1>p
    <3>3. started[m] + (Cardinality(Places(m, inbound)) + Cardinality(Beginning(m))) <= Sent(m) + replays[m]
      BY <1>r
    <3>4. started'[m] + (Cardinality(Places(m, inbound))' + Cardinality(Beginning(m))') + (Sent(m) + replays[m])
            <= started[m] + (Cardinality(Places(m, inbound)) + Cardinality(Beginning(m))) + (Sent(m)' + replays'[m])
      BY <1>k
    <3>5. started'[m] + (Cardinality(Places(m, inbound))' + Cardinality(Beginning(m))')
            <= Sent(m)' + replays'[m]
      <4> DEFINE a == started[m]
                 b == Cardinality(Places(m, inbound))
                 c == Cardinality(Beginning(m))
                 d == Sent(m)
                 e == replays[m]
                 A == started'[m]
                 B == Cardinality(Places(m, inbound))'
                 C == Cardinality(Beginning(m))'
                 D == Sent(m)'
                 E == replays'[m]
      <4>1. a \in Nat /\ b \in Nat /\ c \in Nat /\ d \in Nat /\ e \in Nat
        BY <3>1, <3>2
      <4>2. A \in Nat /\ B \in Nat /\ C \in Nat /\ D \in Nat /\ E \in Nat
        BY <3>1, <3>2
      <4>3. a + (b + c) <= d + e
        BY <3>3
      <4>4. A + (B + C) + (d + e) <= a + (b + c) + (D + E)
        BY <3>4
      <4>5. A + (B + C) <= D + E
        <5> HIDE DEF a, b, c, d, e, A, B, C, D, E
        <5> QED
          BY <4>1, <4>2, <4>3, <4>4
      <4> QED
        BY <4>5
    <3> QED
      BY <3>5 DEF ToStart
  <2> QED
    BY <2>1 DEF RunsOK
<1>s. ASSUME UNCHANGED <<inbound, step, hand, started, published, replays>> PROVE RunsOK'
  <2>1. \A m \in Messages : ToStart(m)' = ToStart(m) /\ Sent(m)' = Sent(m)
    BY <1>s DEF ToStart, Places, Beginning, Sent
  <2> QED
    BY <1>0, <1>s, <2>1 DEF RunsOK
<1>1. ASSUME NEW q \in Requests, Publish(q) PROVE RunsOK'
  <2> DEFINE e == Event(q)
  <2>1. /\ e \in Messages /\ e \notin published
    BY <1>0, <1>1, EventTyped DEF Publish, ClaimsOK, RequestOK
  <2>2. /\ inbound' = Append(inbound, e) /\ published' = published \cup {e}
        /\ UNCHANGED <<step, hand, started, replays>>
    BY <1>1 DEF Publish
  <2> HIDE DEF e
  <2>3. ASSUME NEW m \in Messages
        PROVE  started'[m] + (Cardinality(Places(m, inbound))' + Cardinality(Beginning(m))') + (Sent(m) + replays[m])
                 <= started[m] + (Cardinality(Places(m, inbound)) + Cardinality(Beginning(m))) + (Sent(m)' + replays'[m])
    <3>1. Cardinality(Places(m, inbound))' = Cardinality(Places(m, inbound)) + (IF m = e THEN 1 ELSE 0)
      BY <1>t, <2>1, <2>2, PlacesAppend
    <3>2. Sent(m)' = Sent(m) + (IF m = e THEN 1 ELSE 0)
      BY <2>1, <2>2 DEF Sent
    <3>3. Cardinality(Beginning(m))' = Cardinality(Beginning(m))
      BY <2>2 DEF Beginning
    <3>4. started[m] \in Nat /\ replays[m] \in Nat /\ started'[m] = started[m] /\ replays'[m] = replays[m]
      BY <1>t, <2>2
    <3> QED
      BY <1>n, <3>1, <3>2, <3>3, <3>4
  <2> QED
    BY <1>k, <2>3
<1>2. ASSUME NEW k \in Workers, Pop(k) PROVE RunsOK'
  <2> DEFINE e == Head(inbound)
  <2>1. e \in Messages /\ inbound # <<>>
    BY <1>t, <1>2, TailFacts DEF Pop
  <2>2. /\ inbound' = Tail(inbound) /\ Take(k, e) /\ UNCHANGED <<started, published, replays>>
    BY <1>2 DEF Pop
  <2>3. ASSUME NEW m \in Messages
        PROVE  started'[m] + (Cardinality(Places(m, inbound))' + Cardinality(Beginning(m))') + (Sent(m) + replays[m])
                 <= started[m] + (Cardinality(Places(m, inbound)) + Cardinality(Beginning(m))) + (Sent(m)' + replays'[m])
    <3>1. Cardinality(Places(m, inbound)) = Cardinality(Places(m, inbound))' + (IF m = e THEN 1 ELSE 0)
      BY <1>t, <2>1, <2>2, PlacesTail
    <3>2. Sent(m)' = Sent(m)
      BY <2>2 DEF Sent
    <3>3. Cardinality(Beginning(m)') = Cardinality(Beginning(m)) + (IF m = e THEN 1 ELSE 0)
      BY <1>0, <2>1, <2>2, BeginningTaken
    <3>4. started[m] \in Nat /\ replays[m] \in Nat /\ started'[m] = started[m] /\ replays'[m] = replays[m]
      BY <1>t, <2>2
    <3> QED
      BY <1>n, <1>p, <3>1, <3>2, <3>3, <3>4, SMTT(20)
  <2> QED
    BY <1>k, <2>3
<1>3. ASSUME NEW k \in Workers, Begin(k) PROVE RunsOK'
  <2> DEFINE e == hand[k]
  <2>1. /\ step[k] = "begin" /\ step'[k] # "begin" /\ e \in Messages
        /\ \A j \in Workers : j # k => step'[j] = step[j] /\ hand'[j] = hand[j]
    BY <1>0, <1>3, <1>t DEF Begin, WorkerOK
  <2>2. /\ started' = started \/ started' = [started EXCEPT ![e] = @ + 1]
        /\ UNCHANGED <<inbound, published, replays>>
    BY <1>3 DEF Begin
  <2> HIDE DEF e
  <2>3. ASSUME NEW m \in Messages
        PROVE  started'[m] + (Cardinality(Places(m, inbound))' + Cardinality(Beginning(m))') + (Sent(m) + replays[m])
                 <= started[m] + (Cardinality(Places(m, inbound)) + Cardinality(Beginning(m))) + (Sent(m)' + replays'[m])
    <3>1. Cardinality(Places(m, inbound))' = Cardinality(Places(m, inbound)) /\ Sent(m)' = Sent(m)
      BY <2>2 DEF Sent
    <3>2. Cardinality(Beginning(m)') = Cardinality(Beginning(m)) - (IF m = e THEN 1 ELSE 0)
      BY <1>0, <2>1, BeginningLeft DEF e
    <3>3. /\ started[m] \in Nat /\ replays[m] \in Nat /\ replays'[m] = replays[m]
          /\ started'[m] = started[m] \/ (m = e /\ started'[m] = started[m] + 1)
      BY <1>t, <2>1, <2>2
    <3>4. started'[m] <= started[m] + (IF m = e THEN 1 ELSE 0) /\ started'[m] \in Nat
      BY <3>3
    <3>5. /\ Cardinality(Places(m, inbound)) \in Nat /\ Cardinality(Beginning(m)) \in Nat
          /\ Cardinality(Places(m, inbound))' \in Nat /\ Cardinality(Beginning(m))' \in Nat
          /\ Sent(m) \in Nat /\ Sent(m)' \in Nat
      BY <1>n, <1>p
    <3> DEFINE a == started[m]
               b == Cardinality(Places(m, inbound))
               c == Cardinality(Beginning(m))
               s == Sent(m) + replays[m]
               x == IF m = e THEN 1 ELSE 0
               A == started'[m]
               C == Cardinality(Beginning(m))'
    <3>6. a \in Nat /\ b \in Nat /\ c \in Nat /\ s \in Nat /\ A \in Nat /\ C \in Nat /\ x \in Nat
      BY <3>3, <3>4, <3>5
    <3>7. A <= a + x /\ C = c - x
      BY <3>2, <3>4
    <3>8. A + (b + C) + s <= a + (b + c) + s
      <4> HIDE DEF a, b, c, s, x, A, C
      <4> QED
        BY <3>6, <3>7
    <3> QED
      BY <3>1, <3>3, <3>8
  <2> QED
    BY <1>k, <2>3
\* A worker that goes on or dies has one message less to begin, or as many.
<1>w. ASSUME NEW k \in Workers, step'[k] # "begin", UNCHANGED <<inbound, started, published, replays>>,
             \A j \in Workers : j # k => step'[j] = step[j] /\ hand'[j] = hand[j]
      PROVE  RunsOK'
  <2>3. ASSUME NEW m \in Messages
        PROVE  started'[m] + (Cardinality(Places(m, inbound))' + Cardinality(Beginning(m))') + (Sent(m) + replays[m])
                 <= started[m] + (Cardinality(Places(m, inbound)) + Cardinality(Beginning(m))) + (Sent(m)' + replays'[m])
    <3>1. Cardinality(Places(m, inbound))' = Cardinality(Places(m, inbound)) /\ Sent(m)' = Sent(m)
      BY <1>w DEF Sent
    <3>2. Cardinality(Beginning(m)')
            = Cardinality(Beginning(m)) - (IF step[k] = "begin" /\ hand[k] = m THEN 1 ELSE 0)
      BY <1>0, <1>w, BeginningLeft
    <3>3. started[m] \in Nat /\ replays[m] \in Nat /\ started'[m] = started[m] /\ replays'[m] = replays[m]
      BY <1>t, <1>w
    <3> QED
      BY <1>n, <1>p, <3>1, <3>2, <3>3, SMTT(20)
  <2> QED
    BY <1>k, <2>3
<1>4. ASSUME NEW k \in Workers, Work(k) \/ Ack(k) \/ Nack(k) \/ WorkerDies(k) PROVE RunsOK'
  <2>1. step'[k] # "begin" /\ \A j \in Workers : j # k => step'[j] = step[j] /\ hand'[j] = hand[j]
    BY <1>4, <1>t DEF Work, Ack, Nack, WorkerDies, Drop
  <2>2. UNCHANGED <<inbound, started, published, replays>>
    BY <1>4 DEF Work, Ack, Nack, WorkerDies
  <2> QED
    BY <1>w, <2>1, <2>2
<1>5. ASSUME NEW k \in Workers, Pull(k) PROVE FALSE
  BY <1>5 DEF Pull, IInv, TransportOK, RedisOK
<1>6. ASSUME NEW k \in Workers, ConsumeResume(k) PROVE RunsOK'
  BY <1>6, <1>s DEF ConsumeResume
<1>7. ASSUME NEW q \in Requests, Claim(q) \/ RequestFails(q) \/ \E w \in Webhooks : Receive(q, w) PROVE RunsOK'
  BY <1>7, <1>s DEF Claim, RequestFails, Receive
<1>8. ASSUME NEW m \in Messages, LeaseExpires(m) PROVE RunsOK'
  BY <1>8, <1>s DEF LeaseExpires
<1>9. ASSUME ReplayPublish PROVE RunsOK'
  <2> DEFINE e == ops.msg
  <2>1. e \in Messages
    BY <1>0, <1>9 DEF ReplayPublish, OpsOK
  <2>2. /\ inbound' = Append(inbound, e) /\ replays' = [replays EXCEPT ![e] = @ + 1]
        /\ UNCHANGED <<step, hand, started, published>>
    BY <1>9 DEF ReplayPublish
  <2> HIDE DEF e
  <2>3. ASSUME NEW m \in Messages
        PROVE  started'[m] + (Cardinality(Places(m, inbound))' + Cardinality(Beginning(m))') + (Sent(m) + replays[m])
                 <= started[m] + (Cardinality(Places(m, inbound)) + Cardinality(Beginning(m))) + (Sent(m)' + replays'[m])
    <3>1. Cardinality(Places(m, inbound))' = Cardinality(Places(m, inbound)) + (IF m = e THEN 1 ELSE 0)
      BY <1>t, <2>1, <2>2, PlacesAppend
    <3>2. Sent(m)' = Sent(m) /\ Cardinality(Beginning(m))' = Cardinality(Beginning(m))
      BY <2>2 DEF Sent, Beginning
    <3>3. /\ started[m] \in Nat /\ replays[m] \in Nat /\ started'[m] = started[m]
          /\ replays'[m] = replays[m] + (IF m = e THEN 1 ELSE 0)
      BY <1>t, <2>1, <2>2
    <3> QED
      BY <1>n, <3>1, <3>2, <3>3, SMTT(20)
  <2> QED
    BY <1>k, <2>3
<1>10. ASSUME ReplayPop \/ ReplayPushBack \/ OpsDies \/ \E dry \in BOOLEAN : StartReplay(dry) PROVE RunsOK'
  BY <1>10, <1>s DEF ReplayPop, ReplayPushBack, OpsDies, StartReplay
<1> QED
  BY <1>1, <1>2, <1>3, <1>4, <1>5, <1>6, <1>7, <1>8, <1>9, <1>10 DEF Next, Serve, Loop, ReplayStep

-----------------------------------------------------------------------------
(* Nothing is lost *)

AboutToPublish(m) == \E q \in Requests : request[q].step = "publish" /\ Event(q) = m

LEMMA CopiesAre ==
  ASSUME NEW m
  PROVE  /\ Copies(m) <=> \/ AboutToPublish(m) \/ InList(m, inbound) \/ InList(m, dlq) \/ InHand(m)
                          \/ ops.msg = m \/ sub[m] # "none"
         /\ Copies(m)' <=> \/ AboutToPublish(m)' \/ InList(m, inbound)' \/ InList(m, dlq)' \/ InHand(m)'
                           \/ ops'.msg = m \/ sub'[m] # "none"
  BY DEF Copies, AboutToPublish

\* A request that was not about to publish may do what it likes.
LEMMA RequestMoves ==
  ASSUME TypeOK, NEW q \in Requests, request' = [request EXCEPT ![q] = request'[q]],
         NEW m, AboutToPublish(m), request[q].step # "publish" \/ Event(q) # m
  PROVE  AboutToPublish(m)'
<1>1. PICK r \in Requests : request[r].step = "publish" /\ Event(r) = m
  BY DEF AboutToPublish
<1>2. r # q
  BY <1>1
<1>3. request'[r].step = "publish" /\ Event(r)' = m
  BY <1>1, <1>2, OthersStand
<1> QED
  BY <1>3 DEF AboutToPublish

\* Nor may a worker's step take a message from another one.
LEMMA HandStays ==
  ASSUME TypeOK, NEW k \in Workers, \A j \in Workers : j # k => hand'[j] = hand[j],
         NEW m, InHand(m), hand[k] # m
  PROVE  InHand(m)'
  BY DEF InHand

\* Every step that faults allow leaves a copy of a message, or has it done.
LEMMA CopyStep ==
  ASSUME IInv, Next, faults \cap Losing = {}, NEW m \in Messages, Copies(m)
  PROVE  Copies(m)' \/ m \in done'
<1>0. TypeOK /\ ClaimsOK /\ OpsOK /\ \A k \in Workers : WorkerOK(k)
  BY DEF IInv
<1> USE DEF setting, ingress, pubsub, worker, replay, history
<1>t. /\ request \in [Requests -> Request] /\ inbound \in Seq(Messages) /\ dlq \in Seq(Messages)
      /\ hand \in [Workers -> Messages \cup {NoMessage}] /\ ops \in Operator
      /\ sub \in [Messages -> Subs] /\ transport \in {"redis", "pubsub"}
  BY <1>0, OneTransport, Typed DEF Types
<1>f. /\ "publish_error" \notin faults /\ "ingress_crash" \notin faults /\ "ops_crash" \notin faults
      /\ transport = "redis" => "crash" \notin faults
  BY DEF Losing
<1>c. \/ AboutToPublish(m) \/ InList(m, inbound) \/ InList(m, dlq) \/ InHand(m)
      \/ ops.msg = m \/ sub[m] # "none"
  BY CopiesAre
<1>k. \/ AboutToPublish(m)' \/ InList(m, inbound)' \/ InList(m, dlq)' \/ InHand(m)'
      \/ ops'.msg = m \/ sub'[m] # "none"
      => Copies(m)'
  BY CopiesAre
<1>g. sub[m] # "none" => Copies(m)'
  BY <1>k, TopicStep
<1>r. UNCHANGED request /\ AboutToPublish(m) => Copies(m)'
  BY <1>k DEF AboutToPublish, Event
<1>i. UNCHANGED inbound /\ InList(m, inbound) => Copies(m)'
  BY <1>k
<1>d. UNCHANGED dlq /\ InList(m, dlq) => Copies(m)'
  BY <1>k
<1>h. UNCHANGED hand /\ InHand(m) => Copies(m)'
  BY <1>k DEF InHand
<1>o. UNCHANGED ops /\ ops.msg = m => Copies(m)'
  BY <1>k
<1>s. ASSUME UNCHANGED <<request, inbound, dlq, hand, ops>> PROVE Copies(m)'
  BY <1>c, <1>d, <1>g, <1>h, <1>i, <1>o, <1>r, <1>s
<1>1. ASSUME NEW q \in Requests, NEW w \in Webhooks, Receive(q, w) PROVE Copies(m)'
  <2>1. request' = [request EXCEPT ![q] = request'[q]] /\ request[q].step # "publish"
    BY <1>1, <1>t DEF Receive
  <2>2. AboutToPublish(m) => Copies(m)'
    BY <1>0, <1>k, <2>1, RequestMoves
  <2> QED
    BY <1>1, <1>c, <1>d, <1>g, <1>h, <1>i, <1>o, <2>2 DEF Receive
<1>2. ASSUME NEW q \in Requests, Claim(q) PROVE Copies(m)'
  <2>1. request' = [request EXCEPT ![q] = request'[q]] /\ request[q].step # "publish"
    <3>1. CASE NextEvent(q)
      BY <1>0, <1>2, <3>1, NextEventMoves DEF Claim
    <3>2. CASE request' = [request EXCEPT ![q].step = "publish"]
      BY <1>2, <1>t, <3>2 DEF Claim
    <3> QED
      BY <1>2, <3>1, <3>2 DEF Claim
  <2>2. AboutToPublish(m) => Copies(m)'
    BY <1>0, <1>k, <2>1, RequestMoves
  <2> QED
    BY <1>2, <1>c, <1>d, <1>g, <1>h, <1>i, <1>o, <2>2 DEF Claim
<1>3. ASSUME NEW q \in Requests, Publish(q) PROVE Copies(m)'
  <2>1. request' = [request EXCEPT ![q] = request'[q]] /\ Event(q) \in Messages
    BY <1>0, <1>3, NextEventMoves, EventTyped DEF Publish
  <2>2. \A n : InList(n, inbound)' <=> InList(n, inbound) \/ n = Event(q)
    <3>1. \A n : InList(n, Append(inbound, Event(q))) <=> InList(n, inbound) \/ n = Event(q)
      BY <1>t, <2>1, InAppend
    <3> QED
      BY <1>3, <3>1 DEF Publish, InList
  <2>3. AboutToPublish(m) => Copies(m)'
    BY <1>0, <1>k, <2>1, <2>2, RequestMoves
  <2>4. InList(m, inbound) => Copies(m)'
    BY <1>k, <2>2
  <2> QED
    BY <1>3, <1>c, <1>d, <1>g, <1>h, <1>o, <2>3, <2>4 DEF Publish
<1>4. ASSUME NEW q \in Requests, RequestFails(q) PROVE FALSE
  BY <1>4, <1>f DEF RequestFails
<1>5. ASSUME NEW n \in Messages, LeaseExpires(n) PROVE Copies(m)'
  BY <1>5, <1>s DEF LeaseExpires
<1>6. ASSUME NEW k \in Workers, Pop(k) PROVE Copies(m)'
  <2>1. /\ inbound # <<>> /\ inbound' = Tail(inbound) /\ hand[k] = NoMessage
        /\ hand' = [hand EXCEPT ![k] = Head(inbound)]
        /\ UNCHANGED <<request, dlq, ops>>
    BY <1>0, <1>6 DEF Pop, Take, WorkerOK
  <2>2. InList(m, inbound) => Copies(m)'
    <3>1. InList(m, inbound) => InList(m, inbound)' \/ m = Head(inbound)
      BY <1>t, <2>1, InTail
    <3>2. hand'[k] = Head(inbound)
      BY <1>t, <2>1
    <3> QED
      BY <1>k, <3>1, <3>2 DEF InHand
  <2>3. InHand(m) => Copies(m)'
    <3>1. hand[k] # m /\ \A j \in Workers : j # k => hand'[j] = hand[j]
      BY <1>t, <2>1
    <3> QED
      BY <1>0, <1>k, <3>1, HandStays
  <2> QED
    BY <1>c, <1>d, <1>g, <1>o, <1>r, <2>1, <2>2, <2>3
<1>7. ASSUME NEW k \in Workers, Pull(k) PROVE Copies(m)'
  <2>1. PICK n \in Messages : Take(k, n)
    BY <1>7 DEF Pull
  <2>2. InHand(m) => Copies(m)'
    <3>1. hand[k] # m /\ \A j \in Workers : j # k => hand'[j] = hand[j]
      BY <1>0, <1>t, <2>1 DEF Take, WorkerOK
    <3> QED
      BY <1>0, <1>k, <3>1, HandStays
  <2> QED
    BY <1>7, <1>c, <1>d, <1>g, <1>i, <1>o, <1>r, <2>2 DEF Pull
<1>8. ASSUME NEW k \in Workers, Begin(k) \/ ConsumeResume(k) PROVE Copies(m)'
  BY <1>8, <1>s DEF Begin, ConsumeResume
\* A worker lets go of a message.
<1>l. ASSUME NEW k \in Workers, Drop(k), UNCHANGED <<request, inbound, ops>>,
             InList(m, dlq) => Copies(m)', hand[k] = m => Copies(m)' \/ m \in done'
      PROVE  Copies(m)' \/ m \in done'
  <2>1. \A j \in Workers : j # k => hand'[j] = hand[j]
    BY <1>l, <1>t DEF Drop
  <2>2. InHand(m) => Copies(m)' \/ m \in done'
    BY <1>0, <1>k, <1>l, <2>1, HandStays
  <2> QED
    BY <1>c, <1>g, <1>i, <1>l, <1>o, <1>r, <2>2
<1>p. ASSUME NEW k \in Workers, step[k] # "idle", hand[k] = m, transport = "pubsub" PROVE Copies(m)'
  BY <1>0, <1>g, <1>p DEF WorkerOK
<1>9. ASSUME NEW k \in Workers, Work(k) PROVE Copies(m)' \/ m \in done'
  <2>1. UNCHANGED <<request, inbound, dlq, ops>>
    BY <1>9 DEF Work
  <2>2. CASE done' = done \cup {hand[k]} /\ Drop(k)
    BY <1>d, <1>l, <2>1, <2>2
  <2>3. CASE UNCHANGED hand
    BY <1>s, <2>1, <2>3
  <2> QED
    BY <1>9, <2>2, <2>3 DEF Work
<1>10. ASSUME NEW k \in Workers, Ack(k) PROVE Copies(m)' \/ m \in done'
  <2>1. UNCHANGED <<request, inbound, dlq, ops>> /\ step[k] = "ack" /\ transport = "pubsub"
    BY <1>0, <1>10 DEF Ack, WorkerOK
  <2>2. CASE Drop(k)
    BY <1>d, <1>l, <1>p, <2>1, <2>2
  <2>3. CASE UNCHANGED hand
    BY <1>s, <2>1, <2>3
  <2> QED
    BY <1>10, <2>2, <2>3 DEF Ack
<1>11. ASSUME NEW k \in Workers, Nack(k) PROVE Copies(m)' \/ m \in done'
  <2>1. UNCHANGED <<request, inbound, ops>> /\ step[k] = "nack" /\ Drop(k) /\ hand[k] \in Messages
    BY <1>0, <1>11 DEF Nack, WorkerOK
  <2>2. CASE UNCHANGED dlq /\ transport = "pubsub"
    BY <1>d, <1>l, <1>p, <2>1, <2>2
  <2>3. CASE dlq' = Append(dlq, hand[k])
    <3>1. \A n : InList(n, dlq)' <=> InList(n, dlq) \/ n = hand[k]
      <4>1. \A n : InList(n, Append(dlq, hand[k])) <=> InList(n, dlq) \/ n = hand[k]
        BY <1>t, <2>1, InAppend
      <4> QED
        BY <2>3, <4>1 DEF InList
    <3>2. (InList(m, dlq) \/ hand[k] = m) => Copies(m)'
      BY <1>k, <3>1
    <3> QED
      BY <1>l, <2>1, <3>2
  <2> QED
    BY <1>11, <2>2, <2>3 DEF Nack
<1>12. ASSUME NEW k \in Workers, WorkerDies(k) PROVE Copies(m)' \/ m \in done'
  <2>1. /\ UNCHANGED <<request, inbound, dlq, ops>> /\ step[k] # "idle" /\ Drop(k)
        /\ transport = "pubsub"
    BY <1>12, <1>f, <1>t DEF WorkerDies
  <2> QED
    BY <1>d, <1>l, <1>p, <2>1
\* The operator's message is put somewhere before another is taken.
<1>e. ASSUME UNCHANGED <<request, hand>>, InList(m, inbound) => Copies(m)',
             InList(m, dlq) => Copies(m)', ops.msg = m => Copies(m)'
      PROVE  Copies(m)'
  BY <1>c, <1>e, <1>g, <1>h, <1>r
<1>13. ASSUME NEW dry \in BOOLEAN, StartReplay(dry) PROVE Copies(m)'
  <2>1. ops.msg # m
    BY <1>0, <1>13 DEF StartReplay, OpsOK
  <2> QED
    BY <1>13, <1>d, <1>e, <1>i, <2>1 DEF StartReplay
<1>14. ASSUME ReplayPop PROVE Copies(m)'
  <2>1. ops.msg # m /\ UNCHANGED <<request, hand, inbound>>
    BY <1>0, <1>14 DEF ReplayPop, OpsOK
  <2>2. CASE UNCHANGED dlq
    BY <1>d, <1>e, <1>i, <2>1, <2>2
  <2>3. CASE dlq # <<>> /\ dlq' = Tail(dlq)
             /\ ops' = [ops EXCEPT !.step = IF ops.dry THEN "push_back" ELSE "publish",
                                   !.msg = Head(dlq), !.left = @ - 1]
    <3>1. InList(m, dlq) => InList(m, dlq)' \/ m = Head(dlq)
      BY <1>t, <2>3, InTail
    <3>2. ops'.msg = Head(dlq)
      BY <1>t, <2>3 DEF Operator
    <3> QED
      BY <1>e, <1>i, <1>k, <2>1, <3>1, <3>2
  <2> QED
    BY <1>14, <2>2, <2>3 DEF ReplayPop
<1>15. ASSUME ReplayPublish PROVE Copies(m)'
  <2>1. UNCHANGED <<request, hand, dlq>> /\ ops.msg \in Messages
    BY <1>0, <1>15 DEF ReplayPublish, OpsOK
  <2>2. CASE inbound' = Append(inbound, ops.msg)
    <3>1. \A n : InList(n, inbound)' <=> InList(n, inbound) \/ n = ops.msg
      <4>1. \A n : InList(n, Append(inbound, ops.msg)) <=> InList(n, inbound) \/ n = ops.msg
        BY <1>t, <2>1, InAppend
      <4> QED
        BY <2>2, <4>1 DEF InList
    <3>2. (InList(m, inbound) \/ ops.msg = m) => Copies(m)'
      BY <1>k, <3>1
    <3> QED
      BY <1>d, <1>e, <2>1, <3>2
  <2>3. CASE UNCHANGED inbound /\ sub' = [sub EXCEPT ![ops.msg] = "ready"]
    <3>1. ops.msg = m => Copies(m)'
      BY <1>k, <1>t, <2>3
    <3> QED
      BY <1>d, <1>e, <1>i, <2>1, <2>3, <3>1
  <2> QED
    BY <1>15, <2>2, <2>3 DEF ReplayPublish
<1>16. ASSUME ReplayPushBack PROVE Copies(m)'
  <2>1. /\ UNCHANGED <<request, hand, inbound>> /\ ops.msg \in Messages
        /\ dlq' = Append(dlq, ops.msg)
    BY <1>0, <1>16 DEF ReplayPushBack, OpsOK
  <2>2. \A n : InList(n, dlq)' <=> InList(n, dlq) \/ n = ops.msg
    <3>1. \A n : InList(n, Append(dlq, ops.msg)) <=> InList(n, dlq) \/ n = ops.msg
      BY <1>t, <2>1, InAppend
    <3> QED
      BY <2>1, <3>1 DEF InList
  <2>3. (InList(m, dlq) \/ ops.msg = m) => Copies(m)'
    BY <1>k, <2>2
  <2> QED
    BY <1>e, <1>i, <2>1, <2>3
<1>17. ASSUME OpsDies PROVE FALSE
  BY <1>17, <1>f DEF OpsDies
<1> QED
  BY <1>1, <1>2, <1>3, <1>4, <1>5, <1>6, <1>7, <1>8, <1>9, <1>10, <1>11, <1>12, <1>13, <1>14,
     <1>15, <1>16, <1>17 DEF Next, Serve, Loop, ReplayStep

\* A message becomes known by the claim of the request that goes on to publish it.
LEMMA KnownStep ==
  ASSUME IInv, Next, NEW m \in Messages, m \in Known', m \notin Known
  PROVE  Copies(m)'
<1>0. TypeOK
  BY DEF IInv
<1> USE DEF setting, ingress, pubsub, worker, replay, history
<1>1. m \in claimed' /\ m \notin claimed
  BY TopicStep DEF Known
<1>2. PICK q \in Requests : Claim(q)
  BY <1>1 DEF Next, Serve, Loop, ReplayStep, Receive, Publish, RequestFails, LeaseExpires, Pop, Pull, Begin,
              Work, Ack, Nack, ConsumeResume, WorkerDies, StartReplay, ReplayPop, ReplayPublish,
              ReplayPushBack, OpsDies
<1>3. m = Event(q) /\ request' = [request EXCEPT ![q].step = "publish"]
  BY <1>1, <1>2 DEF Claim
<1>4. request \in [Requests -> Request]
  BY <1>0, Typed DEF Types
<1>5. request[q] \in Request /\ request'[q] = [request[q] EXCEPT !.step = "publish"]
  BY <1>3, <1>4
<1>6. request'[q].step = "publish" /\ Event(q)' = m
  BY <1>3, <1>5 DEF Request, Event
<1> QED
  BY <1>6, CopiesAre DEF AboutToPublish

LEMMA LostStep == ASSUME IInv, Next PROVE NothingLost'
<1>0. TypeOK /\ NothingLost /\ TypeOK'
  BY TypeStep DEF IInv
<1>1. UNCHANGED <<transport, faults>> /\ done \subseteq done'
  BY TopicStep
<1>2. ASSUME (faults \cap Losing)' = {}, NEW m \in Known' PROVE Copies(m)' \/ m \in done'
  <2>1. faults \cap Losing = {}
    BY <1>1, <1>2 DEF Losing
  <2>2. m \in Messages
    BY <1>0, Typed DEF Types, Known
  <2>3. CASE m \in Known
    BY <1>0, <1>1, <2>1, <2>2, <2>3, CopyStep DEF NothingLost
  <2>4. CASE m \notin Known
    BY <1>2, <2>2, <2>4, KnownStep
  <2> QED
    BY <2>3, <2>4
<1> QED
  BY <1>2 DEF NothingLost

-----------------------------------------------------------------------------
(* Theorems *)

LEMMA StepInv == ASSUME IInv, Next PROVE IInv'
<1>1. transport' = transport
  BY TopicStep
<1>2. RunsOK'
  BY <1>1, RunsStep DEF RunsOK
<1> QED
  BY <1>2, TypeStep, ClaimsStep, WorkersStep, OpsStep, TransportStep, LostStep, AckedStep DEF IInv

LEMMA StutterInv == ASSUME IInv, UNCHANGED vars PROVE IInv'
<1> USE DEF vars, setting, ingress, pubsub, worker, replay, history
<1>1. TypeOK' /\ ClaimsOK' /\ OpsOK' /\ \A k \in Workers : WorkerOK(k)'
  BY DEF IInv, TypeOK, ClaimsOK, RequestOK, Event, OpsOK, WorkerOK
<1>2. TransportOK'
  BY DEF IInv, TransportOK, RedisOK, PubSubOK, Waits, InList
<1>3. RunsOK'
  BY DEF IInv, RunsOK, ToStart, Places, Beginning, Sent
<1>4. NothingLost' /\ AckedDone'
  BY DEF IInv, NothingLost, Known, Losing, Copies, Event, InList, InHand, AckedDone
<1> QED
  BY <1>1, <1>2, <1>3, <1>4 DEF IInv

\* The inductive invariant holds in every reachable state, on either transport.
THEOREM Invariant == Spec => []IInv
<1>1. IInv /\ [Next]_vars => IInv'
  BY StepInv, StutterInv
<1> QED
  BY <1>1, InitInv, PTL DEF Spec

\* Whatever is pulled, given back, replayed and dropped, every variable keeps
\* its type; in particular Pub/Sub never delivers a message more often than
\* max_delivery_attempts.
THEOREM TypeCorrect == Spec => []TypeOK
<1>1. IInv => TypeOK
  BY DEF IInv
<1> QED
  BY <1>1, Invariant, PTL

\* On Redis a message starts at most one run and one more per replay, for every
\* number of requests, workers and resent bodies.
THEOREM OneRun == Spec => []OneRunPerDelivery
<1>1. IInv => OneRunPerDelivery
  <2> SUFFICES ASSUME IInv, transport = "redis", NEW m \in Messages
               PROVE  started[m] <= 1 + replays[m]
    BY DEF OneRunPerDelivery
  <2>1. TypeOK /\ started[m] + ToStart(m) <= Sent(m) + replays[m]
    BY DEF IInv, RunsOK
  <2>2. ToStart(m) \in Nat /\ Sent(m) \in {0, 1}
    BY <2>1, CountsTyped
  <2>3. started[m] \in Nat /\ replays[m] \in Nat
    BY <2>1, Typed DEF Types
  <2> QED
    BY <2>1, <2>2, <2>3
<1> QED
  BY <1>1, Invariant, PTL

\* Unless one of the faults that destroy the only copy happens, a claimed
\* message is always somewhere or done.
THEOREM ClaimedIsKept == Spec => []NothingLost
<1>1. IInv => NothingLost
  BY DEF IInv
<1> QED
  BY <1>1, Invariant, PTL

\* A message that Pub/Sub counts as acknowledged was finished by a worker.
THEOREM AckMeansDone == Spec => []AckedDone
<1>1. IInv => AckedDone
  BY DEF IInv
<1> QED
  BY <1>1, Invariant, PTL

=============================================================================
