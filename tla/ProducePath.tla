------------------------------ MODULE ProducePath ------------------------------
(***************************************************************************)
(* One message's way from the SDK to the topic: Transport and              *)
(* AsyncTransport with their retries, the HTTP connection, ProduceHandler, *)
(* the Kafka producer client and its brokers, and the life of the gateway  *)
(* processes.  A request <<c, n>> is the n-th attempt of call c; once the  *)
(* SDK has given an attempt up, its handler and its message may still run. *)
(*                                                                         *)
(* Of the contract cache only this is kept: Get returns some version that  *)
(* was once active (ContractCache bounds how long ago), or an error.       *)
(***************************************************************************)
EXTENDS Delivery

CONSTANTS
    Pods,         \* gateway processes behind one address
    MaxRetries,   \* ProducerConfig.max_retries of the producer that makes each call
    AsyncCalls,   \* the calls made through AsyncTransport
    Shapes,       \* what the calls' bodies may be: functions to Shape
    Conforms,     \* pairs <<call, version>>: the payload keeps the contract's fields
    WireFormats,  \* subset of BOOLEAN: does the contracts service send fields?
    NoVersion, NoPod

\* "bad": a required member is empty; "scalar": the payload is no JSON object.
Shape == {"object", "scalar", "bad"}
\* The statuses of a reply; a 422 is told apart by its violations.
Codes == {"202", "400", "500", "502"} \cup Refusals
Reply == [status : Codes, id : Nat]
NoReply == [status |-> "none", id |-> 0]

ASSUME ProduceAssumption ==
    /\ Attempts \in Nat \ {0}
    /\ MaxRetries \in [Calls -> 0 .. Attempts]
    /\ AsyncCalls \subseteq Calls
    /\ Shapes \subseteq [Calls -> Shape]
    /\ Conforms \subseteq Calls \X Versions
    /\ WireFormats \subseteq BOOLEAN
    /\ NoVersion \notin Versions
    /\ NoPod \notin Pods

VARIABLES
    shape,     \* the shape of each call's body
    fullWire,  \* do contracts reach the gateway with their fields?
    known,     \* versions that have been ACTIVE
    waiting,   \* calls whose current attempt waits for its reply
    stage,     \* each request's handler
    pod,       \* the process that runs it
    contract,  \* the contract Get returned to it
    message,   \* its message in the Kafka client
    offset,    \* where a broker wrote that message, 0 if nowhere
    reply      \* the reply that waits to be read on each call's connection

world == <<shape, fullWire, known>>
handler == <<stage, pod, contract>>
kafka == <<message, offset>>
sdk == <<waiting, reply>>
vars == <<deliveryVars, world, sdk, handler, kafka>>

\* stop_after_attempt(0) stops after the first attempt, range(0) before it.
Budget(c) == IF MaxRetries[c] = 0 /\ c \notin AsyncCalls THEN 1 ELSE MaxRetries[c]
Running(r) == stage[r] \in {"received", "checking", "awaiting"}
\* The client still holds the connection (r.Context() is not cancelled).
Listening(r) == r[1] \in waiting /\ r = LastTry(r[1])
Holds(c, v) == fullWire => <<c, v>> \in Conforms

Init ==
    /\ DeliveryInit
    /\ shape \in Shapes
    /\ fullWire \in WireFormats
    /\ known = {}
    /\ waiting = {}
    /\ stage = [r \in Requests |-> "idle"]
    /\ pod = [r \in Requests |-> NoPod]
    /\ contract = [r \in Requests |-> NoVersion]
    /\ message = [r \in Requests |-> "none"]
    /\ offset = [r \in Requests |-> 0]
    /\ reply = [c \in Calls |-> NoReply]

Activate(v) ==
    /\ known' = known \cup {v}
    /\ UNCHANGED <<deliveryVars, shape, fullWire, sdk, handler, kafka>>

-----------------------------------------------------------------------------
(* The SDK.                                                                *)

MayTry(c) == outcome[c] = "pending" /\ c \notin waiting /\ tried[c] < Budget(c)

Send(c, p) ==
    /\ MayTry(c)
    /\ Try(c)
    /\ waiting' = waiting \cup {c}
    /\ stage' = [stage EXCEPT ![<<c, tried[c] + 1>>] = "received"]
    /\ pod' = [pod EXCEPT ![<<c, tried[c] + 1>>] = p]
    /\ UNCHANGED <<world, reply, contract, kafka>>

\* httpx.RequestError: no process accepts the connection (they are down, or
\* Shutdown has closed their listeners).
ConnectFails(c) ==
    /\ MayTry(c)
    /\ Try(c)
    /\ UNCHANGED <<world, sdk, handler, kafka>>

HangUp(c) ==
    /\ c \in waiting
    /\ waiting' = waiting \ {c}
    /\ reply' = [reply EXCEPT ![c] = NoReply]

\* _parse_response: 202 and 422 end the call, every other status is a
\* GatewayError and the attempt counts as failed.
Meaning(status) == IF status = "202" THEN "accepted"
                   ELSE IF status \in Refusals THEN status ELSE "pending"

ReadReply(c) ==
    /\ reply[c] # NoReply
    /\ HangUp(c)
    /\ outcome' = [outcome EXCEPT ![c] = Meaning(reply[c].status)]
    /\ messageId' = [messageId EXCEPT ![c] = reply[c].id]
    /\ refused' = IF Meaning(reply[c].status) \in Refusals
                  THEN refused \cup {LastTry(c)} ELSE refused
    /\ UNCHANGED <<tried, log, world, handler, kafka>>

\* Mutant: an HTTP client without timeouts.
AttemptNeverTimesOut(c) == FALSE /\ HangUp(c)

\* The timeout fires, or the connection breaks, before a reply is read.
AttemptFails(c) ==
    /\ HangUp(c)
    /\ UNCHANGED <<deliveryVars, world, handler, kafka>>

\* The attempts are used up: the last error is raised.
Raise(c) ==
    /\ c \notin waiting /\ tried[c] = Budget(c)
    /\ Fail(c)
    /\ UNCHANGED <<world, sdk, handler, kafka>>

-----------------------------------------------------------------------------
(* ProduceHandler.ServeHTTP.                                               *)

\* The handler returns; nobody reads the reply of an abandoned attempt.
Answer(r, code) ==
    /\ stage' = [stage EXCEPT ![r] = "done"]
    /\ reply' = IF Listening(r)
              THEN [reply EXCEPT ![r[1]] =
                      [status |-> code, id |-> IF code = "202" THEN offset[r] ELSE 0]]
              ELSE reply

BadRequest(r) ==
    /\ stage[r] = "received" /\ shape[r[1]] = "bad"
    /\ Answer(r, "400")
    /\ UNCHANGED <<deliveryVars, world, waiting, pod, contract, kafka>>

Lookup(r, v) ==
    /\ stage[r] = "received" /\ shape[r[1]] # "bad"
    /\ v \in known
    /\ stage' = [stage EXCEPT ![r] = "checking"]
    /\ contract' = [contract EXCEPT ![r] = v]
    /\ UNCHANGED <<deliveryVars, world, sdk, pod, kafka>>

\* Mutant: without a contract the message goes on.
LookupFailsOpen(r) ==
    /\ stage[r] = "received" /\ shape[r[1]] # "bad"
    /\ stage' = [stage EXCEPT ![r] = "checking"]
    /\ UNCHANGED <<deliveryVars, world, sdk, pod, contract, kafka>>

\* Any error of Get, an outage of the contracts service included.
LookupFails(r) ==
    /\ stage[r] = "received" /\ shape[r[1]] # "bad"
    /\ Answer(r, "notfound")
    /\ UNCHANGED <<deliveryVars, world, waiting, pod, contract, kafka>>

Unparsable(r) ==
    /\ stage[r] = "checking" /\ shape[r[1]] = "scalar"
    /\ Answer(r, "500")
    /\ UNCHANGED <<deliveryVars, world, waiting, pod, contract, kafka>>

Violates(r) ==
    /\ stage[r] = "checking" /\ shape[r[1]] = "object"
    /\ ~Holds(r[1], contract[r])
    /\ Answer(r, "violation")
    /\ UNCHANGED <<deliveryVars, world, waiting, pod, contract, kafka>>

\* Mutant: a message is enqueued first and validated for the reply only.
EnqueueUnvalidated(r) ==
    /\ stage[r] = "checking" /\ shape[r[1]] = "object"
    /\ stage' = [stage EXCEPT ![r] = "awaiting"]
    /\ message' = [message EXCEPT ![r] = "queued"]
    /\ UNCHANGED <<deliveryVars, world, sdk, pod, contract, offset>>

\* client.Produce puts the message in the client's queue, whether or not the
\* caller is still there, and Produce waits for its delivery report.
Enqueue(r) ==
    /\ stage[r] = "checking" /\ shape[r[1]] = "object"
    /\ Holds(r[1], contract[r])
    /\ stage' = [stage EXCEPT ![r] = "awaiting"]
    /\ message' = [message EXCEPT ![r] = "queued"]
    /\ UNCHANGED <<deliveryVars, world, sdk, pod, contract, offset>>

\* client.Produce returns an error (its queue is full).
EnqueueFails(r) ==
    /\ stage[r] = "checking" /\ shape[r[1]] = "object"
    /\ Holds(r[1], contract[r])
    /\ Answer(r, "502")
    /\ UNCHANGED <<deliveryVars, world, waiting, pod, contract, kafka>>

\* Mutant: ACCEPTED as soon as the message is in the client's queue.
DeliveredUnacknowledged(r) ==
    /\ stage[r] = "awaiting" /\ message[r] \in {"queued", "acked"}
    /\ Answer(r, "202")
    /\ UNCHANGED <<deliveryVars, world, waiting, pod, contract, kafka>>

Delivered(r) ==
    /\ stage[r] = "awaiting" /\ message[r] = "acked"
    /\ Answer(r, "202")
    /\ UNCHANGED <<deliveryVars, world, waiting, pod, contract, kafka>>

DeliveryFails(r) ==
    /\ stage[r] = "awaiting" /\ message[r] \in {"failed", "in doubt"}
    /\ Answer(r, "502")
    /\ UNCHANGED <<deliveryVars, world, waiting, pod, contract, kafka>>

\* Mutant: Produce waits for the delivery report alone.
CancelledIgnored(r) == FALSE /\ DeliveryFails(r)

\* <-ctx.Done(): the 502 goes to a closed connection.
Cancelled(r) ==
    /\ stage[r] = "awaiting" /\ ~Listening(r)
    /\ Answer(r, "502")
    /\ UNCHANGED <<deliveryVars, world, waiting, pod, contract, kafka>>

Handle(r) ==
    \/ BadRequest(r) \/ LookupFails(r) \/ \E v \in Versions : Lookup(r, v)
    \/ Unparsable(r) \/ Violates(r) \/ Enqueue(r) \/ EnqueueFails(r)
    \/ Delivered(r) \/ DeliveryFails(r) \/ Cancelled(r)

-----------------------------------------------------------------------------
(* The Kafka client and the brokers (acks=all, enable.idempotence).        *)

\* Idempotence: however often the client resends it, a message is written once.
BrokerWrites(r) ==
    /\ message[r] \in {"queued", "in doubt"} /\ offset[r] = 0
    /\ log' = Append(log, [req |-> r, version |-> contract[r]])
    /\ offset' = [offset EXCEPT ![r] = Len(log) + 1]
    /\ UNCHANGED <<outcome, messageId, tried, refused, world, sdk, handler, message>>

BrokerAcks(r) ==
    /\ message[r] = "queued" /\ offset[r] # 0
    /\ message' = [message EXCEPT ![r] = "acked"]
    /\ UNCHANGED <<deliveryVars, world, sdk, handler, offset>>

\* The client gives a message up, unsent ("failed") or with its last request
\* still on its way to a broker ("in doubt").
ClientGivesUp(r, fate) ==
    /\ message[r] = "queued"
    /\ message' = [message EXCEPT ![r] = fate]
    /\ UNCHANGED <<deliveryVars, world, sdk, handler, offset>>

-----------------------------------------------------------------------------
(* The gateway processes.                                                  *)

\* A process ends: drained by Shutdown and flushed by Close, by os.Exit(1)
\* after ShutdownTimeout with handlers and messages left, or by a crash.
Die(p) ==
    /\ stage' = [r \in Requests |-> IF Running(r) /\ pod[r] = p THEN "done" ELSE stage[r]]
    /\ \E inDoubt \in SUBSET {r \in Requests : pod[r] = p /\ message[r] = "queued"} :
         message' = [r \in Requests |->
                       IF r \in inDoubt THEN "in doubt"
                       ELSE IF pod[r] = p /\ message[r] = "queued" THEN "failed"
                       ELSE message[r]]
    /\ UNCHANGED <<deliveryVars, world, sdk, pod, contract, offset>>

Next ==
    \/ \E v \in Versions : Activate(v)
    \/ \E c \in Calls, p \in Pods : Send(c, p)
    \/ \E c \in Calls : ConnectFails(c) \/ ReadReply(c) \/ AttemptFails(c) \/ Raise(c)
    \/ \E r \in Requests : Handle(r) \/ BrokerWrites(r) \/ BrokerAcks(r)
    \/ \E r \in Requests, fate \in {"failed", "in doubt"} : ClientGivesUp(r, fate)
    \/ \E p \in Pods : Die(p)

(***************************************************************************)
(* The SDK's thread runs and its timeouts fire; a handler's goroutine is   *)
(* scheduled while its process lives.  Kafka owes nothing.                 *)
(***************************************************************************)
Fairness ==
    /\ \A c \in Calls :
         /\ WF_vars(ReadReply(c) \/ AttemptFails(c))
         /\ WF_vars(ConnectFails(c) \/ \E p \in Pods : Send(c, p))
         /\ WF_vars(Raise(c))
    /\ \A r \in Requests : WF_vars(Handle(r))

Spec == Init /\ [][Next]_vars
FairSpec == Spec /\ Fairness

-----------------------------------------------------------------------------
TypeOK ==
    /\ outcome \in [Calls -> {"pending", "accepted", "failed"} \cup Refusals]
    /\ messageId \in [Calls -> Nat]
    /\ tried \in [Calls -> 0 .. Attempts]
    /\ refused \subseteq Requests
    /\ log \in Seq(Record)
    /\ shape \in [Calls -> Shape]
    /\ fullWire \in BOOLEAN
    /\ known \subseteq Versions
    /\ waiting \subseteq Calls
    /\ stage \in [Requests -> {"idle", "received", "checking", "awaiting", "done"}]
    /\ pod \in [Requests -> Pods \cup {NoPod}]
    /\ contract \in [Requests -> Versions \cup {NoVersion}]
    /\ message \in [Requests -> {"none", "queued", "acked", "failed", "in doubt"}]
    /\ offset \in [Requests -> Nat]
    /\ reply \in [Calls -> Reply \cup {NoReply}]

(***************************************************************************)
(* produce() keeps Delivery's promise across timeouts, retries, lost       *)
(* replies, crashes and undecided writes.  Above all: "the gateway must    *)
(* not return ACCEPTED to the caller until Kafka has acknowledged the      *)
(* write", and the message_id is the offset of the caller's own record.    *)
(***************************************************************************)
KeepsDeliveryPromise == DeliverySpec

(***************************************************************************)
(* Every record of the topic passed validation against a contract version  *)
(* that had been activated, also when its caller left long before and the  *)
(* contract has changed since.                                             *)
(***************************************************************************)
LoggedWasValidated ==
    \A i \in 1 .. Len(log) :
        LET c == log[i].req[1] IN
        /\ log[i].version \in known
        /\ shape[c] = "object" /\ Holds(c, log[i].version)

(***************************************************************************)
(* produce() returns or raises whatever the gateway and Kafka do.          *)
(***************************************************************************)
CallsReturn == \A c \in Calls : tried[c] > 0 ~> outcome[c] # "pending"

(***************************************************************************)
(* No handler outlives its caller for ever, even if Kafka never reports:   *)
(* Produce has no timeout of its own (ProducerTimeout is stored but not    *)
(* used) and depends on the caller hanging up.                             *)
(***************************************************************************)
HandlersReturn == \A r \in Requests : Running(r) ~> ~Running(r)

(***************************************************************************)
(* "The message was rejected by the gateway because it violates the active *)
(* contract" (ContractViolationError): a rejected message is not in the    *)
(* topic.                                                                  *)
(***************************************************************************)
RejectedNotWritten ==
    \A c \in Calls :
        outcome[c] = "violation" => \A i \in 1 .. Len(log) : log[i].req[1] # c
==============================================================================
