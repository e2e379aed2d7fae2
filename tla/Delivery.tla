------------------------------- MODULE Delivery -------------------------------
(***************************************************************************)
(* What the SDK's produce() promises its caller, with no network, gateway  *)
(* or Kafka client in it.  A call makes up to Attempts tries; each try may *)
(* leave one record in the topic, at any time, even after the call has     *)
(* returned.  An accepted call names a record of its own; the try that was *)
(* refused leaves none; a failed call is an unknown outcome.               *)
(***************************************************************************)
EXTENDS Naturals, Sequences

CONSTANTS
    Calls,      \* calls of produce(), each with its own payload
    Attempts,   \* the most tries any call makes
    Versions    \* contract versions

Requests == Calls \X (1 .. Attempts)
Record == [req : Requests, version : Versions]
Refusals == {"violation", "notfound"}

VARIABLES
    outcome,    \* "pending", "accepted", "failed" or a refusal
    messageId,  \* the place in the log an accepted call returned, 0 before
    tried,      \* tries each call has made
    refused,    \* the tries that were answered with a refusal
    log         \* the topic: which try wrote each record, validated against what

deliveryVars == <<outcome, messageId, tried, refused, log>>

Logged(r) == \E i \in 1 .. Len(log) : log[i].req = r
LastTry(c) == <<c, tried[c]>>

DeliveryInit ==
    /\ outcome = [c \in Calls |-> "pending"]
    /\ messageId = [c \in Calls |-> 0]
    /\ tried = [c \in Calls |-> 0]
    /\ refused = {}
    /\ log = << >>

Try(c) ==
    /\ outcome[c] = "pending" /\ tried[c] < Attempts
    /\ tried' = [tried EXCEPT ![c] = @ + 1]
    /\ UNCHANGED <<outcome, messageId, refused, log>>

Land(r, v) ==
    /\ r[2] <= tried[r[1]]
    /\ ~Logged(r) /\ r \notin refused
    /\ log' = Append(log, [req |-> r, version |-> v])
    /\ UNCHANGED <<outcome, messageId, tried, refused>>

Accept(c, i) ==
    /\ outcome[c] = "pending"
    /\ i \in 1 .. Len(log) /\ log[i].req = LastTry(c)
    /\ outcome' = [outcome EXCEPT ![c] = "accepted"]
    /\ messageId' = [messageId EXCEPT ![c] = i]
    /\ UNCHANGED <<tried, refused, log>>

Refuse(c, why) ==
    /\ outcome[c] = "pending" /\ tried[c] > 0
    /\ ~Logged(LastTry(c))
    /\ outcome' = [outcome EXCEPT ![c] = why]
    /\ refused' = refused \cup {LastTry(c)}
    /\ UNCHANGED <<messageId, tried, log>>

Fail(c) ==
    /\ outcome[c] = "pending"
    /\ outcome' = [outcome EXCEPT ![c] = "failed"]
    /\ UNCHANGED <<messageId, tried, refused, log>>

DeliveryNext ==
    \/ \E c \in Calls : Try(c) \/ Fail(c)
    \/ \E c \in Calls, i \in 1 .. Len(log) : Accept(c, i)
    \/ \E c \in Calls, why \in Refusals : Refuse(c, why)
    \/ \E r \in Requests, v \in Versions : Land(r, v)

DeliverySpec == DeliveryInit /\ [][DeliveryNext]_deliveryVars
===============================================================================
