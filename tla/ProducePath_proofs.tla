------------------------- MODULE ProducePath_proofs -------------------------
(***************************************************************************)
(* The produce path implements Delivery, and writes only what it has       *)
(* validated, for every set of calls, versions and gateway processes and   *)
(* any number of retries: ACCEPTED always names the caller's own record,   *)
(* and the attempt that was refused never leaves one.                      *)
(***************************************************************************)
EXTENDS ProducePath, TLAPS

\* An attempt that was not made yet has no handler; one with no handler, or
\* whose handler has not validated it yet, has no message.
StageInv == \A r \in Requests :
    /\ stage[r] # "idle" => r[2] <= tried[r[1]]
    /\ stage[r] \in {"idle", "received", "checking"} => message[r] = "none"
    /\ stage[r] = "checking" => contract[r] \in known

\* Only validated messages reach the Kafka client.
MessageInv == \A r \in Requests : message[r] # "none" =>
    /\ contract[r] \in known
    /\ shape[r[1]] = "object" /\ Holds(r[1], contract[r])

\* A message that was written has one record, at its offset.
OffsetInv == \A r \in Requests :
    /\ offset[r] # 0 =>
         /\ message[r] # "none"
         /\ offset[r] \in 1 .. Len(log) /\ log[offset[r]].req = r
    /\ message[r] = "acked" => offset[r] # 0
    /\ Logged(r) => offset[r] # 0

\* What a reply says of the attempt it answers.
ReplyInv == \A c \in Calls : reply[c] # NoReply =>
    /\ c \in waiting /\ stage[LastTry(c)] = "done"
    /\ reply[c].status = "202" =>
         message[LastTry(c)] = "acked" /\ reply[c].id = offset[LastTry(c)]
    /\ reply[c].status # "202" => reply[c].id = 0
    /\ reply[c].status \in Refusals => message[LastTry(c)] = "none"

\* A refused attempt will never have a message.
RefusedInv == \A r \in refused : stage[r] = "done" /\ message[r] = "none"

\* A call that waits is pending; a pending call has no message id.
CallInv == \A c \in Calls :
    /\ c \in waiting => outcome[c] = "pending" /\ tried[c] > 0
    /\ outcome[c] = "pending" => messageId[c] = 0

IInv == /\ TypeOK /\ LoggedWasValidated
        /\ StageInv /\ MessageInv /\ OffsetInv /\ ReplyInv /\ RefusedInv /\ CallInv

-----------------------------------------------------------------------------
LEMMA RequestPairs ==
    ASSUME NEW r \in Requests
    PROVE  r[1] \in Calls /\ r[2] \in 1 .. Attempts /\ r = <<r[1], r[2]>>
BY DEF Requests

LEMMA AttemptsNat == Attempts \in Nat /\ Attempts > 0
BY ProduceAssumption

LEMMA LastTryIsRequest ==
    ASSUME TypeOK, CallInv, NEW c \in waiting
    PROVE  /\ c \in Calls /\ LastTry(c) \in Requests
           /\ LastTry(c)[1] = c /\ LastTry(c)[2] = tried[c]
<1>1. c \in Calls /\ tried \in [Calls -> 0 .. Attempts]
    BY DEF TypeOK
<1>2. tried[c] \in 1 .. Attempts
    BY <1>1, AttemptsNat DEF CallInv
<1> QED
    BY <1>1, <1>2 DEF LastTry, Requests

LEMMA AppendFacts ==
    ASSUME NEW s \in Seq(Record), NEW x \in Record
    PROVE  /\ Append(s, x) \in Seq(Record)
           /\ Len(Append(s, x)) = Len(s) + 1
           /\ \A i \in 1 .. Len(s) : Append(s, x)[i] = s[i]
           /\ Append(s, x)[Len(s) + 1] = x
OBVIOUS

LEMMA IInvInit == Init => IInv
<1> SUFFICES ASSUME Init PROVE IInv
    OBVIOUS
<1> USE ProduceAssumption DEF Init, DeliveryInit
<1>1. TypeOK
    BY DEF TypeOK, NoReply
<1>2. LoggedWasValidated
    BY DEF LoggedWasValidated
<1>3. StageInv /\ MessageInv /\ ReplyInv /\ RefusedInv /\ CallInv
    BY DEF StageInv, MessageInv, ReplyInv, RefusedInv, CallInv
<1>4. OffsetInv
    BY DEF OffsetInv, Logged
<1> QED
    BY <1>1, <1>2, <1>3, <1>4 DEF IInv

-----------------------------------------------------------------------------
(* The SDK.                                                                *)

LEMMA SdkStep ==
    ASSUME IInv, NEW c \in Calls,
           \/ \E p \in Pods : Send(c, p)
           \/ ConnectFails(c) \/ ReadReply(c) \/ AttemptFails(c) \/ Raise(c)
    PROVE  IInv'
<1> USE AttemptsNat DEF IInv
<1>1. ASSUME NEW p \in Pods, Send(c, p)
      PROVE  IInv'
    <2> DEFINE r == <<c, tried[c] + 1>>
    <2> tried \in [Calls -> 0 .. Attempts]
        BY DEF TypeOK
    <2>0. /\ tried[c] \in Nat /\ tried[c] < Attempts /\ outcome[c] = "pending" /\ c \notin waiting
        BY <1>1 DEF Send, MayTry, Try
    <2>1. /\ r \in Requests /\ r[1] = c /\ r[2] = tried[c] + 1
        BY <2>0 DEF Requests
    <2>2. /\ tried' = [tried EXCEPT ![c] = tried[c] + 1]
          /\ waiting' = waiting \cup {c}
          /\ stage' = [stage EXCEPT ![r] = "received"]
          /\ pod' = [pod EXCEPT ![r] = p]
          /\ UNCHANGED <<outcome, messageId, refused, log, shape, fullWire, known,
                         reply, contract, message, offset>>
        BY <1>1 DEF Send, Try, world, kafka
    <2>3. stage[r] = "idle" /\ reply[c] = NoReply
        BY <2>0, <2>1 DEF StageInv, ReplyInv
    <2>4. TypeOK'
        <3> HIDE DEF r
        <3>1. tried' \in [Calls -> 0 .. Attempts]
            BY <2>0, <2>2
        <3>2. waiting' \subseteq Calls
            BY <2>2 DEF TypeOK
        <3>3. /\ stage' \in [Requests -> {"idle", "received", "checking", "awaiting", "done"}]
              /\ pod' \in [Requests -> Pods \cup {NoPod}]
            BY <2>2 DEF TypeOK
        <3> QED
            BY <2>2, <3>1, <3>2, <3>3 DEF TypeOK
    <2>5. StageInv'
        <3> SUFFICES ASSUME NEW q \in Requests
                     PROVE  /\ stage'[q] # "idle" => q[2] <= tried'[q[1]]
                            /\ stage'[q] \in {"idle", "received", "checking"} => message[q] = "none"
                            /\ stage'[q] = "checking" => contract[q] \in known
            BY <2>2 DEF StageInv
        <3>1. q[1] \in Calls /\ q[2] \in Nat /\ tried[q[1]] \in Nat
            BY RequestPairs
        <3>2. tried'[q[1]] >= tried[q[1]] /\ tried'[q[1]] \in Nat
            BY <2>0, <2>2, <3>1
        <3> stage \in [Requests -> {"idle", "received", "checking", "awaiting", "done"}]
            BY DEF TypeOK
        <3>3. CASE q = r
            <4>1. stage'[q] = "received" /\ message[q] = "none"
                BY <2>1, <2>2, <2>3, <3>3 DEF StageInv
            <4>2. q[2] <= tried'[q[1]]
                BY <2>0, <2>1, <2>2, <3>3
            <4> QED
                BY <4>1, <4>2
        <3>4. CASE q # r
            <4>1. stage'[q] = stage[q]
                BY <2>2, <3>4
            <4> HIDE DEF r
            <4> QED
                BY <3>1, <3>2, <4>1 DEF StageInv
        <3> QED
            BY <3>3, <3>4
    <2>6. MessageInv' /\ OffsetInv' /\ LoggedWasValidated'
        BY <2>2 DEF MessageInv, OffsetInv, Logged, LoggedWasValidated, Holds
    <2>7. ReplyInv'
        <3> SUFFICES ASSUME NEW d \in Calls, reply[d] # NoReply
                     PROVE  d # c /\ LastTry(d)' = LastTry(d) /\ LastTry(d) # r
                            /\ LastTry(d) \in Requests /\ d \in waiting
            BY <2>2 DEF ReplyInv, TypeOK
        <3>1. d # c /\ d \in waiting
            BY <2>3 DEF ReplyInv
        <3> QED
            BY <3>1, <2>2, LastTryIsRequest DEF LastTry, TypeOK
    <2>8. RefusedInv'
        BY <2>2, <2>3 DEF RefusedInv, TypeOK
    <2>9. CallInv'
        BY <2>0, <2>2 DEF CallInv
    <2> QED
        BY <2>4, <2>5, <2>6, <2>7, <2>8, <2>9
<1>2. CASE ConnectFails(c)
    <2> tried \in [Calls -> 0 .. Attempts]
        BY DEF TypeOK
    <2>1. /\ tried[c] \in Nat /\ tried[c] < Attempts /\ outcome[c] = "pending" /\ c \notin waiting
          /\ tried' = [tried EXCEPT ![c] = tried[c] + 1]
          /\ UNCHANGED <<outcome, messageId, refused, log, world, sdk, handler, kafka>>
        BY <1>2 DEF ConnectFails, MayTry, Try
    <2> USE <2>1 DEF world, sdk, handler, kafka
    <2>2. TypeOK'
        <3>1. tried' \in [Calls -> 0 .. Attempts]
            OBVIOUS
        <3> QED
            BY <3>1 DEF TypeOK
    <2>3. StageInv'
        <3>1. ASSUME NEW q \in Requests
              PROVE  /\ q[1] \in Calls /\ q[2] \in Nat /\ tried[q[1]] \in Nat
                     /\ tried'[q[1]] \in Nat /\ tried'[q[1]] >= tried[q[1]]
            BY RequestPairs
        <3>2. ASSUME NEW q \in Requests, stage[q] # "idle"
              PROVE  q[2] <= tried'[q[1]]
            BY <3>1, <3>2 DEF StageInv
        <3> QED
            BY <3>2 DEF StageInv
    <2>4. MessageInv' /\ OffsetInv' /\ LoggedWasValidated' /\ RefusedInv'
        BY DEF MessageInv, OffsetInv, Logged, LoggedWasValidated, Holds, RefusedInv
    <2>5. ReplyInv'
        BY DEF ReplyInv, LastTry, TypeOK
    <2>6. CallInv'
        BY DEF CallInv, TypeOK
    <2> QED
        BY <2>2, <2>3, <2>4, <2>5, <2>6
<1>3. CASE ReadReply(c)
    <2> DEFINE how == Meaning(reply[c].status)
    <2>1. /\ c \in waiting /\ reply[c] # NoReply /\ outcome[c] = "pending" /\ messageId[c] = 0
          /\ reply[c] \in Reply
        BY <1>3 DEF ReadReply, HangUp, CallInv, TypeOK
    <2>2. /\ waiting' = waiting \ {c}
          /\ reply' = [reply EXCEPT ![c] = NoReply]
          /\ outcome' = [outcome EXCEPT ![c] = how]
          /\ messageId' = [messageId EXCEPT ![c] = reply[c].id]
          /\ refused' = IF how \in Refusals THEN refused \cup {LastTry(c)} ELSE refused
          /\ UNCHANGED <<tried, log, shape, fullWire, known, stage, pod, contract, message, offset>>
        BY <1>3 DEF ReadReply, HangUp, world, handler, kafka
    <2>3. /\ how \in {"pending", "accepted"} \cup Refusals
          /\ how \in Refusals => reply[c].status \in Refusals
          /\ how = "pending" => reply[c].status # "202"
        BY DEF Meaning, Refusals
    <2>4. LastTry(c) \in Requests
        BY <2>1, LastTryIsRequest
    <2>5. TypeOK'
        <3>1. reply[c].id \in Nat
            BY <2>1 DEF Reply
        <3>2. refused' \subseteq Requests
            BY <2>2, <2>4 DEF TypeOK
        <3> HIDE DEF how
        <3> QED
            BY <2>2, <2>3, <3>1, <3>2 DEF TypeOK
    <2>6. StageInv' /\ MessageInv' /\ OffsetInv' /\ LoggedWasValidated'
        BY <2>2 DEF StageInv, MessageInv, OffsetInv, Logged, LoggedWasValidated, Holds
    <2>7. ReplyInv'
        BY <2>2 DEF ReplyInv, LastTry, TypeOK
    <2>8. RefusedInv'
        BY <2>1, <2>2, <2>3 DEF RefusedInv, ReplyInv
    <2>9. CallInv'
        <3>1. how = "pending" => reply[c].id = 0
            BY <2>1, <2>3 DEF ReplyInv
        <3> HIDE DEF how
        <3> QED
            BY <2>1, <2>2, <3>1 DEF CallInv, TypeOK
    <2> QED
        BY <2>5, <2>6, <2>7, <2>8, <2>9
<1>4. CASE AttemptFails(c)
    <2>1. /\ waiting' = waiting \ {c}
          /\ reply' = [reply EXCEPT ![c] = NoReply]
          /\ UNCHANGED <<deliveryVars, world, handler, kafka>>
        BY <1>4 DEF AttemptFails, HangUp
    <2> USE <2>1 DEF deliveryVars, world, handler, kafka
    <2>2. TypeOK'
        BY DEF TypeOK
    <2>3. StageInv' /\ MessageInv' /\ OffsetInv' /\ LoggedWasValidated' /\ RefusedInv'
        BY DEF StageInv, MessageInv, OffsetInv, Logged, LoggedWasValidated, Holds, RefusedInv
    <2>4. ReplyInv' /\ CallInv'
        BY DEF ReplyInv, CallInv, LastTry, TypeOK
    <2> QED
        BY <2>2, <2>3, <2>4
<1>5. CASE Raise(c)
    <2>1. /\ c \notin waiting /\ outcome[c] = "pending"
          /\ outcome' = [outcome EXCEPT ![c] = "failed"]
          /\ UNCHANGED <<messageId, tried, refused, log, world, sdk, handler, kafka>>
        BY <1>5 DEF Raise, Fail
    <2> USE <2>1 DEF world, sdk, handler, kafka
    <2>2. TypeOK'
        BY DEF TypeOK
    <2>3. StageInv' /\ MessageInv' /\ OffsetInv' /\ LoggedWasValidated' /\ RefusedInv' /\ ReplyInv'
        BY DEF StageInv, MessageInv, OffsetInv, Logged, LoggedWasValidated, Holds, RefusedInv,
               ReplyInv, LastTry
    <2>4. CallInv'
        BY DEF CallInv, TypeOK
    <2> QED
        BY <2>2, <2>3, <2>4
<1> QED
    BY <1>1, <1>2, <1>3, <1>4, <1>5

-----------------------------------------------------------------------------
(* The handlers.                                                           *)

LEMMA AnswerStep ==
    ASSUME IInv, NEW r \in Requests, NEW code \in Codes,
           Running(r), Answer(r, code),
           code = "202" => message[r] = "acked",
           code \in Refusals => message[r] = "none",
           UNCHANGED <<deliveryVars, world, waiting, pod, contract, kafka>>
    PROVE  IInv'
<1> USE DEF IInv
<1> DEFINE answer == [status |-> code, id |-> IF code = "202" THEN offset[r] ELSE 0]
<1>0. UNCHANGED <<outcome, messageId, tried, refused, log, shape, fullWire, known, waiting,
                  pod, contract, message, offset>>
    BY DEF deliveryVars, world, kafka
<1>1. /\ stage' = [stage EXCEPT ![r] = "done"]
      /\ stage[r] # "idle" /\ stage[r] # "done"
      /\ reply' = IF Listening(r) THEN [reply EXCEPT ![r[1]] = answer] ELSE reply
    BY DEF Answer, Running
<1>2. offset[r] \in Nat /\ answer \in Reply /\ answer # NoReply
    BY DEF TypeOK, Reply, NoReply, Codes, Refusals
<1>3. Listening(r) => r[1] \in Calls /\ r[1] \in waiting /\ LastTry(r[1]) = r
    BY DEF Listening, TypeOK
<1> HIDE DEF answer
<1>4. TypeOK'
    <2>1. /\ stage' \in [Requests -> {"idle", "received", "checking", "awaiting", "done"}]
          /\ reply' \in [Calls -> Reply \cup {NoReply}]
        BY <1>1, <1>2 DEF TypeOK
    <2> QED
        BY <1>0, <2>1 DEF TypeOK
<1> stage \in [Requests -> {"idle", "received", "checking", "awaiting", "done"}]
    BY DEF TypeOK
<1> reply \in [Calls -> Reply \cup {NoReply}]
    BY DEF TypeOK
<1>5. \A q \in Requests : stage'[q] = IF q = r THEN "done" ELSE stage[q]
    BY <1>1
<1>6. StageInv'
    BY <1>0, <1>1, <1>5 DEF StageInv
<1>7. MessageInv' /\ OffsetInv' /\ LoggedWasValidated' /\ CallInv'
    BY <1>0 DEF MessageInv, OffsetInv, Logged, LoggedWasValidated, Holds, CallInv
<1>8. RefusedInv'
    BY <1>0, <1>5 DEF RefusedInv, TypeOK
<1>9. ReplyInv'
    <2> SUFFICES ASSUME NEW d \in Calls, reply'[d] # NoReply
                 PROVE  /\ d \in waiting /\ stage'[LastTry(d)] = "done"
                        /\ reply'[d].status = "202" =>
                             message[LastTry(d)] = "acked" /\ reply'[d].id = offset[LastTry(d)]
                        /\ reply'[d].status # "202" => reply'[d].id = 0
                        /\ reply'[d].status \in Refusals => message[LastTry(d)] = "none"
        BY <1>0 DEF ReplyInv, LastTry
    <2>1. CASE Listening(r) /\ d = r[1]
        <3>1. reply'[d] = answer /\ LastTry(d) = r
            BY <1>1, <1>3, <2>1
        <3>2. stage'[r] = "done" /\ d \in waiting
            BY <1>3, <1>5, <2>1
        <3>3. answer.status = code /\ answer.id = IF code = "202" THEN offset[r] ELSE 0
            BY DEF answer
        <3> QED
            BY <3>1, <3>2, <3>3
    <2>2. CASE ~(Listening(r) /\ d = r[1])
        <3>1. reply'[d] = reply[d]
            BY <1>1, <2>2
        <3>2. d \in waiting /\ stage[LastTry(d)] = "done"
            BY <3>1 DEF ReplyInv
        <3>3. LastTry(d) \in Requests
            BY <3>2, LastTryIsRequest
        <3>4. stage'[LastTry(d)] = "done"
            BY <1>5, <3>2, <3>3
        <3> QED
            BY <3>1, <3>2, <3>4 DEF ReplyInv
    <2> QED
        BY <2>1, <2>2
<1> QED
    BY <1>4, <1>6, <1>7, <1>8, <1>9

LEMMA EnqueueStep ==
    ASSUME IInv, NEW r \in Requests, Enqueue(r)
    PROVE  IInv'
<1> USE DEF IInv
<1>1. /\ stage[r] = "checking" /\ shape[r[1]] = "object" /\ Holds(r[1], contract[r])
      /\ stage' = [stage EXCEPT ![r] = "awaiting"]
      /\ message' = [message EXCEPT ![r] = "queued"]
      /\ UNCHANGED <<outcome, messageId, tried, refused, log, shape, fullWire, known, waiting,
                     reply, pod, contract, offset>>
    BY DEF Enqueue, deliveryVars, world, sdk
<1>2. message[r] = "none" /\ contract[r] \in known /\ r \notin refused
    BY <1>1 DEF StageInv, RefusedInv
<1>3. TypeOK'
    <2>1. /\ stage' \in [Requests -> {"idle", "received", "checking", "awaiting", "done"}]
          /\ message' \in [Requests -> {"none", "queued", "acked", "failed", "in doubt"}]
        BY <1>1 DEF TypeOK
    <2> QED
        BY <1>1, <2>1 DEF TypeOK
<1>4. \A q \in Requests :
        /\ stage'[q] = IF q = r THEN "awaiting" ELSE stage[q]
        /\ message'[q] = IF q = r THEN "queued" ELSE message[q]
    BY <1>1 DEF TypeOK
<1>5. StageInv' /\ MessageInv' /\ RefusedInv'
    BY <1>1, <1>2, <1>4 DEF StageInv, MessageInv, RefusedInv, Holds, TypeOK
<1>6. OffsetInv'
    BY <1>1, <1>2, <1>4 DEF OffsetInv, Logged
<1>7. LoggedWasValidated' /\ CallInv'
    BY <1>1 DEF LoggedWasValidated, CallInv, Holds
<1>8. ReplyInv'
    <2>1. ASSUME NEW d \in Calls, reply[d] # NoReply
          PROVE  /\ LastTry(d) \in Requests /\ LastTry(d) # r /\ LastTry(d)' = LastTry(d)
                 /\ stage'[LastTry(d)] = stage[LastTry(d)]
                 /\ message'[LastTry(d)] = message[LastTry(d)]
        <3>1. d \in waiting /\ stage[LastTry(d)] = "done"
            BY <2>1 DEF ReplyInv
        <3>2. LastTry(d) \in Requests
            BY <3>1, LastTryIsRequest
        <3> QED
            BY <1>1, <1>4, <3>1, <3>2 DEF LastTry
    <2> QED
        BY <1>1, <2>1 DEF ReplyInv
<1> QED
    BY <1>3, <1>5, <1>6, <1>7, <1>8

LEMMA LookupStep ==
    ASSUME IInv, NEW r \in Requests, NEW v \in Versions, Lookup(r, v)
    PROVE  IInv'
<1> USE DEF IInv
<1>1. /\ stage[r] = "received" /\ v \in known
      /\ stage' = [stage EXCEPT ![r] = "checking"]
      /\ contract' = [contract EXCEPT ![r] = v]
      /\ UNCHANGED <<outcome, messageId, tried, refused, log, shape, fullWire, known, waiting,
                     reply, pod, message, offset>>
    BY DEF Lookup, deliveryVars, world, sdk, kafka
<1>2. message[r] = "none" /\ r \notin refused
    BY <1>1 DEF StageInv, RefusedInv
<1>3. TypeOK'
    <2>1. /\ stage' \in [Requests -> {"idle", "received", "checking", "awaiting", "done"}]
          /\ contract' \in [Requests -> Versions \cup {NoVersion}]
        BY <1>1 DEF TypeOK
    <2> QED
        BY <1>1, <2>1 DEF TypeOK
<1>4. \A q \in Requests :
        /\ stage'[q] = IF q = r THEN "checking" ELSE stage[q]
        /\ contract'[q] = IF q = r THEN v ELSE contract[q]
    BY <1>1 DEF TypeOK
<1>5. StageInv' /\ MessageInv' /\ RefusedInv'
    BY <1>1, <1>2, <1>4 DEF StageInv, MessageInv, RefusedInv, Holds, TypeOK
<1>6. OffsetInv' /\ LoggedWasValidated' /\ CallInv'
    BY <1>1 DEF OffsetInv, Logged, LoggedWasValidated, CallInv, Holds
<1>7. ReplyInv'
    <2>1. ASSUME NEW d \in Calls, reply[d] # NoReply
          PROVE  stage'[LastTry(d)] = stage[LastTry(d)]
        <3>1. d \in waiting /\ stage[LastTry(d)] = "done"
            BY <2>1 DEF ReplyInv
        <3>2. LastTry(d) \in Requests
            BY <3>1, LastTryIsRequest
        <3> QED
            BY <1>1, <1>4, <3>1, <3>2
    <2> QED
        BY <1>1, <2>1 DEF ReplyInv, LastTry
<1> QED
    BY <1>3, <1>5, <1>6, <1>7

LEMMA HandlerStep ==
    ASSUME IInv, NEW r \in Requests, Handle(r)
    PROVE  IInv'
<1>1. stage[r] \in {"received", "checking"} => message[r] = "none"
    BY DEF IInv, StageInv
<1>2. ASSUME BadRequest(r) \/ LookupFails(r) \/ Unparsable(r) \/ Violates(r)
      PROVE  IInv'
    <2>1. PICK code \in {"400", "500"} \cup Refusals : Answer(r, code)
        BY <1>2 DEF BadRequest, LookupFails, Unparsable, Violates, Refusals
    <2>2. /\ stage[r] \in {"received", "checking"}
          /\ UNCHANGED <<deliveryVars, world, waiting, pod, contract, kafka>>
        BY <1>2 DEF BadRequest, LookupFails, Unparsable, Violates
    <2>3. code \in Codes /\ code # "202" /\ Running(r)
        BY <2>2 DEF Codes, Refusals, Running
    <2> QED
        BY <1>1, <2>1, <2>2, <2>3, AnswerStep
<1>3. ASSUME EnqueueFails(r) \/ DeliveryFails(r) \/ Cancelled(r)
      PROVE  IInv'
    <2>1. /\ Answer(r, "502") /\ Running(r)
          /\ UNCHANGED <<deliveryVars, world, waiting, pod, contract, kafka>>
        BY <1>3 DEF EnqueueFails, DeliveryFails, Cancelled, Running
    <2>2. "502" \in Codes /\ "502" \notin Refusals
        BY DEF Codes, Refusals
    <2> QED
        BY <2>1, <2>2, AnswerStep
<1>4. CASE Delivered(r)
    <2>1. /\ Answer(r, "202") /\ Running(r) /\ message[r] = "acked"
          /\ UNCHANGED <<deliveryVars, world, waiting, pod, contract, kafka>>
        BY <1>4 DEF Delivered, Running
    <2>2. "202" \in Codes /\ "202" \notin Refusals
        BY DEF Codes, Refusals
    <2> QED
        BY <2>1, <2>2, AnswerStep
<1> QED
    BY <1>2, <1>3, <1>4, EnqueueStep, LookupStep DEF Handle

-----------------------------------------------------------------------------
(* Kafka, the processes, and new contract versions.                        *)

LEMMA BrokerWritesStep ==
    ASSUME IInv, NEW r \in Requests, BrokerWrites(r)
    PROVE  IInv'
<1> USE DEF IInv
<1> DEFINE x == [req |-> r, version |-> contract[r]]
<1>1. /\ message[r] \in {"queued", "in doubt"} /\ offset[r] = 0
      /\ log' = Append(log, x)
      /\ offset' = [offset EXCEPT ![r] = Len(log) + 1]
      /\ UNCHANGED <<outcome, messageId, tried, refused, shape, fullWire, known, waiting,
                     reply, stage, pod, contract, message>>
    BY DEF BrokerWrites, world, sdk, handler
<1>2. contract[r] \in known /\ shape[r[1]] = "object" /\ Holds(r[1], contract[r])
    BY <1>1 DEF MessageInv
<1>3. x \in Record /\ x.req = r /\ x.version = contract[r]
    BY <1>2 DEF Record, TypeOK
<1> log \in Seq(Record)
    BY DEF TypeOK
<1>4. Len(log) \in Nat
    OBVIOUS
<1> HIDE DEF x
<1>5. /\ log' \in Seq(Record) /\ Len(log') = Len(log) + 1
      /\ \A i \in 1 .. Len(log) : log'[i] = log[i]
      /\ log'[Len(log) + 1] = x
    BY <1>1, <1>3, <1>4, AppendFacts
<1>6. \A i \in 1 .. Len(log') : i \in 1 .. Len(log) \/ i = Len(log) + 1
    BY <1>4, <1>5
<1>7. \A q \in Requests : offset'[q] = IF q = r THEN Len(log) + 1 ELSE offset[q]
    BY <1>1 DEF TypeOK
<1>8. TypeOK'
    <2> offset \in [Requests -> Nat]
        BY DEF TypeOK
    <2>1. offset' \in [Requests -> Nat]
        <3>1. Len(log) + 1 \in Nat
            BY <1>4
        <3>2. offset' = [offset EXCEPT ![r] = Len(log) + 1]
            BY <1>1
        <3> QED
            BY <3>1, <3>2
    <2>2. log' \in Seq(Record)
        BY <1>5
    <2>3. UNCHANGED <<outcome, messageId, tried, refused, shape, fullWire, known, waiting,
                      reply, stage, pod, contract, message>>
        BY <1>1
    <2> QED
        BY <2>1, <2>2, <2>3 DEF TypeOK
<1>9. LoggedWasValidated'
    <2> SUFFICES ASSUME NEW i \in 1 .. Len(log')
                 PROVE  /\ log'[i].version \in known
                        /\ shape[log'[i].req[1]] = "object"
                        /\ Holds(log'[i].req[1], log'[i].version)
        BY <1>1 DEF LoggedWasValidated, Holds
    <2>1. CASE i \in 1 .. Len(log)
        BY <1>5, <2>1 DEF LoggedWasValidated
    <2>2. CASE i = Len(log) + 1
        BY <1>2, <1>3, <1>5, <2>2
    <2> QED
        BY <1>6, <2>1, <2>2
<1>10. StageInv' /\ MessageInv' /\ RefusedInv' /\ CallInv'
    BY <1>1 DEF StageInv, MessageInv, RefusedInv, CallInv, Holds
<1>11. OffsetInv'
    <2> SUFFICES ASSUME NEW q \in Requests
                 PROVE  /\ offset'[q] # 0 =>
                             /\ message[q] # "none"
                             /\ offset'[q] \in 1 .. Len(log') /\ log'[offset'[q]].req = q
                        /\ message[q] = "acked" => offset'[q] # 0
                        /\ Logged(q)' => offset'[q] # 0
        BY <1>1 DEF OffsetInv
    <2>1. CASE q = r
        <3>1. offset'[q] = Len(log) + 1 /\ message[q] # "none" /\ message[q] # "acked"
            BY <1>1, <1>7, <2>1
        <3>2. /\ Len(log) + 1 \in 1 .. Len(log') /\ Len(log) + 1 # 0
              /\ log'[Len(log) + 1].req = q
            BY <1>3, <1>4, <1>5, <2>1
        <3> QED
            BY <3>1, <3>2
    <2>2. CASE q # r
        <3>1. offset'[q] = offset[q]
            BY <1>7, <2>2
        <3>2. Logged(q)' => Logged(q)
            BY <1>3, <1>5, <1>6, <2>2 DEF Logged
        <3>3. offset[q] # 0 => /\ offset[q] \in 1 .. Len(log) /\ log[offset[q]].req = q
                               /\ message[q] # "none"
            BY DEF OffsetInv
        <3>4. offset[q] # 0 => offset[q] \in 1 .. Len(log') /\ log'[offset[q]].req = q
            BY <1>4, <1>5, <3>3
        <3> QED
            BY <3>1, <3>2, <3>3, <3>4 DEF OffsetInv
    <2> QED
        BY <2>1, <2>2
<1>12. ReplyInv'
    <2>1. ASSUME NEW d \in Calls, reply[d] # NoReply, reply[d].status = "202"
          PROVE  reply[d].id = offset'[LastTry(d)]
        <3>1. /\ d \in waiting /\ message[LastTry(d)] = "acked"
              /\ reply[d].id = offset[LastTry(d)]
            BY <2>1 DEF ReplyInv
        <3>2. LastTry(d) \in Requests /\ LastTry(d) # r
            BY <1>1, <3>1, LastTryIsRequest
        <3> QED
            BY <1>7, <3>1, <3>2
    <2> QED
        BY <1>1, <2>1 DEF ReplyInv, LastTry
<1> QED
    BY <1>8, <1>9, <1>10, <1>11, <1>12

\* What the Kafka client does to messages that are queued disturbs nothing,
\* as long as "acked" means written.
LEMMA MessageStep ==
    ASSUME IInv,
           message' \in [Requests -> {"none", "queued", "acked", "failed", "in doubt"}],
           stage' \in [Requests -> {"idle", "received", "checking", "awaiting", "done"}],
           \A q \in Requests : \/ message'[q] = message[q]
                               \/ /\ message[q] = "queued" /\ message'[q] # "none"
                                  /\ message'[q] = "acked" => offset[q] # 0,
           \A q \in Requests : \/ stage'[q] = stage[q]
                               \/ stage[q] # "idle" /\ stage'[q] = "done",
           UNCHANGED <<deliveryVars, world, sdk, pod, contract, offset>>
    PROVE  IInv'
<1> USE DEF IInv
<1>1. UNCHANGED <<outcome, messageId, tried, refused, log, shape, fullWire, known, waiting,
                  reply, pod, contract, offset>>
    BY DEF deliveryVars, world, sdk
<1>2. TypeOK'
    BY <1>1 DEF TypeOK
<1>3. LoggedWasValidated' /\ CallInv'
    BY <1>1 DEF LoggedWasValidated, CallInv, Holds
<1>4. \A q \in Requests : (message'[q] = "none") <=> (message[q] = "none")
    OBVIOUS
<1>5. /\ StageInv'
      /\ MessageInv'
      /\ OffsetInv'
    <2>1. StageInv'
        BY <1>1, <1>4 DEF StageInv
    <2>2. MessageInv'
        BY <1>1, <1>4 DEF MessageInv, Holds
    <2>3. \A q \in Requests : message'[q] = "acked" => offset[q] # 0
        BY DEF OffsetInv
    <2>4. OffsetInv'
        BY <1>1, <1>4, <2>3 DEF OffsetInv, Logged
    <2> QED
        BY <2>1, <2>2, <2>4
<1>6. RefusedInv'
    BY <1>1, <1>4 DEF RefusedInv, TypeOK
<1>7. ReplyInv'
    <2>1. ASSUME NEW d \in Calls, reply[d] # NoReply
          PROVE  /\ d \in waiting /\ stage'[LastTry(d)] = "done"
                 /\ reply[d].status = "202" =>
                      message'[LastTry(d)] = "acked" /\ reply[d].id = offset[LastTry(d)]
                 /\ reply[d].status # "202" => reply[d].id = 0
                 /\ reply[d].status \in Refusals => message'[LastTry(d)] = "none"
        <3>1. d \in waiting /\ stage[LastTry(d)] = "done"
            BY <2>1 DEF ReplyInv
        <3>2. LastTry(d) \in Requests
            BY <3>1, LastTryIsRequest
        <3> QED
            BY <2>1, <3>1, <3>2 DEF ReplyInv
    <2>2. tried' = tried /\ reply' = reply /\ waiting' = waiting /\ offset' = offset
        BY <1>1
    <2> SUFFICES ASSUME NEW d \in Calls, reply[d] # NoReply
                 PROVE  /\ d \in waiting' /\ stage'[LastTry(d)] = "done"
                        /\ reply[d].status = "202" =>
                             message'[LastTry(d)] = "acked" /\ reply[d].id = offset'[LastTry(d)]
                        /\ reply[d].status # "202" => reply[d].id = 0
                        /\ reply[d].status \in Refusals => message'[LastTry(d)] = "none"
        BY <2>2 DEF ReplyInv, LastTry
    <2> QED
        BY <2>1, <2>2
<1> QED
    BY <1>2, <1>3, <1>5, <1>6, <1>7

LEMMA KafkaStep ==
    ASSUME IInv, NEW r \in Requests,
           BrokerAcks(r) \/ ClientGivesUp(r, "failed") \/ ClientGivesUp(r, "in doubt")
    PROVE  IInv'
<1>1. PICK fate \in {"acked", "failed", "in doubt"} :
        /\ message[r] = "queued" /\ message' = [message EXCEPT ![r] = fate]
        /\ fate = "acked" => offset[r] # 0
        /\ stage' = stage
        /\ UNCHANGED <<deliveryVars, world, sdk, pod, contract, offset>>
    BY DEF BrokerAcks, ClientGivesUp, handler
<1> message \in [Requests -> {"none", "queued", "acked", "failed", "in doubt"}]
    BY DEF IInv, TypeOK
<1>2. stage' \in [Requests -> {"idle", "received", "checking", "awaiting", "done"}]
    BY <1>1 DEF IInv, TypeOK
<1>3. \A q \in Requests : message'[q] = IF q = r THEN fate ELSE message[q]
    BY <1>1
<1>4. message' \in [Requests -> {"none", "queued", "acked", "failed", "in doubt"}]
    BY <1>1
<1> QED
    BY <1>1, <1>2, <1>3, <1>4, MessageStep

LEMMA DieStep ==
    ASSUME IInv, NEW p \in Pods, Die(p)
    PROVE  IInv'
<1>1. PICK inDoubt \in SUBSET {r \in Requests : pod[r] = p /\ message[r] = "queued"} :
        message' = [r \in Requests |->
                      IF r \in inDoubt THEN "in doubt"
                      ELSE IF pod[r] = p /\ message[r] = "queued" THEN "failed"
                      ELSE message[r]]
    BY DEF Die
<1>2. /\ stage' = [r \in Requests |-> IF Running(r) /\ pod[r] = p THEN "done" ELSE stage[r]]
      /\ UNCHANGED <<deliveryVars, world, sdk, pod, contract, offset>>
    BY DEF Die
<1> /\ message \in [Requests -> {"none", "queued", "acked", "failed", "in doubt"}]
    /\ stage \in [Requests -> {"idle", "received", "checking", "awaiting", "done"}]
    BY DEF IInv, TypeOK
<1>3. /\ message' \in [Requests -> {"none", "queued", "acked", "failed", "in doubt"}]
      /\ \A q \in Requests : \/ message'[q] = message[q]
                             \/ message[q] = "queued" /\ message'[q] \in {"failed", "in doubt"}
    BY <1>1
<1>4. /\ stage' \in [Requests -> {"idle", "received", "checking", "awaiting", "done"}]
      /\ \A q \in Requests : \/ stage'[q] = stage[q]
                             \/ stage[q] # "idle" /\ stage'[q] = "done"
    BY <1>2 DEF Running
<1> QED
    BY <1>2, <1>3, <1>4, MessageStep

LEMMA ActivateStep ==
    ASSUME IInv, NEW v \in Versions, Activate(v)
    PROVE  IInv'
<1> USE DEF IInv, Activate, deliveryVars, sdk, handler, kafka
<1>1. TypeOK' /\ LoggedWasValidated'
    BY DEF TypeOK, LoggedWasValidated, Holds
<1>2. StageInv' /\ MessageInv' /\ OffsetInv'
    BY DEF StageInv, MessageInv, OffsetInv, Logged, Holds
<1>3. ReplyInv' /\ RefusedInv' /\ CallInv'
    BY DEF ReplyInv, RefusedInv, CallInv, LastTry
<1> QED
    BY <1>1, <1>2, <1>3

LEMMA IInvStep == IInv /\ [Next]_vars => IInv'
<1> SUFFICES ASSUME IInv, [Next]_vars PROVE IInv'
    OBVIOUS
<1>1. CASE UNCHANGED vars
    <2> USE <1>1 DEF vars, deliveryVars, world, sdk, handler, kafka, IInv
    <2>1. TypeOK' /\ LoggedWasValidated'
        BY DEF TypeOK, LoggedWasValidated, Holds
    <2>2. StageInv' /\ MessageInv' /\ OffsetInv' /\ ReplyInv' /\ RefusedInv' /\ CallInv'
        BY DEF StageInv, MessageInv, OffsetInv, ReplyInv, RefusedInv, CallInv, Logged,
               LastTry, Holds
    <2> QED
        BY <2>1, <2>2
<1>2. CASE Next
    BY <1>2, SdkStep, HandlerStep, BrokerWritesStep, KafkaStep, DieStep, ActivateStep DEF Next
<1> QED
    BY <1>1, <1>2

LEMMA IInvHolds == Spec => []IInv
BY IInvInit, IInvStep, PTL DEF Spec

-----------------------------------------------------------------------------
\* Types: calls, attempts, handlers, messages and replies stay what they are.
THEOREM TypeCorrect == Spec => []TypeOK
<1>1. IInv => TypeOK
    BY DEF IInv
<1> QED
    BY <1>1, IInvHolds, PTL

\* Whatever a caller, a process or Kafka does in the meantime, only messages
\* that passed validation are written.
THEOREM LoggedValid == Spec => []LoggedWasValidated
<1>1. IInv => LoggedWasValidated
    BY DEF IInv
<1> QED
    BY <1>1, IInvHolds, PTL

LEMMA ReadReplyDelivers ==
    ASSUME IInv, NEW c \in Calls, ReadReply(c)
    PROVE  [DeliveryNext]_deliveryVars
<1> USE DEF IInv
<1> DEFINE how == Meaning(reply[c].status)
           try == LastTry(c)
<1>1. /\ c \in waiting /\ reply[c] # NoReply
      /\ outcome[c] = "pending" /\ tried[c] > 0 /\ messageId[c] = 0
    BY DEF ReadReply, HangUp, CallInv
<1>2. /\ outcome' = [outcome EXCEPT ![c] = how]
      /\ messageId' = [messageId EXCEPT ![c] = reply[c].id]
      /\ refused' = IF how \in Refusals THEN refused \cup {try} ELSE refused
      /\ tried' = tried /\ log' = log
    BY DEF ReadReply
<1>3. try \in Requests
    BY <1>1, LastTryIsRequest
<1> /\ outcome \in [Calls -> {"pending", "accepted", "failed"} \cup Refusals]
    /\ messageId \in [Calls -> Nat]
    BY DEF TypeOK
<1>4. /\ how = "accepted" => reply[c].status = "202"
      /\ how \in Refusals => reply[c].status = how /\ how # "accepted"
      /\ how = "pending" => reply[c].status # "202"
      /\ how \in {"accepted", "pending"} \cup Refusals
      /\ reply[c].status \in Refusals => reply[c].status # "202"
      /\ {"accepted", "pending"} \cap Refusals = {}
    BY DEF Meaning, Refusals
<1>5. /\ reply[c].status = "202" => message[try] = "acked" /\ reply[c].id = offset[try]
      /\ reply[c].status # "202" => reply[c].id = 0
      /\ reply[c].status \in Refusals => message[try] = "none"
    BY <1>1 DEF ReplyInv
<1>6. /\ message[try] = "acked" => offset[try] \in 1 .. Len(log) /\ log[offset[try]].req = try
      /\ message[try] = "none" => ~Logged(try)
    BY <1>3 DEF OffsetInv
<1> HIDE DEF how
<1>7. CASE how = "accepted"
    <2>1. Accept(c, offset[try])
        BY <1>1, <1>2, <1>4, <1>5, <1>6, <1>7 DEF Accept
    <2> QED
        BY <1>4, <1>5, <1>6, <1>7, <2>1 DEF DeliveryNext
<1>8. CASE how \in Refusals
    <2>1. messageId' = messageId
        BY <1>1, <1>2, <1>4, <1>5, <1>8
    <2>2. Refuse(c, how)
        BY <1>1, <1>2, <1>4, <1>5, <1>6, <1>8, <2>1 DEF Refuse
    <2> QED
        BY <1>8, <2>2 DEF DeliveryNext
<1>9. CASE how = "pending"
    <2>1. messageId' = messageId /\ outcome' = outcome
        BY <1>1, <1>2, <1>4, <1>5, <1>9
    <2>2. refused' = refused
        BY <1>2, <1>4, <1>9
    <2> QED
        BY <1>2, <2>1, <2>2 DEF deliveryVars
<1> QED
    BY <1>4, <1>7, <1>8, <1>9

LEMMA BrokerWritesDelivers ==
    ASSUME IInv, NEW r \in Requests, BrokerWrites(r)
    PROVE  [DeliveryNext]_deliveryVars
<1> USE DEF IInv
<1>1. message[r] # "none" /\ offset[r] = 0
    BY DEF BrokerWrites
<1>2. contract[r] \in Versions
    BY <1>1 DEF MessageInv, TypeOK
<1>3. r[2] <= tried[r[1]] /\ ~Logged(r) /\ r \notin refused
    BY <1>1 DEF StageInv, OffsetInv, RefusedInv
<1>4. Land(r, contract[r])
    BY <1>3 DEF BrokerWrites, Land
<1> QED
    BY <1>2, <1>4 DEF DeliveryNext

LEMMA StepDelivers == IInv /\ [Next]_vars => [DeliveryNext]_deliveryVars
<1> SUFFICES ASSUME IInv, [Next]_vars PROVE [DeliveryNext]_deliveryVars
    OBVIOUS
<1>1. CASE UNCHANGED vars
    BY <1>1 DEF vars
<1>2. ASSUME NEW v \in Versions, Activate(v)
      PROVE  UNCHANGED deliveryVars
    BY <1>2 DEF Activate
<1>3. ASSUME NEW c \in Calls,
             (\E p \in Pods : Send(c, p)) \/ ConnectFails(c) \/ Raise(c)
      PROVE  DeliveryNext
    BY <1>3 DEF Send, ConnectFails, Raise, DeliveryNext
<1>4. ASSUME NEW c \in Calls, AttemptFails(c)
      PROVE  UNCHANGED deliveryVars
    BY <1>4 DEF AttemptFails
<1>5. ASSUME NEW r \in Requests,
             \/ Handle(r) \/ BrokerAcks(r)
             \/ \E fate \in {"failed", "in doubt"} : ClientGivesUp(r, fate)
      PROVE  UNCHANGED deliveryVars
    BY <1>5 DEF Handle, BadRequest, LookupFails, Lookup, Unparsable, Violates, Enqueue,
                EnqueueFails, Delivered, DeliveryFails, Cancelled, BrokerAcks, ClientGivesUp
<1>6. ASSUME NEW p \in Pods, Die(p)
      PROVE  UNCHANGED deliveryVars
    BY <1>6 DEF Die
<1> QED
    BY <1>1, <1>2, <1>3, <1>4, <1>5, <1>6, ReadReplyDelivers, BrokerWritesDelivers DEF Next

\* produce() keeps Delivery's promise: an accepted call names a record of its
\* own, a refused attempt leaves none, and an attempt leaves at most one.
THEOREM KeepsPromise == Spec => KeepsDeliveryPromise
<1>1. Init => DeliveryInit
    BY DEF Init
<1> QED
    BY <1>1, IInvHolds, StepDelivers, PTL DEF Spec, KeepsDeliveryPromise, DeliverySpec

-----------------------------------------------------------------------------
(* What Delivery's promise comes to, for whatever implements it.           *)

DeliveryType ==
    /\ tried \in [Calls -> 0 .. Attempts]
    /\ outcome \in [Calls -> {"pending", "accepted", "failed"} \cup Refusals]
    /\ messageId \in [Calls -> Nat]
    /\ log \in Seq(Record)

\* One record for each try at most, written by a try that was made.
OncePerTry ==
    /\ \A i, j \in 1 .. Len(log) : log[i].req = log[j].req => i = j
    /\ \A i \in 1 .. Len(log) : log[i].req[2] <= tried[log[i].req[1]]

\* An accepted call's id is the place of the record of its last try.
AcceptedIsWritten == \A c \in Calls : outcome[c] = "accepted" =>
    messageId[c] \in 1 .. Len(log) /\ log[messageId[c]].req = LastTry(c)

\* The tries answered with a refusal have no record, and the last try of a
\* refused call is one of them.
RefusalInv ==
    /\ \A i \in 1 .. Len(log) : log[i].req \notin refused
    /\ \A c \in Calls : outcome[c] \in Refusals => LastTry(c) \in refused

\* A refused call has left records only by tries before the refused one.
RefusedOnlyRetried == \A c \in Calls : outcome[c] \in Refusals =>
    \A i \in 1 .. Len(log) : log[i].req[1] = c => log[i].req[2] < tried[c]

DInv == DeliveryType /\ OncePerTry /\ AcceptedIsWritten /\ RefusalInv

LEMMA RecordOfRequest ==
    ASSUME NEW s \in Seq(Record), NEW i \in 1 .. Len(s)
    PROVE  s[i].req \in Requests
<1>1. s[i] \in Record
    OBVIOUS
<1> QED
    BY <1>1 DEF Record

LEMMA DInvStep ==
    ASSUME DInv, DeliveryNext
    PROVE  DInv'
<1> USE DEF DInv, DeliveryType
<1>1. ASSUME NEW c \in Calls, Try(c) PROVE DInv'
    <2>1. /\ tried' = [tried EXCEPT ![c] = @ + 1] /\ tried[c] < Attempts /\ outcome[c] = "pending"
          /\ UNCHANGED <<outcome, messageId, refused, log>>
        BY <1>1 DEF Try
    <2>2. /\ tried' \in [Calls -> 0 .. Attempts]
          /\ \A d \in Calls : tried[d] <= tried'[d] /\ (d # c => tried'[d] = tried[d])
        BY <2>1, AttemptsNat
    <2>3. OncePerTry'
        <3>1. ASSUME NEW i \in 1 .. Len(log) PROVE log[i].req[2] <= tried'[log[i].req[1]]
            <4>1. log[i].req \in Requests
                BY RecordOfRequest
            <4>2. log[i].req[1] \in Calls /\ log[i].req[2] \in Nat
                BY <4>1, RequestPairs
            <4>3. log[i].req[2] <= tried[log[i].req[1]]
                BY DEF OncePerTry
            <4> QED
                BY <2>2, <4>2, <4>3
        <3> QED
            BY <2>1, <3>1 DEF OncePerTry
    <2>4. \A d \in Calls : outcome[d] # "pending" => LastTry(d)' = LastTry(d)
        BY <2>1, <2>2 DEF LastTry
    <2>5. AcceptedIsWritten'
        BY <2>1, <2>4 DEF AcceptedIsWritten
    <2>6. RefusalInv'
        BY <2>1, <2>4 DEF RefusalInv, Refusals
    <2> QED
        BY <2>1, <2>2, <2>3, <2>5, <2>6
<1>2. ASSUME NEW c \in Calls, Fail(c) PROVE DInv'
    <2>1. /\ outcome[c] = "pending" /\ outcome' = [outcome EXCEPT ![c] = "failed"]
          /\ UNCHANGED <<messageId, tried, refused, log>>
        BY <1>2 DEF Fail
    <2>2. "failed" \notin Refusals
        BY DEF Refusals
    <2> QED
        BY <2>1, <2>2 DEF OncePerTry, AcceptedIsWritten, RefusalInv, LastTry
<1>3. ASSUME NEW c \in Calls, NEW i \in 1 .. Len(log), Accept(c, i) PROVE DInv'
    <2>1. /\ log[i].req = LastTry(c)
          /\ outcome' = [outcome EXCEPT ![c] = "accepted"]
          /\ messageId' = [messageId EXCEPT ![c] = i]
          /\ UNCHANGED <<tried, refused, log>>
        BY <1>3 DEF Accept
    <2>2. "accepted" \notin Refusals
        BY DEF Refusals
    <2> QED
        BY <2>1, <2>2 DEF OncePerTry, AcceptedIsWritten, RefusalInv, LastTry
<1>4. ASSUME NEW c \in Calls, NEW why \in Refusals, Refuse(c, why) PROVE DInv'
    <2>1. /\ ~Logged(LastTry(c))
          /\ outcome' = [outcome EXCEPT ![c] = why]
          /\ refused' = refused \cup {LastTry(c)}
          /\ UNCHANGED <<messageId, tried, log>>
        BY <1>4 DEF Refuse
    <2>2. why # "accepted"
        BY DEF Refusals
    <2>3. OncePerTry' /\ AcceptedIsWritten'
        BY <2>1, <2>2 DEF OncePerTry, AcceptedIsWritten, LastTry
    <2>4. RefusalInv'
        BY <2>1 DEF RefusalInv, LastTry, Logged
    <2> QED
        BY <2>1, <2>3, <2>4
<1>5. ASSUME NEW r \in Requests, NEW v \in Versions, Land(r, v) PROVE DInv'
    <2> DEFINE x == [req |-> r, version |-> v]
    <2>1. /\ r[2] <= tried[r[1]] /\ ~Logged(r) /\ r \notin refused /\ log' = Append(log, x)
          /\ UNCHANGED <<outcome, messageId, tried, refused>>
        BY <1>5 DEF Land
    <2>2. x \in Record /\ x.req = r
        BY DEF Record
    <2> HIDE DEF x
    <2>3. /\ log' \in Seq(Record) /\ Len(log') = Len(log) + 1 /\ Len(log) \in Nat
          /\ \A i \in 1 .. Len(log) : log'[i] = log[i]
          /\ log'[Len(log) + 1] = x
        BY <2>1, <2>2, AppendFacts
    <2>4. \A i \in 1 .. Len(log') : i \in 1 .. Len(log) \/ i = Len(log) + 1
        BY <2>3
    <2>5. \A i \in 1 .. Len(log) : log[i].req # r
        BY <2>1 DEF Logged
    <2>6. OncePerTry'
        <3>1. ASSUME NEW i \in 1 .. Len(log'), NEW j \in 1 .. Len(log'), log'[i].req = log'[j].req
              PROVE  i = j
            BY <2>2, <2>3, <2>4, <2>5, <3>1 DEF OncePerTry
        <3>2. ASSUME NEW i \in 1 .. Len(log')
              PROVE  log'[i].req[2] <= tried[log'[i].req[1]]
            BY <2>1, <2>2, <2>3, <2>4 DEF OncePerTry
        <3> QED
            BY <2>1, <3>1, <3>2 DEF OncePerTry
    <2>7. AcceptedIsWritten'
        BY <2>1, <2>3 DEF AcceptedIsWritten, LastTry
    <2>8. RefusalInv'
        BY <2>1, <2>2, <2>3, <2>4 DEF RefusalInv, LastTry
    <2> QED
        BY <2>1, <2>3, <2>6, <2>7, <2>8
<1> QED
    BY <1>1, <1>2, <1>3, <1>4, <1>5 DEF DeliveryNext

LEMMA DeliveryHolds == DeliverySpec => []DInv
<1>1. DeliveryInit => DInv
    BY AttemptsNat
    DEF DeliveryInit, DInv, DeliveryType, OncePerTry, AcceptedIsWritten, RefusalInv, Refusals
<1>2. DInv /\ UNCHANGED deliveryVars => DInv'
    BY DEF deliveryVars, DInv, DeliveryType, OncePerTry, AcceptedIsWritten, RefusalInv, LastTry
<1>3. DInv /\ [DeliveryNext]_deliveryVars => DInv'
    BY <1>2, DInvStep
<1> QED
    BY <1>1, <1>3, PTL DEF DeliverySpec

\* ACCEPTED is durable: whatever happens afterwards, the message id is the
\* place of a record of that very call, and no try has written two.
THEOREM AcceptedIsDurable == Spec => [](AcceptedIsWritten /\ OncePerTry)
<1>1. DInv => AcceptedIsWritten /\ OncePerTry
    BY DEF DInv
<1>2. KeepsDeliveryPromise => []DInv
    BY DeliveryHolds DEF KeepsDeliveryPromise
<1> QED
    BY <1>1, <1>2, KeepsPromise, PTL

\* "The message was rejected by the gateway" (ContractViolationError) is true
\* of the refused try for ever; only an earlier try that the SDK gave up on
\* can have left a record.
THEOREM RefusedLeavesNothing == Spec => []RefusedOnlyRetried
<1>1. DInv => RefusedOnlyRetried
    <2> SUFFICES ASSUME DInv, NEW c \in Calls, outcome[c] \in Refusals, NEW i \in 1 .. Len(log),
                        log[i].req[1] = c
                 PROVE  log[i].req[2] < tried[c]
        BY DEF RefusedOnlyRetried
    <2>1. log[i].req \in Requests
        BY RecordOfRequest DEF DInv, DeliveryType
    <2>2. log[i].req = <<c, log[i].req[2]>> /\ log[i].req[2] \in Nat /\ tried[c] \in Nat
        BY <2>1, RequestPairs DEF DInv, DeliveryType
    <2>3. log[i].req # LastTry(c)
        BY DEF DInv, RefusalInv
    <2>4. log[i].req[2] # tried[c]
        BY <2>2, <2>3 DEF LastTry
    <2>5. log[i].req[2] <= tried[c]
        BY DEF DInv, OncePerTry
    <2> QED
        BY <2>2, <2>4, <2>5
<1>2. KeepsDeliveryPromise => []DInv
    BY DeliveryHolds DEF KeepsDeliveryPromise
<1> QED
    BY <1>1, <1>2, KeepsPromise, PTL

\* So a producer that does not retry may take a rejection for what it says:
\* with budgets of one try, a rejected message is never in the topic.
THEOREM SingleTriesAreRejectedUnwritten ==
    ASSUME \A c \in Calls : Budget(c) <= 1
    PROVE  Spec => []RejectedNotWritten
<1> DEFINE Within == \A c \in Calls : tried[c] <= 1
<1>1. Init => Within
    <2> SUFFICES ASSUME Init, NEW c \in Calls PROVE tried[c] <= 1
        OBVIOUS
    <2>1. tried[c] = 0
        BY DEF Init, DeliveryInit
    <2> QED
        BY <2>1
<1>2. IInv /\ Within /\ [Next]_vars => Within'
    <2> SUFFICES ASSUME IInv, Within, [Next]_vars PROVE Within'
        OBVIOUS
    <2>1. ASSUME NEW c \in Calls, MayTry(c), Try(c) PROVE Within'
        <3>1. /\ tried \in [Calls -> 0 .. Attempts] /\ tried' = [tried EXCEPT ![c] = @ + 1]
              /\ tried[c] < Budget(c)
            BY <2>1 DEF IInv, TypeOK, Try, MayTry
        <3>2. Budget(c) \in Nat
            BY AttemptsNat, ProduceAssumption DEF Budget
        <3>3. tried'[c] <= 1
            BY <3>1, <3>2, AttemptsNat
        <3> QED
            BY <3>1, <3>3
    <2>2. ASSUME UNCHANGED tried PROVE Within'
        BY <2>2
    <2> QED
        BY <2>1, <2>2
        DEF Next, vars, deliveryVars, Activate, Send, ConnectFails, ReadReply, AttemptFails, Raise,
            Fail, Handle, BadRequest, LookupFails, Lookup, Unparsable, Violates, Enqueue,
            EnqueueFails, Delivered, DeliveryFails, Cancelled, BrokerWrites, BrokerAcks,
            ClientGivesUp, Die
<1>3. IInv /\ Within /\ RefusedOnlyRetried => RejectedNotWritten
    <2> SUFFICES ASSUME IInv, Within, RefusedOnlyRetried, NEW c \in Calls, outcome[c] = "violation",
                        NEW i \in 1 .. Len(log), log[i].req[1] = c
                 PROVE  FALSE
        BY DEF RejectedNotWritten
    <2>1. log[i].req \in Requests
        BY RecordOfRequest DEF IInv, TypeOK
    <2>2. /\ log[i].req[2] \in Nat /\ log[i].req[2] >= 1
          /\ tried[c] \in Nat /\ tried[c] <= 1
        <3>1. tried \in [Calls -> 0 .. Attempts]
            BY DEF IInv, TypeOK
        <3>2. log[i].req[2] \in 1 .. Attempts
            BY <2>1, RequestPairs
        <3> QED
            BY <3>1, <3>2, AttemptsNat
    <2>3. log[i].req[2] < tried[c]
        BY DEF RefusedOnlyRetried, Refusals
    <2> QED
        BY <2>2, <2>3
<1> HIDE DEF Within
<1> QED
    BY <1>1, <1>2, <1>3, IInvHolds, RefusedLeavesNothing, PTL DEF Spec
=============================================================================
