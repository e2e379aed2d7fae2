---------------------------- MODULE Masking_proofs ----------------------------
(***************************************************************************)
(* What a masked message shows and what its reply tells, for every tree of *)
(* paths and every list of policies, however long.                         *)
(***************************************************************************)
EXTENDS Masking, TLAPS

\* The engine works on this request, or has let it pass.
Engaged == phase = "masking" \/ (Passed /\ request.policies # << >>)

\* Policies whose turn is over.
Past == {i \in DOMAIN request.policies : i < next}

\* Nothing of the former request is left.
FreshInv ==
    /\ phase \in {"idle", "received"} \/ request.policies = << >> =>
         next = 1 /\ transformed = {}
    /\ phase = "idle" => request.policies = << >>
    /\ request.form # "object" => request.doc = Empty
    /\ phase = "masking" => request.policies # << >> /\ Decodes(request)

\* How the working document differs from what came, and why.
DocInv == Engaged =>
    /\ \A q \in Fields : request.doc[q] = "absent" => doc[q] = "absent"
    /\ \A q \in Fields : doc[q] # Decoded(request.doc)[q] =>
         \E t \in transformed : q \in Inside(t)
    /\ \A q \in Fields : doc[q] = "suffix" =>
         \E j \in DOMAIN request.policies : request.policies[j] = [path |-> q, op |-> "MASK"]

\* What the policies so far have seen to.
PastInv == Engaged =>
    /\ \A i \in Past : \A q \in Inside(request.policies[i].path) : doc[q] \notin Clear
    /\ \A i \in Past : request.doc[request.policies[i].path] # "absent" =>
         \E q \in transformed : request.policies[i].path \in Inside(q)
    /\ \A q \in transformed : HasPolicy(q) /\ request.doc[q] # "absent"

\* A message that passed is the working document after the last policy.
ReplyInv == Passed =>
    \/ request.policies = << >> /\ reply = request.doc
    \/ /\ request.policies # << >> /\ Decodes(request)
       /\ reply = doc /\ warnings = Detected
       /\ Past = DOMAIN request.policies

\* Why a field is gone, null or a string by now, and what no policy met.
StuckInv == Engaged =>
    /\ \A q \in Fields : request.doc[q] # "absent" =>
         (doc[q] = "absent" <=>
            \E j \in Past, r \in Paths : <<q, r>> \in Below /\ Redacts(j, r))
    /\ \A q \in Fields : doc[q] # "absent" => (doc[q] = "null" <=> request.doc[q] = "null")
    /\ \A q \in Fields : doc[q] \notin {"absent", "null"} =>
         (doc[q] \in Strings <=> \/ request.doc[q] \in Strings
                                \/ \E j \in Past : Redacts(j, q))
    /\ \A i \in Past : ~Stuck(i)

VerdictInv ==
    phase = "answered" /\ request.policies # << >> =>
        \/ status = 200
        \/ /\ status = 422
           /\ \/ ~Decodes(request)
              \/ \E i \in DOMAIN request.policies : Stuck(i)

IInv == TypeOK /\ FreshInv /\ DocInv /\ PastInv /\ ReplyInv /\ StuckInv /\ VerdictInv

-----------------------------------------------------------------------------
LEMMA RequestType ==
    ASSUME NEW r \in Requests
    PROVE  /\ r.form \in {"object", "null", "other"}
           /\ r.doc \in [Fields -> Plain] /\ WellFormed(r.doc)
           /\ r.policies \in Seq(Policy)
           /\ r.form # "object" => r.doc = Empty
<1>1. Empty \in [Fields -> Plain] /\ WellFormed(Empty)
    BY DEF Empty, Plain, WellFormed
<1> QED
    BY <1>1, MaskingAssumption DEF Requests, Documents

LEMMA EmptyFacts ==
    /\ Empty \in [Fields -> Plain \cup Produced] /\ Empty \in [Fields -> Plain]
    /\ WellFormed(Empty)
    /\ NoRequest.form = "null" /\ NoRequest.doc = Empty /\ NoRequest.policies = << >>
    /\ << >> \in Seq(Policy)
BY DEF Empty, Plain, WellFormed, NoRequest

LEMMA DecodedFacts ==
    ASSUME NEW d \in [Fields -> Plain], WellFormed(d)
    PROVE  /\ Decoded(d) \in [Fields -> Plain \cup Produced]
           /\ WellFormed(Decoded(d))
           /\ \A q \in Fields : d[q] = "absent" => Decoded(d)[q] = "absent"
           /\ \A q \in Fields : Decoded(d)[q] # "suffix"
           /\ \A q \in Fields :
                /\ Decoded(d)[q] = "absent" <=> d[q] = "absent"
                /\ Decoded(d)[q] = "null" <=> d[q] = "null"
                /\ Decoded(d)[q] \in Strings <=> d[q] \in Strings
<1>1. Decoded(d) \in [Fields -> Plain \cup Produced]
    BY DEF Decoded, Plain, Produced
<1>2. \A q \in Fields : Decoded(d)[q] = IF d[q] = "wide" THEN "rounded" ELSE d[q]
    BY DEF Decoded
<1>3. WellFormed(Decoded(d))
    BY <1>2 DEF WellFormed, Container
<1>4. ASSUME NEW q \in Fields
      PROVE  /\ Decoded(d)[q] # "suffix"
             /\ Decoded(d)[q] = "absent" <=> d[q] = "absent"
             /\ Decoded(d)[q] = "null" <=> d[q] = "null"
             /\ Decoded(d)[q] \in Strings <=> d[q] \in Strings
    <2>1. d[q] \in Plain
        OBVIOUS
    <2> QED
        BY <1>2, <2>1 DEF Plain, Strings
<1> QED
    BY <1>1, <1>3, <1>4

(***************************************************************************)
(* Writing a value over a field that is there keeps the document a tree.   *)
(***************************************************************************)
LEMMA SetFacts ==
    ASSUME NEW d \in [Fields -> Plain \cup Produced], WellFormed(d),
           NEW p \in Fields, d[p] # "absent", NEW v \in Plain \cup Produced
    PROVE  /\ Set(d, p, v) \in [Fields -> Plain \cup Produced]
           /\ WellFormed(Set(d, p, v))
           /\ Set(d, p, v)[p] = v
           /\ \A q \in Fields : <<q, p>> \in Below => Set(d, p, v)[q] = "absent"
           /\ \A q \in Fields : q \notin Inside(p) => Set(d, p, v)[q] = d[q]
<1>1. Set(d, p, v) \in [Fields -> Plain \cup Produced]
    BY DEF Set, Plain
<1>2. /\ Set(d, p, v)[p] = v
      /\ \A q \in Fields : <<q, p>> \in Below => Set(d, p, v)[q] = "absent"
      /\ \A q \in Fields : q \notin Inside(p) => Set(d, p, v)[q] = d[q]
    BY MaskingAssumption DEF Set, Inside
<1>3. ASSUME NEW a \in Fields, NEW b \in Fields, <<a, b>> \in Below, Set(d, p, v)[a] # "absent"
      PROVE  Set(d, p, v)[b] = Container(a, b)
    <2>1. <<a, p>> \notin Below
        BY <1>2, <1>3
    <2>2. b # p /\ <<b, p>> \notin Below
        BY <1>3, <2>1, MaskingAssumption
    <2>3. d[a] # "absent"
        BY <1>2, <1>3, <2>1 DEF Inside
    <2>4. d[b] = Container(a, b)
        BY <1>3, <2>3 DEF WellFormed
    <2> QED
        BY <1>2, <2>2, <2>4 DEF Inside
<1> QED
    BY <1>1, <1>2, <1>3 DEF WellFormed

LEMMA AppliedFacts ==
    ASSUME NEW o \in Operations \cup {"unknown"}, NEW v \in Plain \cup Produced,
           v # "absent", Applies(o, v)
    PROVE  /\ Applied(o, v) \in Plain \cup Produced
           /\ Applied(o, v) \notin Clear /\ Applied(o, v) # "absent"
           /\ Applied(o, v) = "suffix" => o = "MASK"
BY DEF Applies, Applied, Left, Operations, Plain, Produced, Strings, Clear

LEMMA IInvInit == Init => IInv
<1> SUFFICES ASSUME Init PROVE IInv
    OBVIOUS
<1> USE EmptyFacts DEF Init
<1>1. TypeOK
    BY DEF TypeOK
<1>2. FreshInv /\ DocInv /\ PastInv /\ ReplyInv /\ StuckInv /\ VerdictInv
    BY DEF FreshInv, DocInv, PastInv, ReplyInv, StuckInv, VerdictInv, Engaged, Passed
<1> QED
    BY <1>1, <1>2 DEF IInv

(***************************************************************************)
(* The handler's own steps, and the replies given before the engine works. *)
(***************************************************************************)
LEMMA HandlerStep ==
    ASSUME IInv, Receive \/ BadRequest \/ PassThrough \/ ParseFails \/ Return
    PROVE  IInv'
<1> USE EmptyFacts DEF IInv, engine, answer, Answer
<1>1. CASE Receive
    <2>1. /\ request'.form \in {"object", "null", "other"}
          /\ request'.doc \in [Fields -> Plain] /\ WellFormed(request'.doc)
          /\ request'.policies \in Seq(Policy)
          /\ request'.form # "object" => request'.doc = Empty
        BY <1>1, RequestType DEF Receive
    <2>2. TypeOK'
        BY <1>1, <2>1 DEF Receive, TypeOK, WellFormed
    <2>3. FreshInv'
        BY <1>1, <2>1 DEF Receive, FreshInv
    <2>4. phase' = "received"
        BY <1>1 DEF Receive
    <2>5. DocInv' /\ PastInv' /\ ReplyInv' /\ StuckInv' /\ VerdictInv'
        BY <2>4 DEF DocInv, PastInv, ReplyInv, StuckInv, VerdictInv, Engaged, Passed
    <2> QED
        BY <2>2, <2>3, <2>5
<1>2. CASE BadRequest \/ PassThrough \/ ParseFails
    <2>1. /\ UNCHANGED <<request, doc, next, transformed>>
          /\ phase' = "answered"
          /\ warnings' = {}
          /\ \/ status' = 400 /\ request.policies = << >> /\ reply' = Empty
             \/ status' = 200 /\ request.policies = << >> /\ reply' = request.doc
             \/ status' = 422 /\ ~Decodes(request) /\ reply' = Empty
        BY <1>2 DEF BadRequest, PassThrough, ParseFails, FreshInv
    <2>2. TypeOK'
        BY <2>1 DEF TypeOK, WellFormed
    <2>3. FreshInv'
        BY <1>2, <2>1 DEF FreshInv, BadRequest, PassThrough, ParseFails
    <2>4. ~Engaged'
        BY <2>1 DEF Engaged, Passed
    <2>5. ReplyInv' /\ VerdictInv'
        BY <2>1 DEF ReplyInv, VerdictInv, Passed
    <2> QED
        BY <2>2, <2>3, <2>4, <2>5 DEF DocInv, PastInv, StuckInv
<1>3. CASE Return
    <2>1. /\ phase' = "idle" /\ request' = NoRequest
          /\ doc' = Empty /\ next' = 1 /\ transformed' = {}
          /\ status' = 0 /\ reply' = Empty /\ warnings' = {}
        BY <1>3 DEF Return
    <2>2. TypeOK'
        <3>1. /\ request'.form = "null" /\ request'.doc = Empty /\ request'.policies = << >>
              /\ next' \in Nat \ {0}
            BY <2>1
        <3>2. WellFormed(request.doc)' /\ WellFormed(doc)'
            BY <2>1, <3>1 DEF WellFormed
        <3> HIDE DEF IInv
        <3> QED
            BY <2>1, <3>1, <3>2 DEF TypeOK
    <2>3. FreshInv' /\ ~Engaged' /\ ReplyInv' /\ VerdictInv'
        BY <2>1 DEF FreshInv, Engaged, ReplyInv, VerdictInv, Passed
    <2> QED
        BY <2>2, <2>3 DEF DocInv, PastInv, StuckInv
<1> QED
    BY <1>1, <1>2, <1>3

(***************************************************************************)
(* The document is parsed: it differs by numbers only, and no policy has   *)
(* had its turn.                                                           *)
(***************************************************************************)
LEMMA ParseStep ==
    ASSUME IInv, Parse
    PROVE  IInv'
<1> USE DEF IInv
<1>1. /\ UNCHANGED <<request, next, transformed, status, reply, warnings>>
      /\ phase' = "masking" /\ doc' = Decoded(request.doc)
      /\ request.policies # << >> /\ Decodes(request)
      /\ next = 1 /\ transformed = {}
    BY DEF Parse, answer, FreshInv
<1>2. request.doc \in [Fields -> Plain] /\ WellFormed(request.doc)
    BY DEF TypeOK
<1>3. /\ doc' \in [Fields -> Plain \cup Produced] /\ WellFormed(doc')
      /\ \A q \in Fields : request.doc[q] = "absent" => doc'[q] = "absent"
      /\ \A q \in Fields : doc'[q] # "suffix"
    BY <1>1, <1>2, DecodedFacts
<1>4. TypeOK'
    BY <1>1, <1>3 DEF TypeOK, WellFormed
<1>5. FreshInv' /\ ReplyInv' /\ VerdictInv'
    BY <1>1 DEF FreshInv, ReplyInv, VerdictInv, Passed
<1>6. Past' = {}
    BY <1>1 DEF Past, TypeOK
<1>7. DocInv'
    BY <1>1, <1>3 DEF DocInv, Decoded
<1>8. PastInv'
    BY <1>1, <1>6 DEF PastInv
<1>9. StuckInv'
    <2>1. \A q \in Fields :
            /\ doc'[q] = "absent" <=> request.doc[q] = "absent"
            /\ doc'[q] = "null" <=> request.doc[q] = "null"
            /\ doc'[q] \in Strings <=> request.doc[q] \in Strings
        BY <1>1, <1>2, DecodedFacts
    <2> QED
        BY <1>1, <1>6, <2>1 DEF StuckInv
<1> QED
    BY <1>4, <1>5, <1>7, <1>8, <1>9

-----------------------------------------------------------------------------
(* The turn of one policy.                                                 *)

LEMMA TurnFacts ==
    ASSUME IInv, Working
    PROVE  /\ next \in DOMAIN request.policies /\ next \notin Past
           /\ \A i \in Past : i \in 1 .. next - 1
           /\ \A i \in 1 .. next - 1 : i \in Past
           /\ Turn = request.policies[next]
           /\ Turn.path \in Paths /\ Turn.path \in Fields
           /\ Turn.op \in Operations \cup {"unknown"}
           /\ Turn = [path |-> Turn.path, op |-> Turn.op]
           /\ Engaged
<1>1. request.policies \in Seq(Policy) /\ next \in Nat \ {0}
    BY DEF IInv, TypeOK
<1>2. next \in 1 .. Len(request.policies)
    BY <1>1 DEF Working
<1>3. Turn \in Policy
    BY <1>1, <1>2 DEF Turn
<1> QED
    BY <1>1, <1>2, <1>3, MaskingAssumption DEF Past, Turn, Policy, Working, Engaged

LEMMA PastGrows ==
    ASSUME IInv, Working, next' = next + 1, UNCHANGED request
    PROVE  Past' = Past \cup {next}
<1>1. request.policies \in Seq(Policy) /\ next \in Nat \ {0}
    BY DEF IInv, TypeOK
<1>2. next \in 1 .. Len(request.policies)
    BY <1>1 DEF Working
<1> QED
    BY <1>1, <1>2 DEF Past

\* What the policy whose turn it is meets decides whether it is stuck.
LEMMA StuckFacts ==
    ASSUME IInv, Working
    PROVE  Stuck(next) <=> /\ doc[Turn.path] # "absent"
                           /\ ~Applies(Turn.op, doc[Turn.path])
<1> DEFINE p == Turn.path
           o == Turn.op
<1>1. /\ next \in DOMAIN request.policies
      /\ \A i \in Past : i \in 1 .. next - 1
      /\ \A i \in 1 .. next - 1 : i \in Past
      /\ Turn = request.policies[next] /\ p \in Paths /\ p \in Fields
      /\ o \in Operations \cup {"unknown"}
      /\ Engaged
    BY TurnFacts
<1>2. /\ request.doc[p] = "absent" => doc[p] = "absent"
      /\ doc[p] # "absent" => (doc[p] = "null" <=> request.doc[p] = "null")
      /\ request.doc[p] # "absent" =>
           (doc[p] = "absent" <=>
             \E j \in 1 .. next - 1, r \in Paths : <<p, r>> \in Below /\ Redacts(j, r))
      /\ doc[p] \notin {"absent", "null"} =>
           (doc[p] \in Strings <=> \/ request.doc[p] \in Strings
                                  \/ \E j \in 1 .. next - 1 : Redacts(j, p))
    BY <1>1 DEF IInv, DocInv, StuckInv
<1>3. Stuck(next) <=>
        /\ request.doc[p] \notin {"absent", "null"}
        /\ ~\E j \in 1 .. next - 1, q \in Paths : <<p, q>> \in Below /\ Redacts(j, q)
        /\ \/ o = "unknown"
           \/ /\ o # "REDACT" /\ request.doc[p] \notin Strings
              /\ ~\E j \in 1 .. next - 1 : Redacts(j, p)
    BY <1>1 DEF Stuck
<1>4. Applies(o, doc[p]) <=> \/ doc[p] = "null"
                             \/ o = "REDACT"
                             \/ o # "unknown" /\ doc[p] \in Strings
    BY <1>1 DEF Applies, Operations, Strings
<1> HIDE DEF p, o
<1>5. Stuck(next) <=> doc[p] # "absent" /\ ~Applies(o, doc[p])
    BY <1>1, <1>2, <1>3, <1>4 DEF Operations
<1> QED
    BY <1>5 DEF p, o

LEMMA SkipStep ==
    ASSUME IInv, Skip
    PROVE  IInv'
<1> DEFINE p == Turn.path
           o == Turn.op
<1>1. /\ UNCHANGED <<phase, request, doc, transformed, status, reply, warnings>>
      /\ next' = next + 1 /\ phase = "masking"
      /\ doc[p] = "absent" /\ Working
    BY DEF Skip, Working, answer
<1>2. /\ next \in DOMAIN request.policies /\ p \in Paths /\ p \in Fields
      /\ Engaged /\ Turn = request.policies[next]
      /\ Turn = [path |-> p, op |-> o]
    BY <1>1, TurnFacts
<1>3. Past' = Past \cup {next}
    BY <1>1, PastGrows
<1>4. \A q \in Inside(p) : doc[q] = "absent"
    BY <1>1, <1>2 DEF Inside, IInv, TypeOK, WellFormed, Container
<1>5. ~Stuck(next)
    BY <1>1, StuckFacts
<1>6. TypeOK' /\ FreshInv' /\ VerdictInv' /\ ReplyInv'
    BY <1>1 DEF IInv, TypeOK, WellFormed, FreshInv, VerdictInv, ReplyInv, Passed
<1>7. DocInv'
    BY <1>1 DEF IInv, DocInv, Engaged, Passed
<1>8. PastInv'
    <2>1. doc[p] = "absent" /\ request.doc[p] # "absent" =>
             \E t \in transformed : p \in Inside(t)
        BY <1>2 DEF IInv, DocInv, Decoded
    <2>2. \A q \in Inside(request.policies[next].path) : doc[q] \notin Clear
        BY <1>2, <1>4 DEF Clear
    <2> QED
        BY <1>1, <1>2, <1>3, <2>1, <2>2 DEF IInv, PastInv, Engaged, Passed, HasPolicy
<1>9. StuckInv'
    <2>1. ASSUME NEW q \in Fields, request.doc[q] # "absent"
          PROVE  doc[q] = "absent" <=>
                   \E j \in Past', r \in Paths : <<q, r>> \in Below /\ Redacts(j, r)
        <3>1. doc[q] = "absent" <=>
                \E j \in Past, r \in Paths : <<q, r>> \in Below /\ Redacts(j, r)
            BY <1>2, <2>1 DEF IInv, StuckInv
        <3>2. ASSUME NEW r \in Paths, <<q, r>> \in Below, Redacts(next, r)
              PROVE  doc[q] = "absent"
            <4>1. r = p
                BY <1>2, <3>2 DEF Redacts
            <4> QED
                BY <1>4, <3>2, <4>1 DEF Inside
        <3> QED
            BY <1>3, <3>1, <3>2
    <2>2. ASSUME NEW q \in Fields, doc[q] \notin {"absent", "null"}
          PROVE  doc[q] \in Strings <=> \/ request.doc[q] \in Strings
                                       \/ \E j \in Past' : Redacts(j, q)
        <3>1. doc[q] \in Strings <=> \/ request.doc[q] \in Strings
                                    \/ \E j \in Past : Redacts(j, q)
            BY <1>2, <2>2 DEF IInv, StuckInv
        <3>2. ~Redacts(next, q)
            BY <1>1, <1>2, <2>2 DEF Redacts
        <3> QED
            BY <1>3, <3>1, <3>2
    <2>3. \A q \in Fields : doc[q] # "absent" => (doc[q] = "null" <=> request.doc[q] = "null")
        BY <1>2 DEF IInv, StuckInv
    <2>4. \A i \in Past' : ~Stuck(i)
        BY <1>2, <1>3, <1>5 DEF IInv, StuckInv
    <2>5. \A i \in Past' : Stuck(i)' = Stuck(i)
        BY <1>1 DEF Stuck, Redacts
    <2>6. \A j, q : Redacts(j, q)' = Redacts(j, q)
        BY <1>1 DEF Redacts
    <2> QED
        BY <1>1, <2>1, <2>2, <2>3, <2>4, <2>5, <2>6 DEF StuckInv
<1> QED
    BY <1>6, <1>7, <1>8, <1>9 DEF IInv

LEMMA TransformStep ==
    ASSUME IInv, Transform
    PROVE  IInv'
<1> DEFINE p == Turn.path
           o == Turn.op
           v == Applied(o, doc[p])
<1>1. /\ UNCHANGED <<phase, request, status, reply, warnings>>
      /\ doc' = Set(doc, p, v) /\ transformed' = transformed \cup {p}
      /\ next' = next + 1 /\ phase = "masking"
      /\ doc[p] # "absent" /\ Applies(o, doc[p]) /\ Working
    BY DEF Transform, Working, answer
<1>2. /\ next \in DOMAIN request.policies /\ p \in Paths /\ p \in Fields
      /\ o \in Operations \cup {"unknown"}
      /\ Engaged /\ Turn = request.policies[next]
      /\ Turn = [path |-> p, op |-> o]
    BY <1>1, TurnFacts
<1>3. Past' = Past \cup {next}
    BY <1>1, PastGrows
<1>4. /\ doc \in [Fields -> Plain \cup Produced] /\ WellFormed(doc)
      /\ request.doc \in [Fields -> Plain] /\ WellFormed(request.doc)
    BY DEF IInv, TypeOK
<1>5. /\ v \in Plain \cup Produced /\ v \notin Clear /\ v # "absent"
      /\ v = "suffix" => o = "MASK"
    BY <1>1, <1>2, <1>4, AppliedFacts
<1>6. /\ doc' \in [Fields -> Plain \cup Produced]
      /\ WellFormed(doc')
      /\ doc'[p] = v
      /\ \A q \in Fields : <<q, p>> \in Below => doc'[q] = "absent"
      /\ \A q \in Fields : q \notin Inside(p) => doc'[q] = doc[q]
    <2> HIDE DEF p, o, v
    <2>1. doc' = Set(doc, p, v) /\ doc[p] # "absent"
        BY <1>1
    <2> QED
        BY <1>2, <1>4, <1>5, <2>1, SetFacts
<1>7. \A q \in Fields : q \in Inside(p) <=> q = p \/ <<q, p>> \in Below
    BY DEF Inside
<1>8. ~Stuck(next)
    BY <1>1, StuckFacts
<1>9. Engaged /\ Engaged'
    BY <1>1, <1>2 DEF Engaged
<1> HIDE DEF p, o, v
<1>10. TypeOK' /\ FreshInv' /\ VerdictInv' /\ ReplyInv'
    <2>1. TypeOK'
        BY <1>1, <1>2, <1>6 DEF IInv, TypeOK, WellFormed
    <2>2. request.policies # << >>
        BY <1>2
    <2> QED
        BY <1>1, <2>1, <2>2 DEF IInv, FreshInv, VerdictInv, ReplyInv, Passed
<1>11. DocInv'
    <2>1. \A q \in Fields : request.doc[q] = "absent" => doc'[q] = "absent"
        BY <1>1, <1>2, <1>6, <1>7, <1>9 DEF IInv, DocInv
    <2>2. \A q \in Fields : doc'[q] # Decoded(request.doc)[q] =>
            \E t \in transformed' : q \in Inside(t)
        BY <1>1, <1>2, <1>6, <1>9 DEF IInv, DocInv
    <2>3. \A q \in Fields : doc'[q] = "suffix" =>
            \E j \in DOMAIN request.policies : request.policies[j] = [path |-> q, op |-> "MASK"]
        BY <1>2, <1>5, <1>6, <1>7, <1>9 DEF IInv, DocInv
    <2> QED
        BY <1>1, <2>1, <2>2, <2>3 DEF DocInv, Decoded
<1>12. PastInv'
    <2>1. \A i \in Past' : \A q \in Inside(request.policies[i].path) : doc'[q] \notin Clear
        <3>1. \A q \in Inside(p) : doc'[q] \notin Clear
            BY <1>5, <1>6, <1>7 DEF Inside, Clear
        <3>2. \A i \in Past : \A q \in Inside(request.policies[i].path) : doc'[q] \notin Clear
            BY <1>6, <1>9, <3>1 DEF IInv, PastInv, Inside
        <3>3. request.policies[next].path = p
            BY <1>2
        <3> QED
            BY <1>3, <3>1, <3>2, <3>3
    <2>2. \A i \in Past' : request.doc[request.policies[i].path] # "absent" =>
             \E q \in transformed' : request.policies[i].path \in Inside(q)
        <3>1. p \in Inside(p) /\ request.policies[next].path = p
            BY <1>2 DEF Inside
        <3> QED
            BY <1>1, <1>3, <1>9, <3>1 DEF IInv, PastInv
    <2>3. \A q \in transformed' : HasPolicy(q) /\ request.doc[q] # "absent"
        <3>1. HasPolicy(p) /\ request.doc[p] # "absent"
            <4>1. HasPolicy(p)
                <5>1. request.policies[next].path = p
                    BY <1>2
                <5> QED
                    BY <1>2, <5>1 DEF HasPolicy
            <4>2. request.doc[p] # "absent"
                BY <1>1, <1>2, <1>9 DEF IInv, DocInv
            <4> QED
                BY <4>1, <4>2
        <3> QED
            BY <1>1, <1>9, <3>1 DEF IInv, PastInv
    <2> QED
        BY <1>1, <2>1, <2>2, <2>3 DEF PastInv, HasPolicy
<1>13. StuckInv'
    <2>1. ASSUME NEW q \in Fields, request.doc[q] # "absent"
          PROVE  doc'[q] = "absent" <=>
                   \E j \in Past', r \in Paths : <<q, r>> \in Below /\ Redacts(j, r)
        <3>1. doc[q] = "absent" <=>
                \E j \in Past, r \in Paths : <<q, r>> \in Below /\ Redacts(j, r)
            BY <1>9, <2>1 DEF IInv, StuckInv
        <3>2. \A r \in Paths : Redacts(next, r) <=> r = p /\ o = "REDACT"
            BY <1>2 DEF Redacts
        <3>3. CASE <<q, p>> \notin Below
            <4>1. doc'[q] = "absent" <=> doc[q] = "absent"
                BY <1>1, <1>5, <1>6, <1>7, <3>3
            <4> QED
                BY <1>3, <3>1, <3>2, <3>3, <4>1
        <3>4. CASE <<q, p>> \in Below /\ o = "REDACT"
            BY <1>2, <1>3, <1>6, <3>2, <3>4
        <3>5. CASE <<q, p>> \in Below /\ o # "REDACT"
            <4>1. doc[p] \notin {"object", "array"}
                BY <1>1, <3>5 DEF Applies, Strings
            <4>2. doc[q] = "absent"
                BY <1>2, <1>4, <3>5, <4>1, MaskingAssumption DEF WellFormed, Container
            <4> QED
                BY <1>3, <1>6, <3>1, <3>2, <3>5, <4>2
        <3> QED
            BY <3>3, <3>4, <3>5
    <2>2. \A q \in Fields : doc'[q] # "absent" => (doc'[q] = "null" <=> request.doc[q] = "null")
        <3>1. v = "null" <=> doc[p] = "null"
            BY <1>1, <1>2 DEF v, Applied, Applies, Left, Operations
        <3>2. doc[p] = "null" <=> request.doc[p] = "null"
            BY <1>1, <1>2, <1>9 DEF IInv, StuckInv
        <3> QED
            BY <1>6, <1>7, <1>9, <3>1, <3>2 DEF IInv, StuckInv
    <2>3. ASSUME NEW q \in Fields, doc'[q] \notin {"absent", "null"}
          PROVE  doc'[q] \in Strings <=> \/ request.doc[q] \in Strings
                                        \/ \E j \in Past' : Redacts(j, q)
        <3>1. <<q, p>> \notin Below
            BY <1>6, <2>3
        <3>2. CASE q # p
            <4>1. doc'[q] = doc[q]
                BY <1>6, <1>7, <3>1, <3>2
            <4>2. ~Redacts(next, q)
                BY <1>2, <3>2 DEF Redacts
            <4> QED
                BY <1>3, <1>9, <2>3, <4>1, <4>2 DEF IInv, StuckInv
        <3>3. CASE q = p
            <4>1. doc[p] # "null" /\ doc'[p] \in Strings
                BY <1>1, <1>2, <1>5, <1>6, <2>3, <3>3
                   DEF v, Applied, Applies, Left, Operations, Strings
            <4>2. CASE o = "REDACT"
                BY <1>2, <1>3, <3>3, <4>1, <4>2 DEF Redacts
            <4>3. CASE o # "REDACT"
                <5>1. doc[p] \in Strings
                    BY <1>1, <4>1, <4>3 DEF Applies
                <5> QED
                    BY <1>1, <1>2, <1>3, <1>9, <3>3, <4>1, <5>1 DEF IInv, StuckInv
            <4> QED
                BY <4>2, <4>3
        <3> QED
            BY <3>2, <3>3
    <2>4. \A i \in Past' : ~Stuck(i)
        BY <1>3, <1>8, <1>9 DEF IInv, StuckInv
    <2>5. /\ \A i \in Past' : Stuck(i)' = Stuck(i)
          /\ \A j, q : Redacts(j, q)' = Redacts(j, q)
        BY <1>1 DEF Stuck, Redacts
    <2> QED
        BY <1>1, <2>1, <2>2, <2>3, <2>4, <2>5 DEF StuckInv
<1> QED
    BY <1>10, <1>11, <1>12, <1>13 DEF IInv

(***************************************************************************)
(* The engine is done with this request.                                   *)
(***************************************************************************)
LEMMA BlockStep ==
    ASSUME IInv, Block
    PROVE  IInv'
<1>1. /\ UNCHANGED <<request, doc, next, transformed>>
      /\ phase' = "answered" /\ status' = 422 /\ reply' = Empty /\ warnings' = {}
      /\ Working /\ doc[Turn.path] # "absent" /\ ~Applies(Turn.op, doc[Turn.path])
    BY DEF Block, engine, Answer
<1>2. Stuck(next) /\ next \in DOMAIN request.policies
    BY <1>1, StuckFacts, TurnFacts
<1>3. \E i \in DOMAIN request'.policies : Stuck(i)'
    BY <1>1, <1>2 DEF Stuck, Redacts
<1>4. ~Engaged' /\ ~Passed'
    BY <1>1 DEF Engaged, Passed
<1>5. TypeOK' /\ FreshInv'
    BY <1>1, <1>2, EmptyFacts DEF IInv, TypeOK, WellFormed, FreshInv
<1> QED
    BY <1>1, <1>3, <1>4, <1>5
       DEF IInv, DocInv, PastInv, ReplyInv, StuckInv, VerdictInv

LEMMA FinishStep ==
    ASSUME IInv, Finish
    PROVE  IInv'
<1>1. /\ UNCHANGED <<request, doc, next, transformed>>
      /\ phase = "masking" /\ ~Working
      /\ phase' = "answered" /\ status' = 200 /\ reply' = doc /\ warnings' = Detected
    BY DEF Finish, engine, Answer
<1>2. request.policies \in Seq(Policy) /\ next \in Nat \ {0} /\ request.policies # << >>
    BY <1>1 DEF IInv, TypeOK, FreshInv
<1>3. Past = DOMAIN request.policies
    BY <1>1, <1>2 DEF Past, Working
<1>4. Past' = Past /\ Detected' = Detected
    BY <1>1 DEF Past, Detected, Collected, HasPolicy
<1>5. Detected \subseteq {PathOf[f] : f \in Fields}
    BY DEF Detected, Collected
<1>6. TypeOK' /\ FreshInv'
    BY <1>1, <1>2, <1>5 DEF IInv, TypeOK, WellFormed, FreshInv
<1>7. ReplyInv' /\ VerdictInv'
    BY <1>1, <1>2, <1>3, <1>4 DEF IInv, ReplyInv, VerdictInv, FreshInv
<1>8. Engaged
    BY <1>1 DEF Engaged
<1>9. DocInv' /\ PastInv'
    BY <1>1, <1>4, <1>8 DEF IInv, DocInv, PastInv, HasPolicy, Decoded
<1>10. StuckInv'
    <2>1. \A i \in Past : Stuck(i)' = Stuck(i)
        BY <1>1 DEF Stuck, Redacts
    <2>2. \A j, q : Redacts(j, q)' = Redacts(j, q)
        BY <1>1 DEF Redacts
    <2> QED
        BY <1>1, <1>4, <1>8, <2>1, <2>2 DEF IInv, StuckInv
<1> QED
    BY <1>6, <1>7, <1>9, <1>10 DEF IInv

LEMMA IInvStep == IInv /\ [Next]_vars => IInv'
<1> SUFFICES ASSUME IInv, [Next]_vars PROVE IInv'
    OBVIOUS
<1>1. CASE UNCHANGED vars
    <2>1. UNCHANGED <<phase, request, doc, next, transformed, status, reply, warnings>>
        BY <1>1 DEF vars, engine, answer
    <2>2. \A i : Stuck(i)' = Stuck(i)
        BY <2>1 DEF Stuck, Redacts
    <2>3. \A j, q : Redacts(j, q)' = Redacts(j, q)
        BY <2>1 DEF Redacts
    <2>4. /\ Past' = Past /\ Detected' = Detected /\ Engaged' = Engaged /\ Passed' = Passed
          /\ \A q : HasPolicy(q)' = HasPolicy(q)
        BY <2>1 DEF Past, Detected, Collected, HasPolicy, Engaged, Passed
    <2>5. TypeOK' /\ FreshInv'
        BY <2>1 DEF IInv, TypeOK, FreshInv, WellFormed
    <2>6. DocInv' /\ PastInv' /\ ReplyInv'
        BY <2>1, <2>4 DEF IInv, DocInv, PastInv, ReplyInv, Decoded
    <2>7. StuckInv' /\ VerdictInv'
        BY <2>1, <2>2, <2>3, <2>4 DEF IInv, StuckInv, VerdictInv
    <2> QED
        BY <2>5, <2>6, <2>7 DEF IInv
<1> QED
    BY <1>1, HandlerStep, ParseStep, SkipStep, TransformStep, BlockStep, FinishStep DEF Next

LEMMA IInvHolds == Spec => []IInv
    BY IInvInit, IInvStep, PTL DEF Spec

(***************************************************************************)
(* The types of the request, the working document and the reply; documents *)
(* stay trees whatever policies write into them.                           *)
(***************************************************************************)
THEOREM TypeCorrect == Spec => []TypeOK
<1>1. IInv => TypeOK
    BY DEF IInv
<1> QED
    BY <1>1, IInvHolds, PTL

(***************************************************************************)
(* A message that passes shows nothing at or inside the path of any of its *)
(* policies, in whatever order they name objects and parts of them.        *)
(***************************************************************************)
THEOREM Enforced == Spec => []PoliciesEnforced
<1>1. IInv => PoliciesEnforced
    <2> SUFFICES ASSUME IInv, Passed, NEW i \in DOMAIN request.policies
                 PROVE  LET p == request.policies[i].path IN
                          /\ \A q \in Inside(p) : reply[q] \notin Clear
                          /\ reply[p] = "suffix" =>
                               \E j \in DOMAIN request.policies :
                                 request.policies[j] = [path |-> p, op |-> "MASK"]
        BY DEF PoliciesEnforced
    <2>1. request.policies # << >>
        OBVIOUS
    <2>2. reply = doc /\ Past = DOMAIN request.policies /\ Engaged
        BY <2>1 DEF IInv, ReplyInv, Engaged
    <2>3. request.policies[i].path \in Paths
        <3>1. request.policies[i] \in Policy
            <4>1. request.policies \in Seq(Policy)
                BY DEF IInv, TypeOK
            <4> HIDE DEF Policy
            <4> QED
                BY <4>1
        <3> QED
            BY <3>1 DEF Policy
    <2> QED
        BY <2>2, <2>3, MaskingAssumption DEF IInv, DocInv, PastInv
<1> QED
    BY <1>1, IInvHolds, PTL

(***************************************************************************)
(* Fields that lie inside no policy's path leave as they came, up to the   *)
(* decoding of numbers.                                                    *)
(***************************************************************************)
THEOREM Untouched == Spec => []OthersUntouched
<1>1. IInv => OthersUntouched
    <2> SUFFICES ASSUME IInv, Passed, NEW p \in Fields
                 PROVE  \/ reply[p] \in {request.doc[p], Decoded(request.doc)[p]}
                        \/ \E i \in DOMAIN request.policies : p \in Inside(request.policies[i].path)
        BY DEF OthersUntouched
    <2>1. CASE request.policies = << >>
        BY <2>1 DEF IInv, ReplyInv
    <2>2. CASE request.policies # << >>
        BY <2>2 DEF IInv, ReplyInv, DocInv, PastInv, Engaged, HasPolicy
    <2> QED
        BY <2>1, <2>2
<1> QED
    BY <1>1, IInvHolds, PTL

(***************************************************************************)
(* fields_transformed accounts for every field of the payload that a       *)
(* policy names, and lists nothing else.                                   *)
(***************************************************************************)
THEOREM Audited == Spec => []AuditComplete
<1>1. IInv => AuditComplete
    BY DEF IInv, AuditComplete, FreshInv, ReplyInv, PastInv, Engaged
<1> QED
    BY <1>1, IInvHolds, PTL

(***************************************************************************)
(* Where a message has policies, a field whose path looks like PII leaves  *)
(* in clear without a warning only inside an array, or when a dotted key   *)
(* makes its path read as that of a policy, which leads elsewhere.         *)
(***************************************************************************)
THEOREM Mentioned == Spec => []PiiMentioned
<1>1. IInv => PiiMentioned
    <2> SUFFICES ASSUME IInv, Passed, request.policies # << >>,
                        NEW f \in Fields, PathOf[f] \in PiiNamed, reply[f] \in Clear,
                        ~InArray(f)
                 PROVE  PathOf[f] \in warnings \/ (f \notin Paths /\ HasPolicy(PathOf[f]))
        BY DEF PiiMentioned
    <2>1. reply = doc /\ warnings = Detected /\ Past = DOMAIN request.policies /\ Engaged
        BY DEF IInv, ReplyInv, Engaged
    <2>2. CASE HasPolicy(PathOf[f]) /\ f \in Paths
        <3>1. PathOf[f] = f /\ f \in Inside(f)
            BY <2>2, MaskingAssumption DEF Inside
        <3> QED
            BY <2>1, <2>2, <3>1 DEF IInv, PastInv, HasPolicy
    <2>3. CASE ~HasPolicy(PathOf[f])
        <3>1. f \in Collected
            BY <2>1 DEF Collected, Clear
        <3> QED
            BY <2>1, <2>3, <3>1 DEF Detected
    <2> QED
        BY <2>2, <2>3
<1> QED
    BY <1>1, IInvHolds, PTL

(***************************************************************************)
(* A message is blocked exactly when its payload is no object, a number in *)
(* it has no float64, or some policy cannot be applied to what the ones    *)
(* before it have left.                                                    *)
(***************************************************************************)
THEOREM BlockedRightly == Spec => []BlockedForReason
<1>1. IInv => BlockedForReason
    BY DEF IInv, BlockedForReason, VerdictInv, ReplyInv, StuckInv, Engaged, Passed, Decodes
<1> QED
    BY <1>1, IInvHolds, PTL
===============================================================================
