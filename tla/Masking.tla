------------------------------- MODULE Masking -------------------------------
(***************************************************************************)
(* The masking service: one request of POST /v1/mask, from the handler     *)
(* through Engine.Mask.  The handler keeps nothing between requests, so    *)
(* one request at a time is all there is to say.                           *)
(*                                                                         *)
(* A document gives every place a value may have (Fields) what is found    *)
(* there; the places form a tree (Below).  A policy's path is split at its *)
(* dots, so it leads through objects, by keys without dots, to the places  *)
(* in Paths, named as their path; the other places lie in arrays or behind *)
(* a key that has a dot in it.  Of a value only its class matters: what    *)
(* the operations can do to it, and how much of what the producer sent it  *)
(* still shows.                                                            *)
(***************************************************************************)
EXTENDS Naturals, Sequences

CONSTANTS
    Fields,      \* the places in a document
    Paths,       \* those that a policy's path can lead to
    Below,       \* <<f, g>>: f lies inside the object or the array at g
    Elements,    \* those pairs whose g must be an array
    PathOf,      \* the text collectPaths writes for a place: keys and dots
    PiiNamed,    \* texts that contain one of the detector's keywords
    PolicyLists  \* the lists of policies a request may carry

Operations == {"REDACT", "TOKENIZE", "MASK"}
Policy == [path : Paths, op : Operations \cup {"unknown"}]

\* "text" is a string longer than maskKeepSuffix, "short" one that is not;
\* "wide" is a number between two float64s, "huge" one beyond them all.
Plain == {"absent", "null", "text", "short", "wide", "huge", "other", "object", "array"}
Produced == {"rounded", "redacted", "token", "suffix", "opaque"}
Strings == {"text", "short", "redacted", "token", "suffix", "opaque"}

\* Values that show what the producer sent.
Clear == {"text", "short", "wide", "huge", "rounded", "other", "object", "array"}

Inside(g) == {f \in Fields : f = g \/ <<f, g>> \in Below}
InArray(f) == \E g \in Fields : <<f, g>> \in Elements

Container(f, g) == IF <<f, g>> \in Elements THEN "array" ELSE "object"
WellFormed(d) ==
    \A f, g \in Fields : <<f, g>> \in Below /\ d[f] # "absent" => d[g] = Container(f, g)

Documents == {d \in [Fields -> Plain] : WellFormed(d)}
Empty == [f \in Fields |-> "absent"]

\* The payload is an object, null, or other JSON.
Requests ==
    [form : {"object"}, doc : Documents, policies : PolicyLists]
      \cup [form : {"null", "other"}, doc : {Empty}, policies : PolicyLists]

NoRequest == [form |-> "null", doc |-> Empty, policies |-> << >>]

ASSUME MaskingAssumption ==
    /\ Paths \subseteq Fields /\ \A p \in Paths : PathOf[p] = p /\ ~InArray(p)
    /\ Below \subseteq Fields \X Fields /\ Elements \subseteq Below
    /\ \A f \in Fields : <<f, f>> \notin Below
    /\ \A f, g, h \in Fields : <<f, g>> \in Below /\ <<g, h>> \in Below => <<f, h>> \in Below
    /\ \A ps \in PolicyLists : ps \in Seq(Policy)

VARIABLES
    phase,        \* "idle", "received", "masking" or "answered"
    request,
    doc,          \* Mask's mutable document
    next,         \* the policy whose turn it is
    transformed,  \* paths in FieldsTransformed
    status,       \* of the reply
    reply,        \* its payload
    warnings      \* its pattern_warnings

engine == <<doc, next, transformed>>
answer == <<status, reply, warnings>>
vars == <<phase, request, engine, answer>>

Init ==
    /\ phase = "idle"
    /\ request = NoRequest
    /\ doc = Empty /\ next = 1 /\ transformed = {}
    /\ status = 0 /\ reply = Empty /\ warnings = {}

Answer(code, payload, warned) ==
    /\ phase' = "answered"
    /\ status' = code /\ reply' = payload /\ warnings' = warned

-----------------------------------------------------------------------------
(* The handler.                                                            *)

Receive ==
    /\ phase = "idle"
    /\ phase' = "received"
    /\ request' \in Requests
    /\ UNCHANGED <<engine, answer>>

\* The body does not decode, or has no topic or no payload.
BadRequest ==
    /\ phase = "idle"
    /\ Answer(400, Empty, {})
    /\ UNCHANGED <<request, engine>>

\* The goroutine ends; the next request starts from nothing.
Return ==
    /\ phase = "answered"
    /\ phase' = "idle"
    /\ request' = NoRequest
    /\ doc' = Empty /\ next' = 1 /\ transformed' = {}
    /\ status' = 0 /\ reply' = Empty /\ warnings' = {}

-----------------------------------------------------------------------------
(* Engine.Mask.                                                            *)

\* Without policies the payload is neither parsed nor scanned.
PassThrough ==
    /\ phase = "received"
    /\ request.policies = << >>
    /\ Answer(200, request.doc, {})
    /\ UNCHANGED <<request, engine>>

\* encoding/json decodes every number into a float64, the nearest one; where
\* there is none, anywhere in the payload, it fails.  A null decodes into a
\* map without keys.
Decoded(d) == [f \in Fields |-> IF d[f] = "wide" THEN "rounded" ELSE d[f]]
Decodes(r) == r.form # "other" /\ \A f \in Fields : r.doc[f] # "huge"

Parse ==
    /\ phase = "received"
    /\ request.policies # << >> /\ Decodes(request)
    /\ phase' = "masking"
    /\ doc' = Decoded(request.doc)
    /\ UNCHANGED <<request, next, transformed, answer>>

ParseFails ==
    /\ phase = "received"
    /\ request.policies # << >> /\ ~Decodes(request)
    /\ Answer(422, Empty, {})
    /\ UNCHANGED <<request, engine>>

\* Mutant: a document that replaces the field leaves what was in it.
SetKeepsNested(d, p, v) == [d EXCEPT ![p] = v]

\* Mutant: the value is written under the first part of the path.
SetAtRoot(d, p, v) ==
    LET top == CHOOSE q \in Paths : p \in Inside(q) /\ \A r \in Paths : <<q, r>> \notin Below IN
    [f \in Fields |-> IF f = top THEN v
                      ELSE IF <<f, top>> \in Below THEN "absent" ELSE d[f]]

\* setNestedField; what the field held goes with it.
Set(d, p, v) ==
    [f \in Fields |-> IF f = p THEN v
                      ELSE IF <<f, p>> \in Below THEN "absent" ELSE d[f]]

\* Mutant: REDACT asks for a string as the other operations do.
AppliesToStrings(op, v) == v = "null" \/ (op \in Operations /\ v \in Strings)

Applies(op, v) ==
    \/ v = "null"
    \/ op = "REDACT"
    \/ (op \in {"TOKENIZE", "MASK"} /\ v \in Strings)

\* What the operations leave of a value, by whether the suffix covers it.
Left(kept) == [REDACT |-> "redacted", TOKENIZE |-> "token", MASK |-> kept]

\* Mutant: a value that the suffix would cover is left as it is.
AppliedKeepsShort(op, v) ==
    IF v = "null" THEN "null"
    ELSE Left(IF v \in {"text", "suffix"} THEN "suffix" ELSE v)[op]

\* MASK keeps the last maskKeepSuffix characters, but not of a value that
\* has no more; what it keeps of a token or of the sentinel shows nothing.
Applied(op, v) ==
    IF v = "null" THEN "null"
    ELSE Left(IF v \in {"text", "suffix"} THEN "suffix" ELSE "opaque")[op]

Working == phase = "masking" /\ next <= Len(request.policies)
Turn == request.policies[next]

Skip ==
    /\ Working
    /\ doc[Turn.path] = "absent"
    /\ next' = next + 1
    /\ UNCHANGED <<phase, request, doc, transformed, answer>>

\* Mutant: a null is not reported as transformed.
TransformNullUnlisted ==
    /\ Working
    /\ doc[Turn.path] # "absent" /\ Applies(Turn.op, doc[Turn.path])
    /\ doc' = Set(doc, Turn.path, Applied(Turn.op, doc[Turn.path]))
    /\ transformed' = IF doc[Turn.path] = "null" THEN transformed ELSE transformed \cup {Turn.path}
    /\ next' = next + 1
    /\ UNCHANGED <<phase, request, answer>>

Transform ==
    /\ Working
    /\ doc[Turn.path] # "absent" /\ Applies(Turn.op, doc[Turn.path])
    /\ doc' = Set(doc, Turn.path, Applied(Turn.op, doc[Turn.path]))
    /\ transformed' = transformed \cup {Turn.path}
    /\ next' = next + 1
    /\ UNCHANGED <<phase, request, answer>>

\* "A partial mask is worse than blocking."
Block ==
    /\ Working
    /\ doc[Turn.path] # "absent" /\ ~Applies(Turn.op, doc[Turn.path])
    /\ Answer(422, Empty, {})
    /\ UNCHANGED <<request, engine>>

HasPolicy(p) == \E i \in DOMAIN request.policies : request.policies[i].path = p

\* collectPaths, on what the policies have left: it does not enter arrays.
Collected == {f \in Fields : doc[f] # "absent" /\ ~InArray(f)}

\* Mutant: only the keys of the document itself are scanned.
DetectedAtTop ==
    {t \in {PathOf[f] : f \in {g \in Collected : \A h \in Fields : <<g, h>> \notin Below}} :
        t \in PiiNamed /\ ~HasPolicy(t)}

\* ScanFieldPaths: the texts of paths are matched, with the policies' too.
Detected == {t \in {PathOf[f] : f \in Collected} : t \in PiiNamed /\ ~HasPolicy(t)}

Finish ==
    /\ phase = "masking" /\ ~Working
    /\ Answer(200, doc, Detected)
    /\ UNCHANGED <<request, engine>>

Next ==
    \/ Receive \/ BadRequest \/ PassThrough \/ Parse \/ ParseFails
    \/ Skip \/ Transform \/ Block \/ Finish \/ Return

Spec == Init /\ [][Next]_vars

-----------------------------------------------------------------------------
TypeOK ==
    /\ phase \in {"idle", "received", "masking", "answered"}
    /\ request.form \in {"object", "null", "other"}
    /\ request.doc \in [Fields -> Plain] /\ WellFormed(request.doc)
    /\ request.policies \in Seq(Policy)
    /\ doc \in [Fields -> Plain \cup Produced] /\ WellFormed(doc)
    /\ next \in Nat \ {0}
    /\ transformed \subseteq Paths
    /\ status \in {0, 200, 400, 422}
    /\ reply \in [Fields -> Plain \cup Produced]
    /\ warnings \subseteq {PathOf[f] : f \in Fields}

Passed == phase = "answered" /\ status = 200

(***************************************************************************)
(* "We do not silently pass through an unmasked PII value" (Apply): in     *)
(* whatever order policies name a field, its object or a part of it, a     *)
(* message that passes shows nothing at or inside any policy's path, but   *)
(* for the kept suffix where MASK was asked for.                           *)
(***************************************************************************)
PoliciesEnforced ==
    Passed => \A i \in DOMAIN request.policies :
        LET p == request.policies[i].path IN
        /\ \A q \in Inside(p) : reply[q] \notin Clear
        /\ reply[p] = "suffix" =>
             \E j \in DOMAIN request.policies : request.policies[j] = [path |-> p, op |-> "MASK"]

(***************************************************************************)
(* Masking changes nothing else: a field that lies inside no policy's path *)
(* leaves as it came, up to the decoding of numbers.                       *)
(***************************************************************************)
OthersUntouched ==
    Passed => \A f \in Fields :
        \/ reply[f] \in {request.doc[f], Decoded(request.doc)[f]}
        \/ \E i \in DOMAIN request.policies : f \in Inside(request.policies[i].path)

(***************************************************************************)
(* The audit of the reply is complete: every field of the payload that a   *)
(* policy names is in fields_transformed, or gone with an object that is;  *)
(* and nothing is listed that the payload did not have.                    *)
(***************************************************************************)
AuditComplete ==
    Passed =>
        /\ \A i \in DOMAIN request.policies :
             request.doc[request.policies[i].path] # "absent" =>
               \E q \in transformed : request.policies[i].path \in Inside(q)
        /\ \A q \in transformed : HasPolicy(q) /\ request.doc[q] # "absent"

(***************************************************************************)
(* The detector is "a safety net", with two holes: where a message has     *)
(* policies, a field whose path looks like PII leaves in clear without a   *)
(* warning only inside an array, or behind a dotted key that makes its     *)
(* path read as that of a policy, which leads elsewhere.                   *)
(***************************************************************************)
PiiMentioned ==
    Passed /\ request.policies # << >> =>
        \A f \in Fields : PathOf[f] \in PiiNamed /\ reply[f] \in Clear =>
            \/ PathOf[f] \in warnings
            \/ InArray(f)
            \/ f \notin Paths /\ HasPolicy(PathOf[f])

(***************************************************************************)
(* What a policy meets, by what came before it: an earlier REDACT above    *)
(* its path takes the field away, one on its path leaves a string.         *)
(***************************************************************************)
Redacts(j, p) == request.policies[j] = [path |-> p, op |-> "REDACT"]

Stuck(i) ==
    LET p == request.policies[i].path
        o == request.policies[i].op
        earlier == 1 .. i - 1 IN
    /\ request.doc[p] \notin {"absent", "null"}
    /\ ~\E j \in earlier, q \in Paths : <<p, q>> \in Below /\ Redacts(j, q)
    /\ \/ o = "unknown"
       \/ /\ o # "REDACT" /\ request.doc[p] \notin Strings
          /\ ~\E j \in earlier : Redacts(j, p)

(***************************************************************************)
(* A message is blocked when, and only when, some policy cannot be applied *)
(* to what it meets, the payload is no object, or a number in it, at       *)
(* whatever place, has no float64: no earlier policy hides the failure of  *)
(* a later one, and none causes it.                                        *)
(***************************************************************************)
BlockedForReason ==
    phase = "answered" /\ request.policies # << >> =>
        (status = 422 <=> \/ request.form = "other"
                          \/ \E f \in Fields : request.doc[f] = "huge"
                          \/ \E i \in DOMAIN request.policies : Stuck(i))
==============================================================================
