----------------------------- MODULE Gate_proofs -----------------------------
(***************************************************************************)
(* Proofs about Gate, for any number of pull requests, versions, consumers *)
(* and field names.                                                        *)
(***************************************************************************)
EXTENDS Gate, TLAPS

(* The worst class is one of the three; it is BREAKING when a change is.   *)
LEMMA WorstClass ==
    ASSUME NEW changes
    PROVE  /\ Worst(changes) \in Classes
           /\ Worst(changes) # "BREAKING" => \A c \in changes : c.severity # "BREAKING"
BY DEF Worst, Classes

LEMMA ClassifyType ==
    ASSUME NEW cur, NEW new
    PROVE  Classify(cur, new) \in Classes
BY WorstClass DEF Classify

-----------------------------------------------------------------------------
LEMMA AvroKeepsTypes ==
    ASSUME NEW cur, NEW new, NEW mode,
           \A c \in AvroChanges(cur, new, mode) : c.severity # "BREAKING"
    PROVE  \A n \in Kept(cur, new) : cur[n].type = new[n].type
<1>1. SUFFICES ASSUME NEW n \in Kept(cur, new), cur[n].type # new[n].type PROVE FALSE
    OBVIOUS
<1>2. Change("TYPE_CHANGED", n, "BREAKING") \in AvroChanges(cur, new, mode)
    BY <1>1 DEF AvroChanges
<1> QED BY <1>2 DEF Change

(* Avro: without a BREAKING change each of the two schemas reads what the  *)
(* other one wrote, as far as the mode asks for it.                        *)
LEMMA AvroUnbroken ==
    ASSUME NEW cur \in Body, NEW new \in Body, NEW mode,
           \A c \in AvroChanges(cur, new, mode) : c.severity # "BREAKING"
    PROVE  /\ Reads(cur, new)
           /\ mode = "BACKWARD" => Reads(new, cur)
<1>1. \A n \in Names : cur[n].strict \in BOOLEAN /\ new[n].strict \in BOOLEAN
    BY DEF Body, Field
<1>2. \A n \in Removed(cur, new) : ~cur[n].strict
    <2>1. SUFFICES ASSUME NEW n \in Removed(cur, new) PROVE ~cur[n].strict
        OBVIOUS
    <2>2. Change("FIELD_REMOVED", n, Severity(cur[n].strict)) \in AvroChanges(cur, new, mode)
        BY DEF AvroChanges
    <2>3. Severity(cur[n].strict) # "BREAKING"
        BY <2>2 DEF Change
    <2> QED BY <2>3 DEF Severity
<1>3. \A n \in Added(cur, new) : ~(new[n].strict /\ mode = "BACKWARD")
    <2>1. SUFFICES ASSUME NEW n \in Added(cur, new) PROVE ~(new[n].strict /\ mode = "BACKWARD")
        OBVIOUS
    <2>2. Change("FIELD_ADDED", n, Severity(new[n].strict /\ mode = "BACKWARD"))
              \in AvroChanges(cur, new, mode)
        BY DEF AvroChanges, AvroAdded
    <2>3. Severity(new[n].strict /\ mode = "BACKWARD") # "BREAKING"
        BY <2>2 DEF Change
    <2> QED BY <2>3 DEF Severity
<1>4. \A n \in Kept(cur, new) : cur[n].type = new[n].type
    BY AvroKeepsTypes
<1>5. Reads(cur, new)
    BY <1>2, <1>4 DEF Reads, Accepts, Removed, Kept
<1>6. mode = "BACKWARD" => Reads(new, cur)
    BY <1>3, <1>4 DEF Reads, Accepts, Added, Kept
<1> QED BY <1>5, <1>6

(* JSON Schema: without a BREAKING change every complete document stays    *)
(* complete, and no required property goes away.                           *)
LEMMA JsonUnbroken ==
    ASSUME NEW cur \in Body, NEW new \in Body,
           \A c \in JsonChanges(cur, new) : c.severity # "BREAKING"
    PROVE  /\ \A document \in SUBSET Names : Complete(cur, document) => Complete(new, document)
           /\ \A n \in Names : Declared(cur, n) /\ cur[n].strict => Declared(new, n)
<1>1. \A n \in Removed(cur, new) : ~cur[n].strict
    <2>1. SUFFICES ASSUME NEW n \in Removed(cur, new) PROVE ~cur[n].strict
        OBVIOUS
    <2>2. Change("FIELD_REMOVED", n, Severity(cur[n].strict)) \in JsonChanges(cur, new)
        BY DEF JsonChanges
    <2>3. Severity(cur[n].strict) # "BREAKING"
        BY <2>2 DEF Change
    <2> QED BY <2>3 DEF Severity
<1>2. \A n \in Added(cur, new) : ~new[n].strict
    <2>1. SUFFICES ASSUME NEW n \in Added(cur, new) PROVE ~new[n].strict
        OBVIOUS
    <2>2. Change("FIELD_ADDED", n, Severity(new[n].strict)) \in JsonChanges(cur, new)
        BY DEF JsonChanges
    <2>3. Severity(new[n].strict) # "BREAKING"
        BY <2>2 DEF Change
    <2> QED BY <2>3 DEF Severity
<1>3. \A n \in Kept(cur, new) : new[n].strict => cur[n].strict
    <2>1. SUFFICES ASSUME NEW n \in Kept(cur, new), new[n].strict, ~cur[n].strict PROVE FALSE
        OBVIOUS
    <2>2. Change("REQUIRED_ADDED", n, "BREAKING") \in JsonChanges(cur, new)
        BY <2>1 DEF JsonChanges
    <2> QED BY <2>2 DEF Change
<1>4. \A document \in SUBSET Names : Complete(cur, document) => Complete(new, document)
    BY <1>2, <1>3 DEF Complete, Added, Kept
<1> QED BY <1>1, <1>4 DEF Removed

(* The checker's promise: what is not BREAKING breaks nobody.              *)
LEMMA NotBreakingIsUnbroken ==
    ASSUME NEW cur \in Version, NEW new \in Version, Classify(cur, new) # "BREAKING"
    PROVE  Unbroken(cur, new)
<1>1. \A c \in Changes(cur, new) : c.severity # "BREAKING"
    BY WorstClass DEF Classify
<1>2. cur.body \in Body /\ new.body \in Body
    BY DEF Version
<1>3. CASE cur.format = "AVRO" /\ new.format = "AVRO"
    <2>1. Changes(cur, new) = AvroChanges(cur.body, new.body, cur.mode)
        BY <1>3 DEF Changes, Parsed
    <2> QED BY <1>1, <1>2, <1>3, <2>1, AvroUnbroken DEF Unbroken
<1>4. CASE cur.format = "JSON_SCHEMA" /\ new.format = "JSON_SCHEMA"
    <2>1. Changes(cur, new) = JsonChanges(cur.body, new.body)
        BY <1>4 DEF Changes, Parsed
    <2> QED BY <1>1, <1>2, <1>4, <2>1, JsonUnbroken DEF Unbroken
<1> QED BY <1>3, <1>4 DEF Unbroken

-----------------------------------------------------------------------------
(* What the classification misses.                                         *)

\* Without a BREAKING change old readers go on in every mode; new ones are
\* stopped by new fields without a default only.
LEMMA AvroMisses ==
    ASSUME NEW cur \in Version, NEW new \in Version,
           \A c \in AvroChanges(cur.body, new.body, cur.mode) : c.severity # "BREAKING"
    PROVE  ~Fits(cur, new) <=> AvroMiss(cur, new)
<1>1. cur.body \in Body /\ new.body \in Body /\ cur.mode \in Modes
    BY DEF Version
<1>2. /\ Reads(cur.body, new.body)
      /\ cur.mode = "BACKWARD" => Reads(new.body, cur.body)
    BY <1>1, AvroUnbroken
<1>3. \A n \in Kept(cur.body, new.body) : cur.body[n].type = new.body[n].type
    BY AvroKeepsTypes
<1>4. Reads(new.body, cur.body) <=> ~\E n \in Added(cur.body, new.body) : new.body[n].strict
    BY <1>3 DEF Reads, Accepts, Added, Kept
<1> QED BY <1>1, <1>2, <1>4 DEF Fits, AvroMiss, Modes

\* A document that is valid for s: what is required, and n as x.
With(s, n, x) ==
    [m \in Names |-> IF m = n THEN x
                     ELSE IF ~s[m].strict THEN NoType
                     ELSE IF Declared(s, m) THEN s[m].type
                     ELSE CHOOSE t \in Types : TRUE]

LEMMA WithIsValid ==
    ASSUME NEW s \in Body, NEW n \in Names, NEW x \in Types \cup {NoType},
           s[n].strict => x # NoType, x # NoType => Allows(s, n, x)
    PROVE  With(s, n, x) \in Documents /\ Valid(s, With(s, n, x)) /\ With(s, n, x)[n] = x
<1>1. \A m \in Names : s[m].type \in Types \cup {NoType} /\ s[m].strict \in BOOLEAN
    BY DEF Body, Field
<1>2. (CHOOSE t \in Types : TRUE) \in Types
    BY EvolutionAssumption
<1>3. With(s, n, x) \in Documents
    BY <1>1, <1>2 DEF With, Documents, Declared
<1>4. ASSUME NEW m \in Names
      PROVE  /\ s[m].strict => With(s, n, x)[m] # NoType
             /\ With(s, n, x)[m] # NoType => Allows(s, m, With(s, n, x)[m])
    <2>1. CASE m = n
        BY <2>1 DEF With
    <2>2. CASE m # n /\ ~s[m].strict
        BY <2>2 DEF With
    <2>3. CASE m # n /\ s[m].strict /\ Declared(s, m)
        BY <2>3 DEF With, Declared, Allows, Accepts
    <2>4. CASE m # n /\ s[m].strict /\ ~Declared(s, m)
        BY <1>2, <2>4, EvolutionAssumption DEF With, Allows
    <2> QED BY <1>1, <2>1, <2>2, <2>3, <2>4
<1> QED BY <1>3, <1>4 DEF Valid, With

LEMMA JsonMisses ==
    ASSUME NEW cur \in Version, NEW new \in Version,
           \A c \in JsonChanges(cur.body, new.body) : c.severity # "BREAKING"
    PROVE  ~KeepsDocuments(cur, new) <=> JsonMiss(cur, new)
<1>1. cur.body \in Body /\ new.body \in Body
    BY DEF Version
<1>2. \A n \in Names : /\ cur.body[n].strict \in BOOLEAN /\ new.body[n].strict \in BOOLEAN
                       /\ cur.body[n].type \in Types \cup {NoType}
    BY <1>1 DEF Body, Field
<1>3. \A n \in Names : Declared(new.body, n) /\ new.body[n].strict => cur.body[n].strict
    <2>1. SUFFICES ASSUME NEW n \in Names, Declared(new.body, n), new.body[n].strict,
                          ~cur.body[n].strict
                   PROVE  FALSE
        BY <1>2
    <2>2. CASE Declared(cur.body, n)
        <3>1. Change("REQUIRED_ADDED", n, "BREAKING") \in JsonChanges(cur.body, new.body)
            BY <2>1, <2>2 DEF JsonChanges, Kept
        <3> QED BY <3>1 DEF Change
    <2>3. CASE ~Declared(cur.body, n)
        <3>1. Change("FIELD_ADDED", n, Severity(new.body[n].strict))
                  \in JsonChanges(cur.body, new.body)
            BY <2>1, <2>3 DEF JsonChanges, Added
        <3> QED BY <2>1, <3>1 DEF Change, Severity
    <2> QED BY <2>2, <2>3
<1>4. ASSUME ~KeepsDocuments(cur, new) PROVE JsonMiss(cur, new)
    <2>1. PICK d \in Documents : Valid(cur.body, d) /\ ~Valid(new.body, d)
        BY <1>4 DEF KeepsDocuments
    <2>2. PICK n \in Names : \/ new.body[n].strict /\ d[n] = NoType
                             \/ d[n] # NoType /\ ~Allows(new.body, n, d[n])
        BY <2>1 DEF Valid
    <2>3. CASE new.body[n].strict /\ d[n] = NoType
        <3>1. ~cur.body[n].strict
            BY <2>1, <2>3 DEF Valid
        <3> QED BY <1>3, <2>3, <3>1 DEF JsonMiss
    <2>4. CASE d[n] # NoType /\ ~Allows(new.body, n, d[n])
        <3>1. d[n] \in Types /\ Allows(cur.body, n, d[n])
            BY <2>1, <2>4 DEF Valid, Documents
        <3> QED BY <2>4, <3>1 DEF JsonMiss
    <2> QED BY <2>2, <2>3, <2>4
<1>5. ASSUME JsonMiss(cur, new) PROVE ~KeepsDocuments(cur, new)
    <2>1. CASE \E n \in Names, t \in Types :
                 Allows(cur.body, n, t) /\ ~Allows(new.body, n, t)
        <3>1. PICK n \in Names, t \in Types :
                 Allows(cur.body, n, t) /\ ~Allows(new.body, n, t)
            BY <2>1
        <3>2. t # NoType
            BY EvolutionAssumption
        <3>3. /\ With(cur.body, n, t) \in Documents /\ Valid(cur.body, With(cur.body, n, t))
              /\ With(cur.body, n, t)[n] = t
            BY <1>1, <3>1, <3>2, WithIsValid
        <3>4. ~Valid(new.body, With(cur.body, n, t))
            BY <3>1, <3>2, <3>3 DEF Valid
        <3> QED BY <3>3, <3>4 DEF KeepsDocuments
    <2>2. CASE \E n \in Names : new.body[n].strict /\ ~cur.body[n].strict
        <3>1. PICK n \in Names : new.body[n].strict /\ ~cur.body[n].strict
            BY <2>2
        <3>2. /\ With(cur.body, n, NoType) \in Documents
              /\ Valid(cur.body, With(cur.body, n, NoType))
              /\ With(cur.body, n, NoType)[n] = NoType
            BY <1>1, <3>1, WithIsValid
        <3>3. ~Valid(new.body, With(cur.body, n, NoType))
            BY <3>1, <3>2 DEF Valid
        <3> QED BY <3>2, <3>3 DEF KeepsDocuments
    <2> QED BY <1>5, <2>1, <2>2 DEF JsonMiss
<1> QED BY <1>4, <1>5

(***************************************************************************)
(* What the checker misses.  A change that is not BREAKING leaves undone   *)
(* what its mode asks for, or invalidates a document, exactly when:        *)
(* in Avro, it adds a field without a default in mode FULL or              *)
(* BACKWARD_TRANSITIVE; in JSON Schema, it no longer allows a type it      *)
(* allowed, or requires a name that it does not declare.                   *)
(***************************************************************************)
THEOREM ClassifyMisses ==
    ASSUME NEW cur \in Version, NEW new \in Version, Classify(cur, new) # "BREAKING"
    PROVE  /\ cur.format = "AVRO" /\ new.format = "AVRO" =>
                (~Fits(cur, new) <=> AvroMiss(cur, new))
           /\ cur.format = "JSON_SCHEMA" /\ new.format = "JSON_SCHEMA" =>
                (~KeepsDocuments(cur, new) <=> JsonMiss(cur, new))
<1>1. \A c \in Changes(cur, new) : c.severity # "BREAKING"
    BY WorstClass DEF Classify
<1>2. ASSUME cur.format = "AVRO", new.format = "AVRO"
      PROVE  ~Fits(cur, new) <=> AvroMiss(cur, new)
    <2>1. Changes(cur, new) = AvroChanges(cur.body, new.body, cur.mode)
        BY <1>2 DEF Changes, Parsed
    <2> QED BY <1>1, <2>1, AvroMisses
<1>3. ASSUME cur.format = "JSON_SCHEMA", new.format = "JSON_SCHEMA"
      PROVE  ~KeepsDocuments(cur, new) <=> JsonMiss(cur, new)
    <2>1. Changes(cur, new) = JsonChanges(cur.body, new.body)
        BY <1>3 DEF Changes, Parsed
    <2> QED BY <1>1, <2>1, JsonMisses
<1> QED BY <1>2, <1>3

-----------------------------------------------------------------------------
(* What the classification overstates.                                     *)
LEMMA BreakingHasCause ==
    ASSUME NEW changes, Worst(changes) = "BREAKING"
    PROVE  \E c \in changes : c.severity = "BREAKING"
BY DEF Worst

LEMMA AvroCause ==
    ASSUME NEW cur \in Body, NEW new \in Body, NEW mode,
           NEW c \in AvroChanges(cur, new, mode), c.severity = "BREAKING"
    PROVE  \/ \E n \in Removed(cur, new) : cur[n].strict
           \/ mode = "BACKWARD" /\ \E n \in Added(cur, new) : new[n].strict
           \/ \E n \in Kept(cur, new) : cur[n].type # new[n].type
<1>1. CASE \E n \in Removed(cur, new) : c = Change("FIELD_REMOVED", n, Severity(cur[n].strict))
    BY <1>1 DEF Change, Severity
<1>2. CASE \E n \in Added(cur, new) :
             c = Change("FIELD_ADDED", n, Severity(new[n].strict /\ mode = "BACKWARD"))
    BY <1>2 DEF Change, Severity
<1>3. CASE \E n \in Kept(cur, new) : cur[n].type # new[n].type
    BY <1>3
<1>4. CASE \E n \in Names : c = Change("DEFAULT_REMOVED", n, "COMPATIBLE")
    BY <1>4 DEF Change
<1> QED BY <1>1, <1>2, <1>3, <1>4 DEF AvroChanges, AvroAdded, Kept

LEMMA JsonCause ==
    ASSUME NEW cur \in Body, NEW new \in Body,
           NEW c \in JsonChanges(cur, new), c.severity = "BREAKING"
    PROVE  \/ \E n \in Removed(cur, new) : cur[n].strict
           \/ \E n \in Added(cur, new) : new[n].strict
           \/ \E n \in Kept(cur, new) : ~cur[n].strict /\ new[n].strict
<1>1. CASE \E n \in Removed(cur, new) : c = Change("FIELD_REMOVED", n, Severity(cur[n].strict))
    BY <1>1 DEF Change, Severity
<1>2. CASE \E n \in Added(cur, new) : c = Change("FIELD_ADDED", n, Severity(new[n].strict))
    BY <1>2 DEF Change, Severity
<1>3. CASE \E n \in Kept(cur, new) : ~cur[n].strict /\ new[n].strict
    BY <1>3
<1> QED BY <1>1, <1>2, <1>3 DEF JsonChanges

LEMMA AvroOverstated ==
    ASSUME NEW cur \in Version, NEW new \in Version, Fits(cur, new),
           NEW c \in AvroChanges(cur.body, new.body, cur.mode), c.severity = "BREAKING"
    PROVE  AvroOverstates(cur, new)
<1>1. cur.body \in Body /\ new.body \in Body /\ cur.mode \in Modes
    BY DEF Version
<1>2. CASE \E n \in Removed(cur.body, new.body) : cur.body[n].strict
    <2>1. ~Reads(cur.body, new.body)
        BY <1>2 DEF Reads, Removed
    <2> QED BY <1>1, <1>2, <2>1 DEF Fits, AvroOverstates, Modes
<1>3. CASE cur.mode = "BACKWARD" /\ \E n \in Added(cur.body, new.body) : new.body[n].strict
    BY <1>3 DEF Fits, Reads, Added
<1>4. CASE \E n \in Kept(cur.body, new.body) : cur.body[n].type # new.body[n].type
    <2>1. PICK n \in Kept(cur.body, new.body) : cur.body[n].type # new.body[n].type
        BY <1>4
    <2>2. n \in Names /\ Declared(cur.body, n) /\ Declared(new.body, n)
        BY DEF Kept
    <2>3. CASE Reads(new.body, cur.body)
        <3>1. <<cur.body[n].type, new.body[n].type>> \in Promotions
            BY <2>1, <2>2, <2>3 DEF Reads, Accepts
        <3> QED BY <2>1, <3>1 DEF AvroOverstates
    <2>4. CASE Reads(cur.body, new.body)
        <3>1. <<new.body[n].type, cur.body[n].type>> \in Promotions
            BY <2>1, <2>2, <2>4 DEF Reads, Accepts
        <3> QED BY <2>1, <3>1 DEF AvroOverstates
    <2> QED BY <1>1, <2>3, <2>4 DEF Fits, AvroOverstates, Modes
<1> QED BY <1>1, <1>2, <1>3, <1>4, AvroCause

LEMMA JsonOverstated ==
    ASSUME NEW cur \in Version, NEW new \in Version, KeepsDocuments(cur, new),
           NEW c \in JsonChanges(cur.body, new.body), c.severity = "BREAKING"
    PROVE  JsonOverstates(cur, new)
<1>1. cur.body \in Body /\ new.body \in Body
    BY DEF Version
<1>2. \A n \in Names : cur.body[n].strict \in BOOLEAN /\ new.body[n].strict \in BOOLEAN
    BY <1>1 DEF Body, Field
<1>3. \A n \in Names : new.body[n].strict => cur.body[n].strict
    <2>1. SUFFICES ASSUME NEW n \in Names, new.body[n].strict, ~cur.body[n].strict PROVE FALSE
        BY <1>2
    <2>2. /\ With(cur.body, n, NoType) \in Documents
          /\ Valid(cur.body, With(cur.body, n, NoType))
          /\ With(cur.body, n, NoType)[n] = NoType
        BY <1>1, <2>1, WithIsValid
    <2> QED BY <2>1, <2>2 DEF KeepsDocuments, Valid
<1> QED BY <1>1, <1>3, JsonCause DEF JsonOverstates, Added, Kept

(***************************************************************************)
(* What the checker overstates.  A change that is BREAKING although all    *)
(* that its mode asks for holds promotes a type (avro.go: "False positives *)
(* on legal promotions are acceptable"), or removes a field where old      *)
(* readers are not asked about, or has mode NONE; one that is BREAKING     *)
(* although every JSON document stays valid removes a required property,   *)
(* or declares one that was required before.                               *)
(***************************************************************************)
THEOREM ClassifyOverstates ==
    ASSUME NEW cur \in Version, NEW new \in Version, Classify(cur, new) = "BREAKING"
    PROVE  /\ cur.format = "AVRO" /\ new.format = "AVRO" /\ Fits(cur, new) =>
                AvroOverstates(cur, new)
           /\ cur.format = "JSON_SCHEMA" /\ new.format = "JSON_SCHEMA"
                /\ KeepsDocuments(cur, new) => JsonOverstates(cur, new)
<1>1. PICK c \in Changes(cur, new) : c.severity = "BREAKING"
    BY BreakingHasCause DEF Classify
<1>2. ASSUME cur.format = "AVRO", new.format = "AVRO", Fits(cur, new)
      PROVE  AvroOverstates(cur, new)
    <2>1. c \in AvroChanges(cur.body, new.body, cur.mode)
        BY <1>1, <1>2 DEF Changes, Parsed
    <2> QED BY <1>1, <1>2, <2>1, AvroOverstated
<1>3. ASSUME cur.format = "JSON_SCHEMA", new.format = "JSON_SCHEMA", KeepsDocuments(cur, new)
      PROVE  JsonOverstates(cur, new)
    <2>1. c \in JsonChanges(cur.body, new.body)
        BY <1>1, <1>3 DEF Changes, Parsed
    <2> QED BY <1>1, <1>3, <2>1, JsonOverstated
<1> QED BY <1>2, <1>3

(***************************************************************************)
(* Two changes in a row, neither of them BREAKING, may cut a reader of the *)
(* first schema off from data of the third: a field is given a default,    *)
(* then it goes.  The gate compares with one row only, whatever the mode.  *)
(***************************************************************************)
THEOREM ChainsMayBreak ==
    ASSUME NEW name \in Names, NEW type \in Types, NEW mode \in Modes
    PROVE  \E first, second, third \in Version :
             /\ \A v \in {first, second, third} : v.format = "AVRO" /\ v.mode = mode
             /\ Classify(first, second) # "BREAKING" /\ Classify(second, third) # "BREAKING"
             /\ ~Reads(first.body, third.body)
<1> DEFINE body(t, s) == [n \in Names |-> [type |-> IF n = name THEN t ELSE NoType,
                                          strict |-> s]]
           ver(b) == [format |-> "AVRO", body |-> b, mode |-> mode]
           first == ver(body(type, TRUE))
           second == ver(body(type, FALSE))
           third == ver(body(NoType, FALSE))
<1>1. type # NoType
    BY EvolutionAssumption
<1>2. first \in Version /\ second \in Version /\ third \in Version
    BY DEF Version, Formats, Body, Field
<1>3. ~Reads(first.body, third.body)
    BY <1>1 DEF Reads, Declared
<1>4. \A c \in AvroChanges(first.body, second.body, mode) : c.severity # "BREAKING"
    <2>1. Removed(first.body, second.body) = {} /\ Added(first.body, second.body) = {}
        BY DEF Removed, Added, Declared
    <2>2. \A n \in Kept(first.body, second.body) : first.body[n].type = second.body[n].type
        BY DEF Kept
    <2> HIDE DEF first, second
    <2> QED BY <2>1, <2>2 DEF AvroChanges, AvroAdded, Change
<1>5. \A c \in AvroChanges(second.body, third.body, mode) : c.severity # "BREAKING"
    <2>1. Kept(second.body, third.body) = {} /\ Added(second.body, third.body) = {}
        BY DEF Kept, Added, Declared
    <2>2. \A n \in Removed(second.body, third.body) : ~second.body[n].strict
        BY DEF Removed
    <2> HIDE DEF second, third
    <2> QED BY <2>1, <2>2 DEF AvroChanges, AvroAdded, Change, Severity
<1>6. \A v \in {first, second, third} : v.format = "AVRO" /\ v.mode = mode
    OBVIOUS
<1> HIDE DEF first, second, third
<1>7. /\ Changes(first, second) = AvroChanges(first.body, second.body, mode)
      /\ Changes(second, third) = AvroChanges(second.body, third.body, mode)
    BY <1>6 DEF Changes, Parsed
<1>8. Classify(first, second) # "BREAKING" /\ Classify(second, third) # "BREAKING"
    BY <1>4, <1>5, <1>7, BreakingHasCause DEF Classify
<1> QED BY <1>2, <1>3, <1>6, <1>8

(***************************************************************************)
(* Such a chain is safe when its two steps neither give a field a default  *)
(* that had none nor add a name again that the first one removed: these    *)
(* are the two things a comparison with the newest row alone cannot see.   *)
(***************************************************************************)
THEOREM SteadyChainsHold ==
    ASSUME NEW first \in Version, NEW second \in Version, NEW third \in Version,
           \A v \in {first, second, third} : v.format = "AVRO",
           Classify(first, second) # "BREAKING", Classify(second, third) # "BREAKING",
           \A n \in Kept(first.body, second.body) :
               first.body[n].strict => second.body[n].strict,
           \A n \in Removed(first.body, second.body) : ~Declared(third.body, n)
    PROVE  Reads(first.body, third.body)
<1>1. Reads(first.body, second.body) /\ Reads(second.body, third.body)
    BY NotBreakingIsUnbroken DEF Unbroken
<1>2. \A n \in Kept(first.body, second.body) : first.body[n].type = second.body[n].type
    <2>1. Changes(first, second) = AvroChanges(first.body, second.body, first.mode)
        BY DEF Changes, Parsed
    <2>2. \A c \in Changes(first, second) : c.severity # "BREAKING"
        BY WorstClass DEF Classify
    <2> QED BY <2>1, <2>2, AvroKeepsTypes
<1>3. SUFFICES ASSUME NEW n \in Names, Declared(first.body, n)
               PROVE  IF Declared(third.body, n)
                      THEN Accepts(first.body[n].type, third.body[n].type)
                      ELSE ~first.body[n].strict
    BY DEF Reads
<1>4. CASE Declared(second.body, n)
    <2>1. n \in Kept(first.body, second.body)
        BY <1>3, <1>4 DEF Kept
    <2> QED BY <1>1, <1>2, <1>4, <2>1 DEF Reads
<1>5. CASE ~Declared(second.body, n)
    BY <1>1, <1>3, <1>5 DEF Reads, Removed
<1> QED BY <1>4, <1>5

-----------------------------------------------------------------------------
(* The inductive invariant: what the answer in hand says of the rows and   *)
(* the edges, which are never taken back.                                  *)
AnswerInv(r) ==
    /\ pc[r] \in {"idle", "asked"} => base[r] = 0
    /\ base[r] = 0 => known[r] = {} /\ class[r] = "SAFE"
    /\ base[r] > 0 =>
         /\ base[r] = count[r]
         /\ proposal[r] \in Version
         /\ class[r] = Classify(rows[base[r]], proposal[r])
    /\ known[r] \subseteq Known
    /\ class[r] = "BREAKING" /\ known[r] # {} => approval[r]
    /\ pc[r] = "breaking" => class[r] = "BREAKING" /\ approval[r]
    /\ pc[r] = "registered" => Passes(r) /\ row[r] > 0 /\ rows[row[r]] = proposal[r]

IInv == TypeOK /\ \A r \in Requests : AnswerInv(r)

LEMMA IInvInit == Init => IInv
<1> SUFFICES ASSUME Init PROVE IInv
    OBVIOUS
<1> USE GateAssumption DEF Init
<1>1. TypeOK
    BY DEF TypeOK, Classes
<1>2. ASSUME NEW r \in Requests PROVE AnswerInv(r)
    BY DEF AnswerInv, Passes
<1> QED BY <1>1, <1>2 DEF IInv

\* An edge is recorded or refreshed: no consumer becomes unknown.
LEMMA UpsertStep ==
    ASSUME IInv, NEW c \in Consumers, NEW t \in Teams \cup {NoTeam}, Upsert(c, t)
    PROVE  IInv'
<1> USE GateAssumption DEF Upsert, IInv
<1>1. TypeOK'
    BY DEF TypeOK, answer
<1>2. Known \subseteq Known'
    BY DEF Known, TypeOK
<1>3. ASSUME NEW r \in Requests PROVE AnswerInv(r)'
    BY <1>2 DEF AnswerInv, Passes, answer
<1> QED BY <1>1, <1>3

\* A request starts over: it says nothing.
LEMMA ForgetStep ==
    ASSUME IInv, NEW r \in Requests, Forget(r), UNCHANGED <<rows, edges>>,
           active' \in 0 .. Len(rows)
    PROVE  IInv'
<1> USE DEF IInv, Forget
<1>1. TypeOK'
    BY DEF TypeOK, Classes
<1>2. ASSUME NEW q \in Requests PROVE AnswerInv(q)'
    BY DEF AnswerInv, Passes, Known, TypeOK
<1> QED BY <1>1, <1>2

\* A proposal comes in.
LEMMA AskStep ==
    ASSUME IInv, NEW r \in Requests, NEW version \in Proposals, Ask(r, version)
    PROVE  IInv'
<1> USE GateAssumption DEF IInv, Ask, db, answer
<1>1. TypeOK'
    BY DEF TypeOK
<1>2. ASSUME NEW q \in Requests PROVE AnswerInv(q)'
    BY DEF AnswerInv, Passes, Known, TypeOK
<1> QED BY <1>1, <1>2

\* The handler's steps: the rows stay.
LEMMA HandlerStep ==
    ASSUME IInv, NEW r \in Requests,
           AnswerNew(r) \/ Compare(r) \/ ReadEdges(r) \/ EdgesFail(r)
    PROVE  IInv'
<1> USE GateAssumption DEF IInv
<1>1. CASE AnswerNew(r)
    <2> USE <1>1 DEF AnswerNew, db, answer
    <2>1. TypeOK'
        BY DEF TypeOK
    <2>2. ASSUME NEW q \in Requests PROVE AnswerInv(q)'
        BY DEF AnswerInv, Passes, Known, TypeOK
    <2> QED BY <2>1, <2>2
<1>2. CASE Compare(r)
    <2> DEFINE c == Classify(rows[Latest], proposal[r])
    <2>1. c \in Classes
        BY ClassifyType
    <2> HIDE DEF c
    <2>2. /\ UNCHANGED <<rows, active, edges, proposal, teams, row>>
          /\ class' = [class EXCEPT ![r] = c]
          /\ approval' = [approval EXCEPT ![r] = c = "BREAKING"]
          /\ pc' = [pc EXCEPT ![r] = IF c = "BREAKING" THEN "breaking" ELSE "answered"]
          /\ base' = [base EXCEPT ![r] = Len(rows)]
          /\ count' = [count EXCEPT ![r] = Len(rows)]
          /\ known' = [known EXCEPT ![r] = Known]
          /\ pc[r] = "asked" /\ rows # << >>
        BY <1>2 DEF Compare, db, c, Latest
    <2>3. Len(rows) \in Nat /\ Len(rows) > 0
        BY <2>2 DEF TypeOK
    <2>4. TypeOK'
        BY <2>1, <2>2, <2>3 DEF TypeOK, Known
    <2>5. ASSUME NEW q \in Requests, q # r PROVE AnswerInv(q)'
        BY <2>2, <2>5 DEF AnswerInv, Passes, Known, TypeOK
    <2>6. c = Classify(rows[Len(rows)], proposal[r])
        BY DEF c, Latest
    <2>7. /\ base'[r] = Len(rows) /\ count'[r] = Len(rows) /\ proposal'[r] = proposal[r]
          /\ rows' = rows /\ class'[r] = c /\ (c = "BREAKING" => approval'[r])
          /\ proposal[r] \in Version
          /\ known'[r] = Known /\ Known' = Known
          /\ pc'[r] = IF c = "BREAKING" THEN "breaking" ELSE "answered"
        BY <2>2 DEF TypeOK, Known
    <2>8. /\ base'[r] > 0 /\ base'[r] = count'[r]
          /\ class'[r] = Classify(rows'[base'[r]], proposal'[r])
        BY <2>3, <2>6, <2>7
    <2>9. pc'[r] \in {"breaking", "answered"} /\ (pc'[r] = "breaking" => c = "BREAKING")
        BY <2>7
    <2>10. AnswerInv(r)'
        BY <2>3, <2>7, <2>8, <2>9 DEF AnswerInv
    <2> QED BY <2>4, <2>5, <2>10
<1>3. CASE ReadEdges(r)
    <2> DEFINE named == {edges[c] : c \in Known} \ {""}
    <2> DEFINE asks == Known # {}
    <2>1. \A c \in Known : edges[c] \in Teams
        BY <1>3 DEF ReadEdges, IInv, TypeOK, Known
    <2>2. named \in SUBSET Teams
        BY <2>1
    <2>3. asks \in BOOLEAN
        OBVIOUS
    <2>4. /\ UNCHANGED <<rows, active, edges, proposal, base, class, row, count, known>>
          /\ approval' = [approval EXCEPT ![r] = asks]
          /\ teams' = [teams EXCEPT ![r] = named]
          /\ pc' = [pc EXCEPT ![r] = "answered"]
          /\ pc[r] = "breaking"
        BY <1>3 DEF ReadEdges, db
    <2>5. ASSUME NEW q \in Requests PROVE AnswerInv(q)'
        BY <1>3 DEF ReadEdges, db, IInv, AnswerInv, Passes, Known, TypeOK
    <2> HIDE DEF named, asks
    <2>6. TypeOK'
        BY <2>2, <2>3, <2>4 DEF IInv, TypeOK
    <2> QED BY <2>5, <2>6
<1>4. CASE EdgesFail(r)
    <2> USE <1>4 DEF EdgesFail, db, answer
    <2>1. TypeOK'
        BY DEF TypeOK
    <2>2. ASSUME NEW q \in Requests PROVE AnswerInv(q)'
        BY DEF AnswerInv, Passes, Known, TypeOK
    <2> QED BY <2>1, <2>2
<1> QED BY <1>1, <1>2, <1>3, <1>4

\* A row is added behind the ones that were compared with.
LEMMA RegisterStep ==
    ASSUME IInv, NEW r \in Requests, Register(r)
    PROVE  IInv'
<1> USE DEF IInv, Register, answer
<1>1. /\ proposal[r] \in Version /\ rows \in Seq(Version)
      /\ rows' = Append(rows, proposal[r]) /\ rows' \in Seq(Version)
      /\ Len(rows) \in Nat /\ Len(rows') = Len(rows) + 1
      /\ \A i \in 1 .. Len(rows) : rows'[i] = rows[i]
      /\ rows'[Len(rows) + 1] = proposal[r]
    BY DEF TypeOK
<1>2. TypeOK'
    BY <1>1 DEF TypeOK
<1>3. ASSUME NEW q \in Requests PROVE AnswerInv(q)'
    BY <1>1 DEF AnswerInv, Passes, Known, TypeOK
<1> QED BY <1>2, <1>3

LEMMA IInvStep == IInv /\ [Next]_vars => IInv'
<1> SUFFICES ASSUME IInv, [Next]_vars PROVE IInv'
    OBVIOUS
<1>1. CASE \E c \in Consumers, t \in Teams \cup {NoTeam} : Upsert(c, t)
    BY <1>1, UpsertStep
<1>2. CASE \E r \in Requests, version \in Proposals : Ask(r, version)
    BY <1>2, AskStep
<1>3. ASSUME NEW r \in Requests,
             AnswerNew(r) \/ Compare(r) \/ ReadEdges(r) \/ EdgesFail(r)
      PROVE  IInv'
    BY <1>3, HandlerStep
<1>4. ASSUME NEW r \in Requests, Fail(r) \/ Activate(r) \/ Close(r) PROVE IInv'
    <2>1. Forget(r) /\ UNCHANGED <<rows, edges>>
        BY <1>4 DEF Fail, Activate, Close, db
    <2>2. active' \in 0 .. Len(rows)
        BY <1>4 DEF Fail, Activate, Close, db, IInv, TypeOK
    <2> QED BY <2>1, <2>2, ForgetStep
<1>5. ASSUME NEW r \in Requests, Register(r) PROVE IInv'
    BY <1>5, RegisterStep
<1>6. CASE UNCHANGED vars
    <2>1. TypeOK'
        BY <1>6 DEF IInv, TypeOK, vars, db, answer
    <2>2. ASSUME NEW r \in Requests PROVE AnswerInv(r)'
        BY <1>6 DEF IInv, AnswerInv, Passes, Known, vars, db, answer
    <2> QED BY <2>1, <2>2 DEF IInv
<1> QED BY <1>1, <1>2, <1>3, <1>4, <1>5, <1>6 DEF Next

LEMMA IInvAlways == Spec => []IInv
BY IInvInit, IInvStep, PTL DEF Spec

-----------------------------------------------------------------------------
(* The state of the gate and of the requests is always well-formed.        *)
THEOREM TypeCorrect == Spec => []TypeOK
BY IInvAlways, PTL DEF IInv

(* What the gate lets through although consumers were known breaks none of *)
(* them, relative to the row it was compared with.                         *)
THEOREM PassedUnbroken == Spec => []PassedIsUnbroken
<1>1. IInv => PassedIsUnbroken
    <2>1. SUFFICES ASSUME IInv, NEW r \in Requests,
                          base[r] > 0, known[r] # {}, Passes(r)
                   PROVE  Unbroken(rows[base[r]], proposal[r])
        BY DEF PassedIsUnbroken
    <2>2. rows[base[r]] \in Version /\ proposal[r] \in Version
        BY <2>1 DEF IInv, TypeOK, AnswerInv
    <2>3. Classify(rows[base[r]], proposal[r]) # "BREAKING"
        BY <2>1 DEF IInv, AnswerInv, Passes
    <2> QED BY <2>2, <2>3, NotBreakingIsUnbroken
<1> QED BY <1>1, IInvAlways, PTL

(* A BREAKING change passes only when no consumer was known.               *)
THEOREM BreakingUnseen == Spec => []BreakingPassesUnseenOnly
<1>1. IInv => BreakingPassesUnseenOnly
    BY DEF IInv, AnswerInv, BreakingPassesUnseenOnly, Passes
<1> QED BY <1>1, IInvAlways, PTL

(* A pull request no other one overtakes breaks no known consumer of the   *)
(* ACTIVE version when its own version replaces it.                        *)
THEOREM UndisturbedUnbroken == Spec => UndisturbedMergeIsUnbroken
<1>1. ASSUME IInv, NEW r \in Requests, Activate(r), Undisturbed(r), known[r] # {}
      PROVE  Unbroken(rows[active], rows[active'])
    <2>1. /\ pc[r] = "registered" /\ active' = row[r]
        BY <1>1 DEF Activate
    <2>2. base[r] > 0 /\ base[r] = active /\ rows[active'] = proposal[r] /\ Passes(r)
        BY <1>1, <2>1 DEF IInv, AnswerInv, Undisturbed, TypeOK
    <2>3. rows[base[r]] \in Version /\ proposal[r] \in Version
        BY <1>1, <2>2 DEF IInv, TypeOK, AnswerInv
    <2>4. Classify(rows[base[r]], proposal[r]) # "BREAKING"
        BY <1>1, <2>2 DEF IInv, AnswerInv, Passes
    <2> QED BY <2>2, <2>3, <2>4, NotBreakingIsUnbroken
<1>2. ASSUME IInv, NEW r \in Requests, Activate(r) PROVE rows' = rows
    BY <1>2 DEF Activate
<1>3. IInv => [\A r \in Requests : Activate(r) /\ Undisturbed(r) /\ known[r] # {}
                   => Unbroken(rows[active], rows[active'])]_vars
    BY <1>1
<1> QED BY <1>3, IInvAlways, PTL DEF UndisturbedMergeIsUnbroken
=============================================================================
