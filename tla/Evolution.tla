------------------------------ MODULE Evolution ------------------------------
(***************************************************************************)
(* The evolution checker: which changes it finds between two schemas and   *)
(* how it classifies them, and what a change does to readers of the data.  *)
(*                                                                         *)
(* A schema body says of every field name whether it is declared (its type *)
(* is not NoType) and whether it is strict: in Avro, that it has no        *)
(* default; in JSON Schema, that "required" lists it, declared or not.     *)
(* The checkers compare types as texts; what a reader of one type makes of *)
(* a value of another is left to Promotions.                               *)
(***************************************************************************)
CONSTANTS
    Names, Types, NoType,
    Promotions  \* <<written, read>>: different types, and yet it can be read

ASSUME EvolutionAssumption ==
    Types # {} /\ NoType \notin Types /\ Promotions \subseteq Types \X Types

Formats == {"AVRO", "JSON_SCHEMA", "PROTOBUF"}
Modes == {"BACKWARD", "FORWARD", "FULL", "BACKWARD_TRANSITIVE", "NONE"}
Classes == {"SAFE", "COMPATIBLE", "BREAKING"}

Field == [type : Types \cup {NoType}, strict : BOOLEAN]
Body == [Names -> Field]
Version == [format : Formats, body : Body, mode : Modes]

Declared(s, n) == s[n].type # NoType
Removed(cur, new) == {n \in Names : Declared(cur, n) /\ ~Declared(new, n)}
Added(cur, new) == {n \in Names : ~Declared(cur, n) /\ Declared(new, n)}
Kept(cur, new) == {n \in Names : Declared(cur, n) /\ Declared(new, n)}

Change(kind, n, severity) == [kind |-> kind, field |-> n, severity |-> severity]
Severity(breaking) == IF breaking THEN "BREAKING" ELSE "COMPATIBLE"

-----------------------------------------------------------------------------
AvroAdded(cur, new, mode) ==
    {Change("FIELD_ADDED", n, Severity(new[n].strict /\ mode = "BACKWARD")) : n \in Added(cur, new)}

AvroChanges(cur, new, mode) ==
    {Change("FIELD_REMOVED", n, Severity(cur[n].strict)) : n \in Removed(cur, new)}
    \cup AvroAdded(cur, new, mode)
    \cup {Change("TYPE_CHANGED", n, "BREAKING") :
            n \in {k \in Kept(cur, new) : cur[k].type # new[k].type}}
    \cup {Change("DEFAULT_REMOVED", n, "COMPATIBLE") :
            n \in {k \in Kept(cur, new) : ~cur[k].strict /\ new[k].strict}}

\* A changed type is no change here, nor is a property that becomes optional.
JsonChanges(cur, new) ==
    {Change("FIELD_REMOVED", n, Severity(cur[n].strict)) : n \in Removed(cur, new)}
    \cup {Change("FIELD_ADDED", n, Severity(new[n].strict)) : n \in Added(cur, new)}
    \cup {Change("REQUIRED_ADDED", n, "BREAKING") :
            n \in {k \in Kept(cur, new) : ~cur[k].strict /\ new[k].strict}}

\* worstClassification
Worst(changes) ==
    IF \E c \in changes : c.severity = "BREAKING" THEN "BREAKING"
    ELSE IF \E c \in changes : c.severity = "COMPATIBLE" THEN "COMPATIBLE"
    ELSE "SAFE"

\* Bytes of one format, parsed as the other one, have none of the members.
NoFields == [n \in Names |-> [type |-> NoType, strict |-> FALSE]]
Parsed(version, format) == IF version.format = format THEN version.body ELSE NoFields

\* Check: by the format of the request, the mode of the current version.
Changes(cur, new) ==
    CASE new.format = "AVRO" -> AvroChanges(Parsed(cur, "AVRO"), new.body, cur.mode)
      [] new.format = "JSON_SCHEMA" -> JsonChanges(Parsed(cur, "JSON_SCHEMA"), new.body)
      [] OTHER -> {}

Classify(cur, new) == Worst(Changes(cur, new))

-----------------------------------------------------------------------------
(***************************************************************************)
(* The reference.  A reader with one Avro schema resolves data written     *)
(* with another: each of its fields is there with a type it accepts, or it *)
(* has a default for it.  A JSON document, the set of the properties it    *)
(* has, is complete for a schema when it has all that are declared and     *)
(* required.                                                               *)
(***************************************************************************)
Accepts(read, written) == read = written \/ <<written, read>> \in Promotions

Reads(reader, writer) ==
    \A n \in Names : Declared(reader, n) =>
        IF Declared(writer, n) THEN Accepts(reader[n].type, writer[n].type)
        ELSE ~reader[n].strict

Complete(s, document) ==
    \A n \in Names : Declared(s, n) /\ s[n].strict => n \in document

\* What must hold of a change that is not BREAKING.
Unbroken(cur, new) ==
    cur.format = new.format =>
        /\ new.format = "AVRO" =>
             /\ Reads(cur.body, new.body)
             /\ cur.mode = "BACKWARD" => Reads(new.body, cur.body)
        /\ new.format = "JSON_SCHEMA" =>
             /\ \A document \in SUBSET Names :
                  Complete(cur.body, document) => Complete(new.body, document)
             /\ \A n \in Names :
                  Declared(cur.body, n) /\ cur.body[n].strict => Declared(new.body, n)

(***************************************************************************)
(* What the modes ask of two Avro schemas, whatever the checker makes of   *)
(* them: they mirror those "of the Schema Registry".                       *)
(***************************************************************************)
Fits(cur, new) ==
    /\ cur.mode \in {"BACKWARD", "FULL", "BACKWARD_TRANSITIVE"} => Reads(new.body, cur.body)
    /\ cur.mode \in {"FORWARD", "FULL"} => Reads(cur.body, new.body)

(***************************************************************************)
(* A JSON document gives its properties values, of some type each; it is   *)
(* valid when it has what "required" lists and the declared types.         *)
(***************************************************************************)
Allows(s, n, t) == Declared(s, n) => Accepts(s[n].type, t)
Documents == [Names -> Types \cup {NoType}]

Valid(s, d) ==
    \A n \in Names :
        /\ s[n].strict => d[n] # NoType
        /\ d[n] # NoType => Allows(s, n, d[n])

KeepsDocuments(cur, new) ==
    \A d \in Documents : Valid(cur.body, d) => Valid(new.body, d)

(***************************************************************************)
(* What a change that is not BREAKING may break.  Avro: there is a new     *)
(* field without a default, in a mode that asks new readers for old data   *)
(* and is not called BACKWARD.  JSON Schema: a value of some type was      *)
(* allowed and no longer is, or a name is required and declared nowhere.   *)
(***************************************************************************)
AvroMiss(cur, new) ==
    /\ cur.mode \in {"FULL", "BACKWARD_TRANSITIVE"}
    /\ \E n \in Added(cur.body, new.body) : new.body[n].strict

JsonMiss(cur, new) ==
    \E n \in Names :
        \/ \E t \in Types : Allows(cur.body, n, t) /\ ~Allows(new.body, n, t)
        \/ ~Declared(new.body, n) /\ new.body[n].strict /\ ~cur.body[n].strict

(***************************************************************************)
(* What may be BREAKING although all that is asked for holds.  Avro: a     *)
(* promotion; a field without a default that goes, where nothing is asked  *)
(* of old readers; anything in mode NONE.  JSON Schema, although every     *)
(* document stays valid: a required property that goes, or one that was    *)
(* required before it was declared.                                        *)
(***************************************************************************)
AvroOverstates(cur, new) ==
    \/ cur.mode = "NONE"
    \/ \E n \in Kept(cur.body, new.body) :
          LET before == cur.body[n].type
              after == new.body[n].type IN
          before # after /\ {<<before, after>>, <<after, before>>} \cap Promotions # {}
    \/ /\ cur.mode \in {"BACKWARD", "BACKWARD_TRANSITIVE"}
       /\ \E n \in Removed(cur.body, new.body) : cur.body[n].strict

JsonOverstates(cur, new) ==
    \/ \E n \in Removed(cur.body, new.body) : cur.body[n].strict
    \/ \E n \in Added(cur.body, new.body) : cur.body[n].strict /\ new.body[n].strict
=============================================================================
