-------------------------------- MODULE MCGate --------------------------------
(***************************************************************************)
(* Two pull requests over one field: it may be missing or declared, with   *)
(* or without a default, of either of two types, in Avro and JSON Schema.  *)
(***************************************************************************)
EXTENDS Gate, TLC

CONSTANTS amount, c1, team

MCPromotions == {<<"int", "long">>}

MCBody(type, strict) == [n \in Names |-> [type |-> type, strict |-> strict]]
MCVersion(format, mode, type, strict) ==
    [format |-> format, mode |-> mode, body |-> MCBody(type, strict)]

MCRaceProposals ==
    {MCVersion("AVRO", "BACKWARD", "long", strict) : strict \in BOOLEAN}
    \cup {MCVersion("AVRO", "BACKWARD", NoType, FALSE)}

MCProposals ==
    MCRaceProposals
    \cup {MCVersion("AVRO", "BACKWARD", "string", FALSE),
          MCVersion("JSON_SCHEMA", "NONE", "long", TRUE)}

MCSymmetry == Permutations(Requests)

\* The checker alone, on every pair of versions over the same field.
ASSUME MCCheckerAssumption ==
    \A cur, new \in Version :
        /\ Classify(cur, new) # "BREAKING" => Unbroken(cur, new)
        /\ cur.format = "AVRO" /\ new.format = "AVRO" =>
             IF Classify(cur, new) = "BREAKING" THEN Fits(cur, new) => AvroOverstates(cur, new)
             ELSE ~Fits(cur, new) <=> AvroMiss(cur, new)
        /\ cur.format = "JSON_SCHEMA" /\ new.format = "JSON_SCHEMA" =>
             IF Classify(cur, new) = "BREAKING"
             THEN KeepsDocuments(cur, new) => JsonOverstates(cur, new)
             ELSE ~KeepsDocuments(cur, new) <=> JsonMiss(cur, new)
===============================================================================
