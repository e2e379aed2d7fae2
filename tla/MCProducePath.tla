---------------------------- MODULE MCProducePath ----------------------------
(***************************************************************************)
(* A call with two attempts, whose payload conforms to the first version   *)
(* of the contract only, or is a scalar or a bad request, and a call of an *)
(* asynchronous producer with max_retries = 0.                             *)
(***************************************************************************)
EXTENDS ProducePath

CONSTANTS m0, m2, v1, v2

MCMaxRetries == [c \in Calls |-> IF c = m2 THEN 2 ELSE 0]
MCConforms == {<<m0, v1>>, <<m0, v2>>, <<m2, v1>>}
MCShapes == {[c \in Calls |-> IF c = m2 THEN s ELSE "object"] : s \in Shape}
=============================================================================
