------------------------------ MODULE MCMasking ------------------------------
(***************************************************************************)
(* An object with two levels below it, so that a policy may name it, a     *)
(* part of it or a part of that, before or after the other ones; a key     *)
(* beside it that reads like the innermost path; and a field of the        *)
(* elements it has where it is an array instead.  Every list of at most    *)
(* MaxPolicies policies.                                                   *)
(***************************************************************************)
EXTENDS Masking

CONSTANT MaxPolicies

Literal == "[user.phone.home]"
Element == "user[].email"

MCPaths == {"user", "user.phone", "user.phone.home"}
MCFields == MCPaths \cup {Literal, Element}
MCElements == {<<Element, "user">>}
MCBelow == {<<"user.phone", "user">>, <<"user.phone.home", "user">>,
            <<"user.phone.home", "user.phone">>} \cup MCElements
MCPathOf == [f \in MCFields |-> CASE f = Literal -> "user.phone.home"
                                  [] f = Element -> "user.email"
                                  [] OTHER -> f]
MCPiiNamed == {"user.phone", "user.phone.home", "user.email"}
MCPolicyLists == UNION {[1 .. n -> Policy] : n \in 0 .. MaxPolicies}
==============================================================================
