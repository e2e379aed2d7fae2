----------------------------- MODULE ControlPlane -----------------------------
(***************************************************************************)
(* What the contracts service shows of a topic to those who ask it: the    *)
(* ACTIVE rows, none at first, then one set of them after another, changed *)
(* for one topic at a time, and never none again.  One row is what it      *)
(* should be; concurrent activations may leave several.  The models of its *)
(* clients (ContractView, ContractCache, ContractResolver) extend this     *)
(* module, and ContractStore implements it.                                *)
(***************************************************************************)
EXTENDS Integers

CONSTANTS Topics, Versions, NoVersion

VARIABLE active  \* the ACTIVE rows of each topic: what ListActiveVersions lists

\* The first and the last of some rows ORDER BY created_at DESC (a version of
\* a topic is named by its rank in created_at order).
Newest(S) == IF S = {} THEN NoVersion ELSE CHOOSE v \in S : \A w \in S : w <= v
Oldest(S) == IF S = {} THEN NoVersion ELSE CHOOSE v \in S : \A w \in S : v <= w

PlaneInit == active = [t \in Topics |-> {}]

Supersede(t, S) ==
    /\ S \subseteq Versions /\ S # {}
    /\ active' = [active EXCEPT ![t] = S]

PlaneNext == \E t \in Topics : Supersede(t, active'[t])

PlaneSpec == PlaneInit /\ [][PlaneNext]_active
=============================================================================
