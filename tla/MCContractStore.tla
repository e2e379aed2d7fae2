--------------------------- MODULE MCContractStore ---------------------------
(***************************************************************************)
(* Two contracts, one with three versions to activate in any order and one *)
(* whose single version must never be touched by the other's activations.  *)
(***************************************************************************)
EXTENDS ContractStore

CONSTANTS orders, billing, ordersTopic, billingTopic

MCContractOf == [v \in Versions |-> IF v = 2 THEN billing ELSE orders]
MCTopicOf == [c \in Contracts |-> IF c = billing THEN billingTopic ELSE ordersTopic]
=============================================================================
