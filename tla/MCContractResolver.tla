------------------------- MODULE MCContractResolver -------------------------
(***************************************************************************)
(* Three threads share the resolver; two versions replace each other any     *)
(* number of times.                                                        *)
(***************************************************************************)
EXTENDS ContractResolver
=============================================================================
