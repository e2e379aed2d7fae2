--------------------------- MODULE MCContractCache ---------------------------
(***************************************************************************)
(* Two concurrent readers and two versions that can replace each other any *)
(* number of times or be ACTIVE together; only the older is fail-open.     *)
(***************************************************************************)
EXTENDS ContractCache

MCBound == TTL + FetchTimeout
MCFailOpen == Topics \X {1}
=============================================================================
