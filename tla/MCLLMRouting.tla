---------------------------- MODULE MCLLMRouting ----------------------------
(* An instance of LLMRouting: two cloud providers, of which the second has a  *)
(* quota of one request a day, and the local one without a limit.             *)
EXTENDS LLMRouting

MCQuota == [p \in 0 .. 2 |-> IF p = 2 THEN 0 ELSE 2 - p]
=============================================================================
