---------------------------- MODULE MCPayloadLoad ----------------------------
(* A kernel of one block, an initrd of three whose last is short: the      *)
(* limit of unhealed blocks is passed and a batch may end inside a block.  *)
EXTENDS PayloadLoad

MCSize == [f \in Files |-> IF f = "KERNEL" THEN 1 ELSE 5]
=============================================================================
