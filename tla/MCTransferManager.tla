------------------------- MODULE MCTransferManager -------------------------
(* Instances of TransferManager for model checking. *)
EXTENDS TransferManager

MCConfigured == [t \in Types |-> IF t = "download" THEN 1 ELSE 2]
MCBatchSizes == {1, 2}
=============================================================================
