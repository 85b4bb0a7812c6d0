-------------------------- MODULE MCTransferQueue --------------------------
(* Model-checking instance of TransferQueue: three jobs in two submissions.   *)
EXTENDS TransferQueue
=============================================================================
