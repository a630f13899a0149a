---------------------------- MODULE MCTransferRoute ----------------------------
(* Both routes to every platform, and two transceivers on the destination. *)
EXTENDS TransferRoute
================================================================================
