---------------------------- MODULE MCTransferAmount ----------------------------
(* Decimals below, at and above TrimmedDecimals on both sides, and amounts up to  *)
(* four times the largest that fits.                                              *)
EXTENDS TransferAmount
================================================================================
