------------------------ MODULE MCTransceiverRegistry ------------------------
(* Four addresses compete for three slots, so that registration runs out.  *)
EXTENDS TransceiverRegistry
==============================================================================
