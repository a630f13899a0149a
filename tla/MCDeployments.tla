---------------------------- MODULE MCDeployments ----------------------------
(* An EVM and a Solana chain, which differ from the file in any way. *)
EXTENDS Deployments
================================================================================
