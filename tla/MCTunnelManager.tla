-------------------------- MODULE MCTunnelManager --------------------------
(* Instances of TunnelManager for TLC; see the .cfg files.                 *)
EXTENDS TunnelManager, TLC

\* The controllers are interchangeable.
Interchangeable == Permutations(Controllers)
=============================================================================
