--------------------------- MODULE MCClientDaemon ---------------------------
(* Instances of ClientDaemon for TLC; see the .cfg files.                  *)
EXTENDS ClientDaemon
=============================================================================
