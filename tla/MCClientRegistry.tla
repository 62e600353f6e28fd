------------------------- MODULE MCClientRegistry -------------------------
(* Instances of ClientRegistry for TLC; see the .cfg files.                *)
EXTENDS ClientRegistry, TLC

\* The names are interchangeable, and so are the administering processes.
Interchangeable == Permutations(Names) \cup Permutations(Admins)
=============================================================================
