----------------------------- MODULE MCRestServer -----------------------------
(* Instance of RestServer for TLC; RestServer.cfg gives the constants. *)
EXTENDS RestServer, TLC

Symmetry == Permutations(Threads) \cup Permutations(Ids)
==============================================================================
