------------------------------ MODULE MCX402Sale ------------------------------
(* Instances of X402Sale for TLC. *)
EXTENDS X402Sale, TLC

\* Handlers are interchangeable; used by runs without liveness properties.
RequestSymmetry == Permutations(Requests)
===============================================================================
