----------------------------- MODULE MCPrTimeline -----------------------------
(* The handlers are interchangeable. *)
EXTENDS PrTimeline, TLC

ClientSymmetry == Permutations(Client)
===============================================================================
