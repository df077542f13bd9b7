------------------------------ MODULE MCAgent -------------------------------
(* AgentDelivery for TLC: the handlers of the -ui mode are interchangeable. *)
EXTENDS AgentInvariant, TLC

HandlerSymmetry == Permutations(Handlers)
=============================================================================
