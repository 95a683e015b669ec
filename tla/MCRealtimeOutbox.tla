-------------------------- MODULE MCRealtimeOutbox --------------------------
(* Instances of RealtimeOutbox for TLC: API processes are interchangeable.  *)
EXTENDS RealtimeOutbox, TLC

Processes == Permutations(Worker)
=============================================================================
