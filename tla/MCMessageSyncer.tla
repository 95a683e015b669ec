-------------------------- MODULE MCMessageSyncer --------------------------
(* MessageSyncer with interchangeable calls, and messages whose senders'    *)
(* transactions began in another order than they were numbered.             *)
EXTENDS MessageSyncer, TLC

TaskSymmetry == Permutations(Tasks)

InTurn    == [s \in Seqs |-> s]
Crossed   == <<2, 3, 1>>       \* 3, 1, 2
TwoByTwo  == <<3, 1, 4, 2>>    \* 2, 4, 1, 3: three gaps, the last one back
============================================================================
