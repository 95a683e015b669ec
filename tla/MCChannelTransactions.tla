------------------------ MODULE MCChannelTransactions ------------------------
(* Instances of ChannelTransactions for TLC: requests and users are         *)
(* interchangeable.                                                         *)
EXTENDS ChannelTransactions, TLC

Interchangeable == Permutations(Tx) \cup Permutations(User)
=============================================================================
