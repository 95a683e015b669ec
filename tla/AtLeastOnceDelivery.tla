------------------------ MODULE AtLeastOnceDelivery -------------------------
(***************************************************************************)
(* What the realtime outbox promises to the code that commits an event and *)
(* to the subscribers of its channels.  Once its transaction commits, an   *)
(* event is owed to them; it reaches them as zero or more copies, never    *)
(* more than there are elements of Copy; and the obligation is forgotten   *)
(* only when a copy has been delivered.                                    *)
(***************************************************************************)
CONSTANTS Event, Copy

VARIABLES
  obligation,  \* "none" until the event's transaction commits, then "owed"
  copies       \* copies handed to the subscribers

vars == <<obligation, copies>>

Init ==
  /\ obligation = [e \in Event |-> "none"]
  /\ copies = [e \in Event |-> {}]

Accept(e) ==
  /\ obligation[e] = "none"
  /\ obligation' = [obligation EXCEPT ![e] = "owed"]
  /\ UNCHANGED copies

\* A copy may still arrive after the obligation is forgotten: a publisher that
\* was slow enough does not know.
Deliver(e, c) ==
  /\ obligation[e] # "none"
  /\ c \notin copies[e]
  /\ copies' = [copies EXCEPT ![e] = @ \cup {c}]
  /\ UNCHANGED obligation

Forget(S) ==
  /\ \A e \in S : obligation[e] = "owed" /\ copies[e] # {}
  /\ obligation' = [e \in Event |-> IF e \in S THEN "forgotten" ELSE obligation[e]]
  /\ UNCHANGED copies

Next ==
  \/ \E e \in Event : Accept(e) \/ \E c \in Copy : Deliver(e, c)
  \/ \E S \in SUBSET Event : Forget(S)

Spec == Init /\ [][Next]_vars
=============================================================================
