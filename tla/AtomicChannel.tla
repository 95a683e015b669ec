--------------------------- MODULE AtomicChannel ---------------------------
(***************************************************************************)
(* A channel as its members understand it: every operation happens at one  *)
(* moment, on the state of that moment.  A message gets the next number    *)
(* and counts for the members there are then; a mark names a message that  *)
(* is there; whoever leaves takes mark and count along.                    *)
(*                                                                         *)
(* The one licence: who walked in by posting may be left out of the count  *)
(* of a message.                                                           *)
(***************************************************************************)
EXTENDS Naturals

CONSTANTS User, MaxSeq, Absent, InThread

VARIABLES current, author, member, walkIn, lastRead, unread

messages == <<current, author>>
marks == <<lastRead, unread>>
vars == <<messages, marks, member, walkIn>>

Init ==
  /\ current = 0 /\ author = [s \in 1 .. MaxSeq |-> Absent]
  /\ member \in SUBSET User /\ walkIn = {}
  /\ lastRead = [u \in User |-> 0] /\ unread = [u \in User |-> 0]

Append(a) ==
  /\ current' = current + 1
  /\ current' <= MaxSeq
  /\ author' = [author EXCEPT ![current'] = a]

Post(u, S) ==
  /\ Append(u)
  /\ S \subseteq member \ {u}
  /\ member \ walkIn \subseteq S \cup {u}
  /\ unread' = [v \in User |-> IF v \in S THEN unread[v] + 1 ELSE unread[v]]
  /\ UNCHANGED <<lastRead, member, walkIn>>

Reply ==
  /\ Append(InThread)
  /\ UNCHANGED <<marks, member, walkIn>>

Enter(S) ==
  /\ S # {} /\ S \cap member = {}
  /\ member' = member \cup S
  /\ walkIn' \in {walkIn, walkIn \cup S}
  /\ UNCHANGED <<messages, marks>>

Leave(u) ==
  /\ u \in member
  /\ member' = member \ {u} /\ walkIn' = walkIn \ {u}
  /\ lastRead' = [lastRead EXCEPT ![u] = 0]
  /\ unread' = [unread EXCEPT ![u] = 0]
  /\ UNCHANGED messages

Read(u, n) ==
  /\ u \in member
  /\ n \in 0 .. current
  /\ lastRead' = [lastRead EXCEPT ![u] = n]
  /\ unread' = [unread EXCEPT ![u] = 0]
  /\ UNCHANGED <<messages, member, walkIn>>

Next ==
  \/ Reply
  \/ \E S \in SUBSET User : Enter(S)
  \/ \E u \in User :
       \/ Leave(u)
       \/ \E n \in 0 .. MaxSeq : Read(u, n)
       \/ \E S \in SUBSET User : Post(u, S)

Spec == Init /\ [][Next]_vars
=============================================================================
