--------------------------- MODULE TokenRotation ---------------------------
(***************************************************************************)
(* What refresh-token rotation promises to the holder of a session.  A     *)
(* session owes its holder a token from its login on, hands out one that   *)
(* was never seen before, and owes the next one when that is exchanged; so *)
(* the tokens of a session form a chain, each exchanged at most once.  The *)
(* chain breaks only between an exchange and the next token.  A session    *)
(* that has ended stays so.                                                *)
(***************************************************************************)
CONSTANTS Session, Token

VARIABLES
  phase,    \* "none", then "owed" and "held" in turn, or "broken"
  current,  \* current[s]: the token that can be exchanged, if there is one
  issued,   \* tokens ever handed out
  ended     \* sessions that have ended

vars == <<phase, current, issued, ended>>

Init ==
  /\ phase = [s \in Session |-> "none"]
  /\ current = [s \in Session |-> {}]
  /\ issued = {} /\ ended = {}

Move(s, from, to) == phase[s] = from /\ phase' = [phase EXCEPT ![s] = to]

Open(s) ==
  /\ Move(s, "none", "owed")
  /\ UNCHANGED <<current, issued, ended>>

HandOut(s, t) ==
  /\ Move(s, "owed", "held")
  /\ t \notin issued
  /\ current' = [current EXCEPT ![s] = {t}]
  /\ issued' = issued \cup {t}
  /\ UNCHANGED ended

\* Whoever brings the current token; an ended session may still exchange it when
\* the request was let in before.
Exchange(s) ==
  /\ Move(s, "held", "owed")
  /\ current' = [current EXCEPT ![s] = {}]
  /\ UNCHANGED <<issued, ended>>

Break(s) ==
  /\ Move(s, "owed", "broken")
  /\ UNCHANGED <<current, issued, ended>>

End(S) ==
  /\ \A s \in S : phase[s] # "none"
  /\ ended' = ended \cup S
  /\ UNCHANGED <<phase, current, issued>>

Next ==
  \/ \E S \in SUBSET Session : End(S)
  \/ \E s \in Session : Open(s) \/ Exchange(s) \/ Break(s) \/ \E t \in Token : HandOut(s, t)

Spec == Init /\ [][Next]_vars
=============================================================================
