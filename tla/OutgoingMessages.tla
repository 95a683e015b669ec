-------------------------- MODULE OutgoingMessages --------------------------
(***************************************************************************)
(* What an offline queue promises its application.  A message is asked for *)
(* once and accepted at most once; the channel gets it at most once; it is *)
(* shown as sent, and leaves the queue, only when the channel has it or    *)
(* the application withdraws it; one that left is never taken up again.    *)
(***************************************************************************)
EXTENDS Naturals, Sequences

CONSTANTS Msgs, Other

VARIABLES
    asked,     \* messages the application has asked to send
    accepted,  \* those the queue owes, or owed until they were stored
    coming,    \* those asked for and not yet accepted
    kept,      \* those in the queue
    shown,     \* those shown as sent
    channel    \* the channel's messages

vars == <<asked, accepted, coming, kept, shown, channel>>

Stored(m) == \E i \in DOMAIN channel : channel[i] = m

Init ==
    /\ asked = {} /\ accepted = {} /\ coming = {} /\ kept = {} /\ shown = {}
    /\ channel = <<>>

Ask(m) ==
    /\ m \notin asked
    /\ asked' = asked \cup {m} /\ coming' = coming \cup {m}
    /\ UNCHANGED <<accepted, kept, shown, channel>>

Accept(m) ==
    /\ m \in coming
    /\ coming' = coming \ {m}
    /\ accepted' = accepted \cup {m} /\ kept' = kept \cup {m}
    /\ UNCHANGED <<asked, shown, channel>>

\* What has not been accepted may be lost.
Forget ==
    /\ coming' = {}
    /\ UNCHANGED <<asked, accepted, kept, shown, channel>>

Withdraw(m) ==
    /\ m \in kept
    /\ kept' = kept \ {m} /\ accepted' = accepted \ {m}
    /\ UNCHANGED <<asked, coming, shown, channel>>

Settle(m) ==
    /\ m \in kept /\ Stored(m)
    /\ kept' = kept \ {m}
    /\ UNCHANGED <<asked, accepted, coming, shown, channel>>

Show(m) ==
    /\ Stored(m)
    /\ shown' = shown \cup {m}
    /\ UNCHANGED <<asked, accepted, coming, kept, channel>>

Doubt(m) ==
    /\ shown' = shown \ {m}
    /\ UNCHANGED <<asked, accepted, coming, kept, channel>>

\* A message arrives, be it withdrawn or not, or somebody else's does.
Deliver(m) ==
    /\ m = Other \/ (m \in asked \ coming /\ ~Stored(m))
    /\ channel' = Append(channel, m)
    /\ UNCHANGED <<asked, accepted, coming, kept, shown>>

Next ==
    \/ \E m \in Msgs : \/ Ask(m) \/ Accept(m) \/ Withdraw(m) \/ Settle(m)
                       \/ Show(m) \/ Doubt(m)
    \/ \E m \in Msgs \cup {Other} : Deliver(m)
    \/ Forget

Spec == Init /\ [][Next]_vars
=============================================================================
