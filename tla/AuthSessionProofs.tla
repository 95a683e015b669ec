------------------------- MODULE AuthSessionProofs -------------------------
(***************************************************************************)
(* Proofs about the sessions of a user.  The inductive invariant adds where *)
(* the sessions of bundles and requests come from, and that a barred        *)
(* session has ended for good.                                              *)
(***************************************************************************)
EXTENDS AuthSession, TLAPS

Validating == {"user", "session", "token", "rotate"}
Validated  == {"token", "rotate", "issue", "accepted"}
Ended      == {"revoked", "expired"}

HasBundle(c) ==
    call[c].pc \in Validating =>
        call[c].bundle \in Issued /\ call[c].sid = bundles[call[c].bundle].sid

HasSession(c) == call[c].pc = "issue" => call[c].sid \in Sessions /\ session[call[c].sid] # "none"

Admitted(c) ==
    /\ call[c].barred \subseteq barred
    /\ call[c].pc \in Validated /\ call[c].kind # "login" => call[c].sid \notin call[c].barred

Provenance ==
    /\ \A b \in Issued : session[bundles[b].sid] # "none"
    /\ \A c \in Calls : HasBundle(c) /\ HasSession(c) /\ Admitted(c)

BarredEnded ==
    /\ \A s \in barred : session[s] \in Ended
    /\ revoking => \A s \in known : session[s] # "none"

IInv == TypeOK /\ Provenance /\ BarredEnded /\ OneCurrentToken /\ SessionKeepsToken

LEMMA NoCallOK == NoCall \in Call
  BY BoundsAssumption DEF NoCall, Call, Steps

LEMMA InitInvariant == Init => IInv
  <1> SUFFICES ASSUME Init PROVE IInv
    OBVIOUS
  <1>1. call \in [Calls -> Call] /\ \A c \in Calls : call[c] = NoCall
    BY NoCallOK DEF Init
  <1>2. bundles \in Seq(Bundle) /\ Len(bundles) = 0 /\ Issued = {}
    BY DEF Init, Issued
  <1>3. session \in [Sessions -> {"none", "live", "revoked", "expired"}]
    BY DEF Init
  <1>4. TypeOK
    <2>1. /\ clock \in 1 .. MaxTime /\ validAfter \in 0 .. MaxTime
          /\ Len(bundles) <= MaxBundles
      BY <1>2, BoundsAssumption DEF Init
    <2> QED BY <1>1, <1>2, <1>3, <2>1 DEF Init, TypeOK
  <1>5. Provenance /\ BarredEnded
    BY <1>1, <1>2
    DEF Init, Provenance, BarredEnded, HasBundle, HasSession, Admitted, NoCall, Validating, Validated
  <1>6. OneCurrentToken /\ SessionKeepsToken
    BY <1>1, <1>2 DEF Init, OneCurrentToken, SessionKeepsToken, Unspent, Issuing, NoCall
  <1> QED BY <1>4, <1>5, <1>6 DEF IInv

\* One request moves; the sessions, the bundles and who is issuing stay.
LEMMA QuietStep ==
    ASSUME IInv, NEW c \in Calls, NEW r \in Call,
           call' = [call EXCEPT ![c] = r],
           UNCHANGED <<clock, validAfter, session, bundles, used, revoking, known, barred>>,
           broken' \in BOOLEAN, broken => broken',
           r.pc # "issue", call[c].pc = "issue" => broken',
           r.pc \in Validating => r.bundle \in Issued /\ r.sid = bundles[r.bundle].sid,
           r.barred \subseteq barred,
           r.pc \in Validated /\ r.kind # "login" => r.sid \notin r.barred
    PROVE  IInv'
  <1>1. call' \in [Calls -> Call] /\ call'[c] = r /\ \A d \in Calls \ {c} : call'[d] = call[d]
    BY DEF IInv, TypeOK
  <1>2. Issued' = Issued /\ Unspent' = Unspent
    BY DEF Issued, Unspent
  <1>3. TypeOK'
    BY <1>1, <1>2 DEF IInv, TypeOK
  <1>4. Provenance'
    <2>1. \A d \in Calls : HasBundle(d)' /\ HasSession(d)' /\ Admitted(d)'
      BY <1>1, <1>2 DEF IInv, Provenance, HasBundle, HasSession, Admitted
    <2> QED BY <1>2, <2>1 DEF IInv, Provenance
  <1>5. BarredEnded'
    BY DEF IInv, BarredEnded
  <1>6. Issuing' = Issuing \ {c}
    BY <1>1 DEF Issuing
  <1>7. OneCurrentToken'
    BY <1>1, <1>2, <1>6 DEF IInv, OneCurrentToken, Issuing
  <1>8. ~broken' => Issuing' = Issuing /\ \A d \in Issuing : call'[d] = call[d]
    BY <1>1, <1>6 DEF Issuing
  <1>9. SessionKeepsToken'
    BY <1>2, <1>8 DEF IInv, SessionKeepsToken
  <1> QED BY <1>3, <1>4, <1>5, <1>7, <1>9 DEF IInv

\* Moving a request to another step keeps the rest of it.
LEMMA GotoOK ==
    ASSUME TypeOK, NEW c \in Calls, NEW pc \in Steps, Goto(c, pc)
    PROVE  \E r \in Call : /\ call' = [call EXCEPT ![c] = r]
                           /\ r.pc = pc /\ r.kind = call[c].kind /\ r.bundle = call[c].bundle
                           /\ r.sid = call[c].sid /\ r.barred = call[c].barred
  <1> DEFINE r == [call[c] EXCEPT !.pc = pc]
  <1>1. call[c] \in Call
    BY DEF TypeOK
  <1>2. /\ r \in Call
        /\ r.pc = pc /\ r.kind = call[c].kind /\ r.bundle = call[c].bundle
        /\ r.sid = call[c].sid /\ r.barred = call[c].barred
    BY <1>1 DEF Call
  <1>3. call' = [call EXCEPT ![c] = r]
    BY DEF Goto
  <1> HIDE DEF r
  <1> QED BY <1>2, <1>3

LEMMA AskKeeps ==
    ASSUME IInv, NEW c \in Calls, NEW b \in Issued, NEW kind \in {"refresh", "check"}, Ask(c, kind, b)
    PROVE  IInv'
  <1> DEFINE r == Asked(kind, b)
  <1>1. bundles[b] \in Bundle /\ b \in BundleIds
    BY BoundsAssumption DEF IInv, TypeOK, Issued, BundleIds
  <1>2. /\ r \in Call
        /\ r.pc = "user" /\ r.bundle = b /\ r.sid = bundles[b].sid /\ r.barred = barred
    BY <1>1, BoundsAssumption, SMTT(30)
    DEF IInv, TypeOK, Asked, Call, Steps, Bundle, Sessions, BundleIds
  <1>3. /\ call' = [call EXCEPT ![c] = r] /\ call[c].pc = "idle"
        /\ UNCHANGED <<clock, validAfter, session, bundles, used, revoking, known, barred, broken>>
    BY DEF Ask
  <1>4. broken' \in BOOLEAN /\ (broken => broken')
    BY <1>3 DEF IInv, TypeOK
  <1> HIDE DEF r
  <1> QED BY <1>2, <1>3, <1>4, QuietStep DEF Validating, Validated

LEMMA CheckKeeps ==
    ASSUME IInv, NEW c \in Calls, CheckUser(c) \/ CheckSession(c) \/ CheckToken(c)
    PROVE  IInv'
  <1>1. /\ call[c].pc \in {"user", "session", "token"}
        /\ \E pc \in {"session", "token", "accepted", "rotate", "refused"} :
             /\ Goto(c, pc)
             /\ pc = "token" => session[call[c].sid] = "live"
             /\ pc \in {"accepted", "rotate"} => call[c].pc = "token"
        /\ UNCHANGED <<clock, validAfter, session, bundles, used, revoking, known, barred, broken>>
    BY DEF CheckUser, CheckSession, CheckToken
  <1>2. PICK pc \in {"session", "token", "accepted", "rotate", "refused"} :
             /\ Goto(c, pc)
             /\ pc = "token" => session[call[c].sid] = "live"
             /\ pc \in {"accepted", "rotate"} => call[c].pc = "token"
    BY <1>1
  <1>3. PICK r \in Call :
             /\ call' = [call EXCEPT ![c] = r]
             /\ r.pc = pc /\ r.kind = call[c].kind /\ r.bundle = call[c].bundle
             /\ r.sid = call[c].sid /\ r.barred = call[c].barred
    BY <1>2, GotoOK DEF IInv, Steps
  <1>4. r.bundle \in Issued /\ r.sid = bundles[r.bundle].sid
    BY <1>1, <1>3 DEF IInv, Provenance, HasBundle, Validating
  <1>5. r.barred \subseteq barred
    BY <1>3 DEF IInv, Provenance, Admitted
  <1>6. r.pc \in Validated /\ r.kind # "login" => r.sid \notin r.barred
    <2>1. CASE pc = "token"
      BY <1>2, <1>3, <1>5, <2>1 DEF IInv, BarredEnded, Ended
    <2>2. CASE pc \in {"accepted", "rotate"}
      BY <1>2, <1>3, <2>2 DEF IInv, Provenance, Admitted, Validated
    <2> QED BY <1>2, <1>3, <2>1, <2>2 DEF Validated
  <1>7. broken' \in BOOLEAN /\ (broken => broken')
    BY <1>1 DEF IInv, TypeOK
  <1>8. r.pc # "issue" /\ call[c].pc # "issue"
    BY <1>1, <1>3
  <1> QED BY <1>1, <1>3, <1>4, <1>5, <1>6, <1>7, <1>8, QuietStep

\* The rotation hands the session's one refresh token over to the request.
LEMMA RotateKeeps == ASSUME IInv, NEW c \in Calls, Rotate(c) PROVE IInv'
  <1>1. call[c].pc = "rotate"
        /\ UNCHANGED <<clock, validAfter, session, bundles, revoking, known, barred, broken>>
    BY DEF Rotate
  <1>2. /\ call[c].bundle \in Issued /\ call[c].sid = bundles[call[c].bundle].sid
        /\ call[c].barred \subseteq barred
        /\ call[c].kind # "login" => call[c].sid \notin call[c].barred
    BY <1>1 DEF IInv, Provenance, HasBundle, Admitted, Validating, Validated
  <1>3. CASE call[c].bundle \in used /\ Goto(c, "replayed") /\ UNCHANGED used
    <2>1. PICK r \in Call :
             /\ call' = [call EXCEPT ![c] = r]
             /\ r.pc = "replayed" /\ r.kind = call[c].kind /\ r.bundle = call[c].bundle
             /\ r.sid = call[c].sid /\ r.barred = call[c].barred
      BY <1>3, GotoOK DEF IInv, Steps
    <2>2. broken' \in BOOLEAN /\ (broken => broken')
      BY <1>1 DEF IInv, TypeOK
    <2> QED BY <1>1, <1>2, <1>3, <2>1, <2>2, QuietStep DEF Validating, Validated
  <1>4. CASE call[c].bundle \notin used /\ used' = used \cup {call[c].bundle} /\ Goto(c, "issue")
    <2> DEFINE b == call[c].bundle
               s == call[c].sid
    <2>1. PICK r \in Call :
             /\ call' = [call EXCEPT ![c] = r]
             /\ r.pc = "issue" /\ r.kind = call[c].kind /\ r.bundle = b
             /\ r.sid = s /\ r.barred = call[c].barred
      BY <1>4, GotoOK DEF IInv, Steps
    <2>2. call' \in [Calls -> Call] /\ call'[c] = r /\ \A d \in Calls \ {c} : call'[d] = call[d]
      BY <2>1 DEF IInv, TypeOK
    <2>3. Issued' = Issued /\ Unspent' = Unspent \ {b} /\ b \in Unspent /\ bundles[b].sid = s
      BY <1>1, <1>2, <1>4 DEF Issued, Unspent
    <2>4. Issuing' = Issuing \cup {c}
      BY <2>1, <2>2 DEF Issuing
    <2>5. TypeOK'
      BY <1>1, <1>2, <1>4, <2>2, <2>3 DEF IInv, TypeOK
    <2>6. bundles[b] \in Bundle
      BY <1>2 DEF IInv, TypeOK, Issued
    <2>7. s \in Sessions /\ session[s] # "none"
      BY <1>2, <2>6 DEF IInv, Provenance, Bundle
    <2>8. Provenance'
      <3>1. \A d \in Calls : HasBundle(d)' /\ HasSession(d)' /\ Admitted(d)'
        BY <1>1, <1>2, <2>1, <2>2, <2>3, <2>7
        DEF IInv, Provenance, HasBundle, HasSession, Admitted, Validating
      <3> QED BY <1>1, <2>3, <3>1 DEF IInv, Provenance
    <2>9. BarredEnded'
      BY <1>1 DEF IInv, BarredEnded
    <2>10. OneCurrentToken'
      <3>1. \A d \in Issuing : call'[d] = call[d] /\ call[d].sid # s
        BY <1>1, <2>2, <2>3 DEF IInv, OneCurrentToken, Issuing
      <3>2. \A a \in Unspent' : bundles'[a].sid = bundles[a].sid /\ bundles[a].sid # s /\ a \in Unspent
        BY <1>1, <2>3 DEF IInv, OneCurrentToken
      <3> QED BY <2>1, <2>2, <2>3, <2>4, <3>1, <3>2, <1>1 DEF IInv, OneCurrentToken
    <2>11. SessionKeepsToken'
      <3>1. c \in Issuing' /\ call'[c].sid = s /\ \A d \in Issuing : call'[d].sid = call[d].sid
        BY <2>1, <2>2, <2>4
      <3> QED BY <1>1, <2>3, <2>4, <3>1 DEF IInv, SessionKeepsToken
    <2> QED BY <2>5, <2>8, <2>9, <2>10, <2>11 DEF IInv
  <1> QED BY <1>3, <1>4 DEF Rotate

LEMMA LoginKeeps == ASSUME IInv, NEW c \in Calls, Login(c) PROVE IInv'
  <1>1. PICK s \in Sessions :
             /\ session[s] = "none"
             /\ session' = [session EXCEPT ![s] = "live"]
             /\ call' = [call EXCEPT ![c] = [pc |-> "issue", kind |-> "login", bundle |-> 0,
                                             sid |-> s, barred |-> barred]]
    BY DEF Login
  <1>2. /\ call[c].pc = "idle"
        /\ UNCHANGED <<clock, validAfter, bundles, used, revoking, known, barred, broken>>
    BY DEF Login
  <1> DEFINE r == [pc |-> "issue", kind |-> "login", bundle |-> 0, sid |-> s, barred |-> barred]
  <1>3. r \in Call /\ r.pc = "issue" /\ r.sid = s /\ r.kind = "login" /\ r.barred = barred
    <2>1. s \in 0 .. MaxSessions /\ 0 \in 0 .. MaxBundles /\ barred \in SUBSET Sessions
      BY BoundsAssumption DEF Sessions, IInv, TypeOK
    <2> QED BY <2>1 DEF Call, Steps
  <1>4. call' = [call EXCEPT ![c] = r]
    BY <1>1
  <1> HIDE DEF r
  <1>5. call' \in [Calls -> Call] /\ call'[c] = r /\ \A d \in Calls \ {c} : call'[d] = call[d]
    BY <1>3, <1>4 DEF IInv, TypeOK
  <1>6. /\ session' \in [Sessions -> {"none", "live", "revoked", "expired"}]
        /\ session'[s] = "live" /\ \A x \in Sessions \ {s} : session'[x] = session[x]
    BY <1>1 DEF IInv, TypeOK
  <1>7. Issued' = Issued /\ Unspent' = Unspent /\ Issuing' = Issuing \cup {c}
    BY <1>2, <1>3, <1>5 DEF Issued, Unspent, Issuing
  <1>8. TypeOK'
    BY <1>2, <1>5, <1>6, <1>7 DEF IInv, TypeOK
  <1>9. \A b \in Issued : bundles[b].sid \in Sessions /\ bundles[b].sid # s
    <2>1. \A b \in Issued : bundles[b] \in Bundle
      BY DEF IInv, TypeOK, Issued
    <2> QED BY <1>1, <2>1 DEF IInv, Provenance, Bundle
  <1>10. \A d \in Issuing : call[d].sid \in Sessions /\ call[d].sid # s
    BY <1>1 DEF IInv, Provenance, HasSession, Issuing
  <1>11. Provenance'
    <2>1. \A d \in Calls \ {c} : HasBundle(d)' /\ HasSession(d)' /\ Admitted(d)'
      BY <1>2, <1>5, <1>6, <1>7 DEF IInv, Provenance, HasBundle, HasSession, Admitted
    <2>2. HasBundle(c)' /\ HasSession(c)' /\ Admitted(c)'
      BY <1>2, <1>3, <1>5, <1>6 DEF HasBundle, HasSession, Admitted, Validating
    <2>3. \A b \in Issued' : session'[bundles'[b].sid] # "none"
      BY <1>2, <1>6, <1>7, <1>9 DEF IInv, Provenance
    <2> QED BY <2>1, <2>2, <2>3 DEF Provenance
  <1>12. BarredEnded'
    BY <1>1, <1>2, <1>6 DEF IInv, TypeOK, BarredEnded, Ended
  <1>13. OneCurrentToken'
    <2>1. c \notin Issuing /\ \A d \in Issuing : call'[d] = call[d]
      BY <1>2, <1>5 DEF Issuing
    <2>2. \A b \in Unspent : bundles'[b] = bundles[b] /\ b \in Issued
      BY <1>2 DEF Unspent
    <2> QED BY <1>3, <1>5, <1>7, <1>9, <1>10, <2>1, <2>2 DEF IInv, OneCurrentToken
  <1>14. SessionKeepsToken'
    <2>1. c \in Issuing' /\ call'[c].sid = s /\ \A d \in Issuing : call'[d].sid = call[d].sid
      BY <1>2, <1>3, <1>5, <1>7 DEF Issuing
    <2> QED BY <1>2, <1>6, <1>7, <2>1 DEF IInv, SessionKeepsToken
  <1> QED BY <1>8, <1>11, <1>12, <1>13, <1>14 DEF IInv

\* Issuing puts the bundle in the place of the request.
LEMMA IssueKeeps == ASSUME IInv, NEW c \in Calls, Issue(c) PROVE IInv'
  <1> DEFINE n == Len(bundles) + 1
             s == call[c].sid
             x == [sid |-> s, iat |-> clock]
             r == [call[c] EXCEPT !.pc = "accepted", !.bundle = n]
  <1>1. /\ call[c].pc = "issue" /\ Len(bundles) < MaxBundles
        /\ bundles' = Append(bundles, x)
        /\ call' = [call EXCEPT ![c] = r]
        /\ UNCHANGED <<clock, validAfter, session, used, revoking, known, barred, broken>>
    BY DEF Issue
  <1>2. s \in Sessions /\ session[s] # "none"
    BY <1>1 DEF IInv, Provenance, HasSession
  <1>3. bundles \in Seq(Bundle) /\ Len(bundles) \in Nat /\ x \in Bundle
    BY <1>2 DEF IInv, TypeOK, Bundle
  <1>4. /\ bundles' \in Seq(Bundle) /\ Len(bundles') = n /\ Issued' = Issued \cup {n} /\ n \notin Issued
        /\ bundles'[n] = x /\ \A b \in Issued : bundles'[b] = bundles[b]
    BY <1>1, <1>3 DEF Issued
  <1>5. n \in 0 .. MaxBundles
    BY <1>1, <1>3, BoundsAssumption
  <1>6. call[c] \in Call
    BY DEF IInv, TypeOK
  <1>7. /\ r \in Call /\ r.pc = "accepted" /\ r.bundle = n
        /\ r.kind = call[c].kind /\ r.sid = s /\ r.barred = call[c].barred
    BY <1>5, <1>6 DEF Call, Steps
  <1> HIDE DEF r
  <1>8. call' \in [Calls -> Call] /\ call'[c] = r /\ \A d \in Calls \ {c} : call'[d] = call[d]
    BY <1>1, <1>7 DEF IInv, TypeOK
  <1>9. Unspent' = Unspent \cup {n} /\ Issuing' = Issuing \ {c} /\ c \in Issuing
    <2>1. n \notin used
      BY <1>4 DEF IInv, TypeOK
    <2> QED BY <1>1, <1>4, <1>7, <1>8, <2>1 DEF Unspent, Issuing
  <1>10. TypeOK'
    BY <1>1, <1>3, <1>4, <1>5, <1>8 DEF IInv, TypeOK
  <1>11. Provenance'
    <2>1. \A d \in Calls \ {c} : HasBundle(d)' /\ HasSession(d)' /\ Admitted(d)'
      BY <1>1, <1>4, <1>8, ZenonT(60) DEF IInv, Provenance, HasBundle, HasSession, Admitted
    <2>2. HasBundle(c)' /\ HasSession(c)' /\ Admitted(c)'
      BY <1>1, <1>7, <1>8
      DEF IInv, Provenance, HasBundle, HasSession, Admitted, Validating, Validated
    <2>3. \A b \in Issued' : session'[bundles'[b].sid] # "none"
      <3>1. x.sid = s
        OBVIOUS
      <3>2. \A b \in Issued : session'[bundles'[b].sid] # "none"
        BY <1>1, <1>4 DEF IInv, Provenance
      <3>3. session'[bundles'[n].sid] # "none"
        BY <1>1, <1>2, <1>4, <3>1
      <3> QED BY <1>4, <3>2, <3>3
    <2> QED BY <2>1, <2>2, <2>3 DEF Provenance
  <1>12. BarredEnded'
    BY <1>1 DEF IInv, BarredEnded
  <1>13. \A b \in Unspent : bundles'[b] = bundles[b] /\ bundles[b].sid # s
    BY <1>4, <1>9 DEF IInv, OneCurrentToken, Unspent
  <1>14. \A d \in Issuing' : call'[d] = call[d] /\ d \in Issuing /\ call[d].sid # s
    BY <1>8, <1>9 DEF IInv, OneCurrentToken, Issuing
  <1>15. OneCurrentToken'
    BY <1>4, <1>9, <1>13, <1>14 DEF IInv, OneCurrentToken
  <1>16. SessionKeepsToken'
    <2>1. n \in Unspent' /\ bundles'[n].sid = s
      BY <1>4, <1>9
    <2>2. \A d \in Issuing : (d \in Issuing' /\ call'[d].sid = call[d].sid) \/ call[d].sid = s
      BY <1>9, <1>14
    <2>3. ASSUME ~broken, NEW t \in Sessions, session[t] # "none"
          PROVE  (\E b \in Unspent' : bundles'[b].sid = t) \/ (\E d \in Issuing' : call'[d].sid = t)
      <3>1. CASE t = s
        BY <2>1, <3>1
      <3>2. CASE t # s
        BY <1>9, <1>13, <2>2, <2>3, <3>2 DEF IInv, SessionKeepsToken
      <3> QED BY <3>1, <3>2
    <2> QED BY <1>1, <2>3 DEF SessionKeepsToken
  <1> QED BY <1>10, <1>11, <1>12, <1>15, <1>16 DEF IInv

LEMMA EndCallKeeps == ASSUME IInv, NEW c \in Calls, Finish(c) \/ BreakOff(c) PROVE IInv'
  <1>1. /\ call' = [call EXCEPT ![c] = NoCall]
        /\ UNCHANGED <<clock, validAfter, session, bundles, used, revoking, known, barred>>
        /\ broken' \in BOOLEAN /\ (broken => broken')
        /\ call[c].pc = "issue" => broken'
    BY DEF Finish, BreakOff, IInv, TypeOK
  <1>2. NoCall.pc = "idle" /\ NoCall.barred = {}
    BY DEF NoCall
  <1> QED BY <1>1, <1>2, NoCallOK, QuietStep DEF Validating, Validated

\* The sessions change, none begins and none comes back.
LEMMA SessionStep ==
    ASSUME IInv,
           clock' \in 1 .. MaxTime, validAfter' \in 0 .. MaxTime,
           session' \in [Sessions -> {"none", "live", "revoked", "expired"}],
           \A s \in Sessions : /\ session'[s] = "none" <=> session[s] = "none"
                               /\ session[s] \in Ended => session'[s] \in Ended,
           revoking' \in BOOLEAN, known' \subseteq Sessions,
           revoking' => \A s \in known' : session'[s] # "none",
           barred' \subseteq Sessions, barred \subseteq barred',
           \A s \in barred' : session'[s] \in Ended,
           UNCHANGED <<bundles, used, call, broken>>
    PROVE  IInv'
  <1>1. Issued' = Issued /\ Unspent' = Unspent /\ Issuing' = Issuing
    BY DEF Issued, Unspent, Issuing
  <1>2. TypeOK'
    BY <1>1 DEF IInv, TypeOK
  <1>3. \A b \in Issued : bundles[b].sid \in Sessions
    <2>1. \A b \in Issued : bundles[b] \in Bundle
      BY DEF IInv, TypeOK, Issued
    <2> QED BY <2>1 DEF Bundle
  <1>4. Provenance'
    <2>1. \A d \in Calls : HasBundle(d)' /\ HasSession(d)' /\ Admitted(d)'
      BY <1>1 DEF IInv, Provenance, HasBundle, HasSession, Admitted
    <2> QED BY <1>1, <1>3, <2>1 DEF IInv, Provenance
  <1>5. BarredEnded'
    BY DEF BarredEnded
  <1>6. OneCurrentToken' /\ SessionKeepsToken'
    BY <1>1 DEF IInv, OneCurrentToken, SessionKeepsToken
  <1> QED BY <1>2, <1>4, <1>5, <1>6 DEF IInv

LEMMA RevokeKeeps == IInv /\ Revoke => IInv'
  <1> SUFFICES ASSUME IInv, Revoke PROVE IInv'
    OBVIOUS
  <1>1. /\ clock \in 1 .. MaxTime /\ validAfter \in 0 .. MaxTime
        /\ session \in [Sessions -> {"none", "live", "revoked", "expired"}]
        /\ known \subseteq Sessions /\ barred \subseteq Sessions
        /\ \A s \in barred : session[s] \in Ended
        /\ revoking => \A s \in known : session[s] # "none"
    BY DEF IInv, TypeOK, BarredEnded
  <1>2. CASE RevokeUser
    <2>1. clock \in 0 .. MaxTime
      BY <1>1, BoundsAssumption
    <2> QED BY <1>1, <1>2, <2>1, SessionStep DEF RevokeUser
  <1>3. CASE RevokeSessions
    <2>1. /\ session' \in [Sessions -> {"none", "live", "revoked", "expired"}]
          /\ \A s \in Sessions : session'[s] = IF session[s] = "live" THEN "revoked" ELSE session[s]
      BY <1>1, <1>3 DEF RevokeSessions
    <2>2. \A s \in Sessions : /\ session'[s] = "none" <=> session[s] = "none"
                              /\ session[s] # "none" => session'[s] \in Ended
                              /\ session[s] \in Ended => session'[s] \in Ended
      BY <1>1, <2>1 DEF Ended
    <2>3. /\ barred' = barred \cup known /\ revoking /\ revoking' = FALSE
          /\ UNCHANGED <<clock, validAfter, bundles, used, known, call, broken>>
      BY <1>3 DEF RevokeSessions
    <2>4. \A s \in barred' : session'[s] \in Ended
      BY <1>1, <2>2, <2>3
    <2> QED BY <1>1, <2>1, <2>2, <2>3, <2>4, SessionStep
  <1>4. CASE RevokeBreaksOff
    BY <1>1, <1>4, SessionStep DEF RevokeBreaksOff
  <1> QED BY <1>2, <1>3, <1>4 DEF Revoke

LEMMA ExpireKeeps == ASSUME IInv, NEW s \in Sessions, ExpireSession(s) PROVE IInv'
  <1>1. /\ clock \in 1 .. MaxTime /\ validAfter \in 0 .. MaxTime
        /\ session \in [Sessions -> {"none", "live", "revoked", "expired"}]
        /\ known \subseteq Sessions /\ barred \subseteq Sessions /\ revoking \in BOOLEAN
        /\ \A t \in barred : session[t] \in Ended
        /\ revoking => \A t \in known : session[t] # "none"
    BY DEF IInv, TypeOK, BarredEnded
  <1>2. /\ session[s] = "live" /\ session' = [session EXCEPT ![s] = "expired"]
        /\ UNCHANGED <<clock, validAfter, bundles, used, revoking, known, barred, call, broken>>
    BY DEF ExpireSession
  <1>3. /\ session' \in [Sessions -> {"none", "live", "revoked", "expired"}]
        /\ session'[s] = "expired" /\ \A t \in Sessions \ {s} : session'[t] = session[t]
    BY <1>1, <1>2
  <1>4. \A t \in Sessions : /\ session'[t] = "none" <=> session[t] = "none"
                            /\ session[t] \in Ended => session'[t] \in Ended
    BY <1>2, <1>3 DEF Ended
  <1> QED BY <1>1, <1>2, <1>3, <1>4, SessionStep

LEMMA TickKeeps == IInv /\ Tick => IInv'
  <1> SUFFICES ASSUME IInv, Tick PROVE IInv'
    OBVIOUS
  <1>1. /\ validAfter \in 0 .. MaxTime
        /\ session \in [Sessions -> {"none", "live", "revoked", "expired"}]
        /\ known \subseteq Sessions /\ barred \subseteq Sessions /\ revoking \in BOOLEAN
        /\ \A t \in barred : session[t] \in Ended
        /\ revoking => \A t \in known : session[t] # "none"
    BY DEF IInv, TypeOK, BarredEnded
  <1>2. clock' \in 1 .. MaxTime
    BY BoundsAssumption DEF IInv, TypeOK, Tick
  <1> QED BY <1>1, <1>2, SessionStep DEF Tick

LEMMA StepInvariant == IInv /\ [Next]_vars => IInv'
  <1> SUFFICES ASSUME IInv, [Next]_vars PROVE IInv'
    OBVIOUS
  <1>1. ASSUME NEW c \in Calls, NEW b \in Issued, NEW kind \in {"refresh", "check"}, Ask(c, kind, b)
        PROVE  IInv'
    BY <1>1, AskKeeps
  <1>2. ASSUME NEW c \in Calls, Login(c) PROVE IInv'
    BY <1>2, LoginKeeps
  <1>3. ASSUME NEW c \in Calls, Handle(c) PROVE IInv'
    BY <1>3, CheckKeeps, RotateKeeps, IssueKeeps, EndCallKeeps DEF Handle
  <1>4. ASSUME NEW c \in Calls, Finish(c) PROVE IInv'
    BY <1>4, EndCallKeeps
  <1>5. ASSUME NEW s \in Sessions, ExpireSession(s) PROVE IInv'
    BY <1>5, ExpireKeeps
  <1>6. CASE Revoke
    BY <1>6, RevokeKeeps
  <1>7. CASE Tick
    BY <1>7, TickKeeps
  <1>8. CASE UNCHANGED vars
    BY <1>8
    DEF vars, IInv, TypeOK, Provenance, BarredEnded, OneCurrentToken, SessionKeepsToken,
        Unspent, Issuing, Issued, HasBundle, HasSession, Admitted
  <1> QED BY <1>1, <1>2, <1>3, <1>4, <1>5, <1>6, <1>7, <1>8 DEF Next

LEMMA InvariantBars == IInv => RevokedStaysOut
  BY DEF IInv, Provenance, Admitted, Validated, RevokedStaysOut

-----------------------------------------------------------------------------
(* The rotation, step by step.  What it sees of a state is the sessions, the *)
(* bundles, the spent tokens, and which sessions a request is issuing for.   *)

EndedNow == {s \in Sessions : session[s] \in {"revoked", "expired"}}

\* A session with a current token is owed none, and a session that was never
\* opened has neither.
LEMMA PhaseIs ==
    ASSUME IInv, NEW s \in Sessions
    PROVE  /\ Phase[s] = "none" <=> session[s] = "none"
           /\ Phase[s] = "owed" <=> s \in Owed
           /\ Phase[s] = "held" <=> Current[s] # {}
           /\ s \in Owed => session[s] # "none" /\ Current[s] = {}
           /\ Current[s] # {} => session[s] # "none"
  <1>1. s \in Owed => session[s] # "none"
    BY DEF IInv, Provenance, HasSession, Owed, Issuing
  <1>2. Current[s] # {} => session[s] # "none"
    BY DEF IInv, Provenance, Current, Unspent
  <1>3. s \in Owed => Current[s] = {}
    BY DEF IInv, OneCurrentToken, Owed, Current
  <1>4. Phase[s] = IF session[s] = "none" THEN "none"
                   ELSE IF s \in Owed THEN "owed"
                   ELSE IF Current[s] # {} THEN "held" ELSE "broken"
    BY DEF Phase
  <1>5. Phase[s] = "none" <=> session[s] = "none"
    BY <1>4
  <1>6. Phase[s] = "owed" <=> s \in Owed
    BY <1>1, <1>4
  <1>7. Phase[s] = "held" <=> Current[s] # {}
    BY <1>2, <1>3, <1>4
  <1> QED BY <1>1, <1>2, <1>3, <1>5, <1>6, <1>7

\* A step that moves one session from a phase to another.
LEMMA PhaseMoves ==
    ASSUME IInv, NEW s \in Sessions, NEW phase,
           Phase'[s] = phase,
           \A t \in Sessions \ {s} :
             /\ (session'[t] = "none") = (session[t] = "none")
             /\ (t \in Owed') = (t \in Owed)
             /\ Current'[t] = Current[t]
    PROVE  Phase' = [Phase EXCEPT ![s] = phase]
  <1>1. \A t \in Sessions \ {s} : Phase'[t] = Phase[t]
    BY DEF Phase
  <1>2. /\ Phase = [t \in Sessions |-> Phase[t]]
        /\ Phase' = [t \in Sessions |-> Phase'[t]]
    BY DEF Phase
  <1> QED BY <1>1, <1>2

LEMMA QuietRotation ==
    ASSUME UNCHANGED <<session, bundles, used>>,
           Issuing' = Issuing, \A c \in Issuing : call'[c].sid = call[c].sid
    PROVE  UNCHANGED Rotation!vars
  <1>1. Owed' = Owed
    BY DEF Owed
  <1>2. Issued' = Issued /\ Unspent' = Unspent
    BY DEF Issued, Unspent
  <1>3. Current' = Current
    BY <1>2 DEF Current
  <1>4. Phase' = Phase
    BY <1>1, <1>3 DEF Phase
  <1> QED BY <1>2, <1>3, <1>4 DEF Rotation!vars

\* A request that neither was issuing nor will be.
LEMMA QuietCall ==
    ASSUME IInv, NEW c \in Calls, NEW r, call' = [call EXCEPT ![c] = r],
           call[c].pc # "issue", r.pc # "issue",
           UNCHANGED <<session, bundles, used>>
    PROVE  UNCHANGED Rotation!vars
  <1>1. call'[c] = r /\ \A d \in Calls \ {c} : call'[d] = call[d]
    BY DEF IInv, TypeOK
  <1>2. Issuing' = Issuing /\ c \notin Issuing
    BY <1>1 DEF Issuing
  <1>3. \A d \in Issuing : call'[d].sid = call[d].sid
    BY <1>1, <1>2 DEF Issuing
  <1> QED BY <1>2, <1>3, QuietRotation

LEMMA CheckIsQuiet ==
    ASSUME IInv, NEW c \in Calls, CheckUser(c) \/ CheckSession(c) \/ CheckToken(c)
    PROVE  UNCHANGED Rotation!vars
  <1>1. /\ call[c].pc # "issue"
        /\ \E pc \in {"session", "token", "accepted", "rotate", "refused"} : Goto(c, pc)
        /\ UNCHANGED <<session, bundles, used>>
    BY DEF CheckUser, CheckSession, CheckToken
  <1>2. PICK pc \in {"session", "token", "accepted", "rotate", "refused"} : Goto(c, pc)
    BY <1>1
  <1>3. PICK r \in Call : call' = [call EXCEPT ![c] = r] /\ r.pc = pc
    BY <1>2, GotoOK DEF IInv, Steps
  <1> QED BY <1>1, <1>2, <1>3, QuietCall

LEMMA LoginOpens ==
    ASSUME IInv, NEW c \in Calls, Login(c)
    PROVE  \E s \in Sessions : Rotation!Open(s)
  <1>1. PICK s \in Sessions :
             /\ session[s] = "none"
             /\ session' = [session EXCEPT ![s] = "live"]
             /\ call' = [call EXCEPT ![c] = [pc |-> "issue", kind |-> "login", bundle |-> 0,
                                             sid |-> s, barred |-> barred]]
    BY DEF Login
  <1>2. call[c].pc = "idle" /\ UNCHANGED <<bundles, used>>
    BY DEF Login
  <1>3. call'[c].pc = "issue" /\ call'[c].sid = s /\ \A d \in Calls \ {c} : call'[d] = call[d]
    BY <1>1 DEF IInv, TypeOK
  <1>4. session'[s] = "live" /\ \A t \in Sessions \ {s} : session'[t] = session[t]
    BY <1>1 DEF IInv, TypeOK
  <1>5. Issuing' = Issuing \cup {c} /\ c \notin Issuing
    BY <1>2, <1>3 DEF Issuing
  <1>6. \A d \in Issuing : call'[d].sid = call[d].sid
    BY <1>3, <1>5 DEF Issuing
  <1>7. Owed' = Owed \cup {s}
    BY <1>3, <1>5, <1>6 DEF Owed
  <1>8. Issued' = Issued /\ Current' = Current
    BY <1>2 DEF Issued, Unspent, Current
  <1>9. Phase[s] = "none"
    BY <1>1 DEF Phase
  <1>10. Phase'[s] = "owed"
    BY <1>4, <1>7 DEF Phase
  <1>11. Phase' = [Phase EXCEPT ![s] = "owed"]
    BY <1>4, <1>7, <1>8, <1>10, PhaseMoves
  <1>12. EndedNow' = EndedNow
    BY <1>1, <1>4 DEF EndedNow
  <1> QED BY <1>8, <1>9, <1>11, <1>12 DEF Rotation!Open, Rotation!Move, EndedNow

LEMMA RotateExchanges ==
    ASSUME IInv, NEW c \in Calls, Rotate(c)
    PROVE  (\E s \in Sessions : Rotation!Exchange(s)) \/ UNCHANGED Rotation!vars
  <1>1. call[c].pc = "rotate" /\ UNCHANGED <<session, bundles>>
    BY DEF Rotate
  <1>2. call[c].bundle \in Issued /\ call[c].sid = bundles[call[c].bundle].sid
    BY <1>1 DEF IInv, Provenance, HasBundle, Validating
  <1>3. CASE Goto(c, "replayed") /\ UNCHANGED used
    <2>1. PICK r \in Call : call' = [call EXCEPT ![c] = r] /\ r.pc = "replayed"
      BY <1>3, GotoOK DEF IInv, Steps
    <2> QED BY <1>1, <1>3, <2>1, QuietCall
  <1>4. CASE call[c].bundle \notin used /\ used' = used \cup {call[c].bundle} /\ Goto(c, "issue")
    <2> DEFINE b == call[c].bundle
               s == call[c].sid
    <2>1. PICK r \in Call : call' = [call EXCEPT ![c] = r] /\ r.pc = "issue" /\ r.sid = s
      BY <1>4, GotoOK DEF IInv, Steps
    <2>2. call'[c] = r /\ \A d \in Calls \ {c} : call'[d] = call[d]
      BY <2>1 DEF IInv, TypeOK
    <2>3. Issued' = Issued /\ Unspent' = Unspent \ {b} /\ b \in Unspent /\ bundles[b].sid = s
      BY <1>1, <1>2, <1>4 DEF Issued, Unspent
    <2>4. Issuing' = Issuing \cup {c} /\ c \notin Issuing
      BY <1>1, <2>1, <2>2 DEF Issuing
    <2>5. \A d \in Issuing : call'[d].sid = call[d].sid
      BY <2>2, <2>4 DEF Issuing
    <2>6. Owed' = Owed \cup {s}
      BY <2>1, <2>2, <2>4, <2>5 DEF Owed
    <2>7. bundles[b] \in Bundle
      BY <1>2 DEF IInv, TypeOK, Issued
    <2>8. s \in Sessions /\ session[s] # "none"
      BY <1>2, <2>7 DEF IInv, Provenance, Bundle
    <2>9. Current[s] = {b}
      BY <2>3, <2>8 DEF IInv, OneCurrentToken, Current
    <2>10. Current' = [Current EXCEPT ![s] = {}]
      BY <1>1, <2>3, <2>8, <2>9 DEF Current
    <2>11. Phase[s] = "held"
      BY <2>8, <2>9, PhaseIs
    <2>12. Phase'[s] = "owed"
      BY <1>1, <2>6, <2>8 DEF Phase
    <2>13. \A t \in Sessions \ {s} : Current'[t] = Current[t]
      BY <2>10 DEF Current
    <2>14. Phase' = [Phase EXCEPT ![s] = "owed"]
      BY <1>1, <2>6, <2>8, <2>12, <2>13, PhaseMoves
    <2> QED BY <1>1, <2>3, <2>8, <2>10, <2>11, <2>14 DEF Rotation!Exchange, Rotation!Move
  <1> QED BY <1>3, <1>4 DEF Rotate

LEMMA IssueHandsOut ==
    ASSUME IInv, NEW c \in Calls, Issue(c)
    PROVE  \E s \in Sessions, t \in BundleIds : Rotation!HandOut(s, t)
  <1> DEFINE n == Len(bundles) + 1
             s == call[c].sid
             x == [sid |-> s, iat |-> clock]
             r == [call[c] EXCEPT !.pc = "accepted", !.bundle = n]
  <1>1. /\ call[c].pc = "issue" /\ Len(bundles) < MaxBundles
        /\ bundles' = Append(bundles, x)
        /\ call' = [call EXCEPT ![c] = r]
        /\ UNCHANGED <<session, used>>
    BY DEF Issue
  <1>2. s \in Sessions /\ session[s] # "none"
    BY <1>1 DEF IInv, Provenance, HasSession
  <1>3. bundles \in Seq(Bundle) /\ Len(bundles) \in Nat /\ x \in Bundle
    BY <1>2 DEF IInv, TypeOK, Bundle
  <1>4. /\ Issued' = Issued \cup {n} /\ n \notin Issued
        /\ bundles'[n] = x /\ \A b \in Issued : bundles'[b] = bundles[b]
    BY <1>1, <1>3 DEF Issued
  <1>5. n \in BundleIds
    BY <1>1, <1>3, BoundsAssumption DEF BundleIds
  <1>6. call[c] \in Call
    BY DEF IInv, TypeOK
  <1>7. r.pc = "accepted"
    BY <1>6 DEF Call
  <1> HIDE DEF r
  <1>8. call'[c] = r /\ \A d \in Calls \ {c} : call'[d] = call[d]
    BY <1>1 DEF IInv, TypeOK
  <1>9. Unspent' = Unspent \cup {n} /\ Issuing' = Issuing \ {c} /\ c \in Issuing
    <2>1. n \notin used
      BY <1>4 DEF IInv, TypeOK
    <2> QED BY <1>1, <1>4, <1>7, <1>8, <2>1 DEF Unspent, Issuing
  <1>10. \A d \in Issuing' : call'[d].sid = call[d].sid /\ d \in Issuing /\ call[d].sid # s
    BY <1>8, <1>9 DEF IInv, OneCurrentToken, Issuing
  <1>11. Owed' = Owed \ {s} /\ s \in Owed
    <2>1. \A d \in Issuing : d \in Issuing' \/ call[d].sid = s
      BY <1>9
    <2> QED BY <1>9, <1>10, <2>1 DEF Owed
  <1>12. Current[s] = {} /\ Phase[s] = "owed"
    BY <1>2, <1>11, PhaseIs
  <1>13. Current' = [Current EXCEPT ![s] = {n}]
    <2>1. x.sid = s
      OBVIOUS
    <2>2. \A t \in Sessions \ {s} : {b \in Unspent' : bundles'[b].sid = t} = {b \in Unspent : bundles[b].sid = t}
      BY <1>4, <1>9, <2>1 DEF Unspent
    <2>3. \A b \in Unspent : bundles[b].sid # s
      BY <1>2, <1>12 DEF Current
    <2>4. {b \in Unspent' : bundles'[b].sid = s} = {n}
      BY <1>4, <1>9, <2>1, <2>3 DEF Unspent
    <2> QED BY <1>2, <2>2, <2>4 DEF Current
  <1>14. Phase'[s] = "held"
    <2>1. Current'[s] # {}
      BY <1>2, <1>13 DEF Current
    <2> QED BY <1>1, <1>2, <1>11, <2>1 DEF Phase
  <1>15. \A t \in Sessions \ {s} : Current'[t] = Current[t]
    BY <1>13 DEF Current
  <1>16. Phase' = [Phase EXCEPT ![s] = "held"]
    BY <1>1, <1>2, <1>11, <1>14, <1>15, PhaseMoves
  <1> QED BY <1>1, <1>2, <1>4, <1>5, <1>12, <1>13, <1>16 DEF Rotation!HandOut, Rotation!Move

\* The response leaves, or the request breaks off and with it, perhaps, the
\* chain of its session.
LEMMA EndOfCallRotation ==
    ASSUME IInv, NEW c \in Calls, Finish(c) \/ BreakOff(c)
    PROVE  (\E s \in Sessions : Rotation!Break(s)) \/ UNCHANGED Rotation!vars
  <1>1. call' = [call EXCEPT ![c] = NoCall] /\ UNCHANGED <<session, bundles, used>>
    BY DEF Finish, BreakOff
  <1>2. NoCall.pc # "issue"
    BY DEF NoCall
  <1>3. CASE call[c].pc # "issue"
    BY <1>1, <1>2, <1>3, QuietCall
  <1>4. CASE call[c].pc = "issue"
    <2> DEFINE s == call[c].sid
    <2>1. s \in Sessions /\ session[s] # "none"
      BY <1>4 DEF IInv, Provenance, HasSession
    <2>2. call'[c] = NoCall /\ \A d \in Calls \ {c} : call'[d] = call[d]
      BY <1>1 DEF IInv, TypeOK
    <2>3. Issuing' = Issuing \ {c} /\ c \in Issuing
      BY <1>2, <1>4, <2>2 DEF Issuing
    <2>4. \A d \in Issuing' : call'[d].sid = call[d].sid /\ d \in Issuing /\ call[d].sid # s
      BY <2>2, <2>3 DEF IInv, OneCurrentToken, Issuing
    <2>5. Owed' = Owed \ {s} /\ s \in Owed
      <3>1. \A d \in Issuing : d \in Issuing' \/ call[d].sid = s
        BY <2>3
      <3> QED BY <2>3, <2>4, <3>1 DEF Owed
    <2>6. Issued' = Issued /\ Current' = Current
      BY <1>1 DEF Issued, Unspent, Current
    <2>7. Phase[s] = "owed" /\ Current[s] = {}
      BY <2>1, <2>5, PhaseIs
    <2>8. Phase'[s] = "broken"
      BY <1>1, <2>1, <2>5, <2>6, <2>7 DEF Phase
    <2>9. Phase' = [Phase EXCEPT ![s] = "broken"]
      BY <1>1, <2>1, <2>5, <2>6, <2>8, PhaseMoves
    <2> QED BY <1>1, <2>1, <2>6, <2>7, <2>9 DEF Rotation!Break, Rotation!Move
  <1> QED BY <1>3, <1>4

\* Sessions end; nothing else moves that the rotation sees.
LEMMA EndingRotation ==
    ASSUME IInv, UNCHANGED <<bundles, used, call>>,
           \A s \in Sessions :
             \/ session'[s] = session[s]
             \/ session[s] = "live" /\ session'[s] \in {"revoked", "expired"}
    PROVE  \E S \in SUBSET Sessions : Rotation!End(S)
  <1> DEFINE S == {s \in Sessions : session[s] = "live" /\ session'[s] # "live"}
  <1>1. Owed' = Owed /\ Issued' = Issued /\ Current' = Current
    BY DEF Owed, Issuing, Issued, Unspent, Current
  <1>2. \A s \in Sessions : (session'[s] = "none") = (session[s] = "none")
    OBVIOUS
  <1>3. Phase' = Phase
    BY <1>1, <1>2 DEF Phase
  <1>4. \A s \in S : Phase[s] # "none"
    BY PhaseIs
  <1>5. EndedNow' = EndedNow \cup S
    BY DEF EndedNow
  <1> QED BY <1>1, <1>3, <1>4, <1>5 DEF Rotation!End, EndedNow

LEMMA RevocationEnds ==
    ASSUME IInv, RevokeSessions \/ \E s \in Sessions : ExpireSession(s)
    PROVE  \E S \in SUBSET Sessions : Rotation!End(S)
  <1>1. UNCHANGED <<bundles, used, call>>
    BY DEF RevokeSessions, ExpireSession
  <1>2. CASE RevokeSessions
    <2>1. \A s \in Sessions : session'[s] = IF session[s] = "live" THEN "revoked" ELSE session[s]
      BY <1>2 DEF RevokeSessions
    <2> QED BY <1>1, <2>1, EndingRotation
  <1>3. ASSUME NEW s \in Sessions, ExpireSession(s) PROVE \E S \in SUBSET Sessions : Rotation!End(S)
    <2>1. session[s] = "live" /\ session' = [session EXCEPT ![s] = "expired"]
      BY <1>3 DEF ExpireSession
    <2>2. \A t \in Sessions : session'[t] = IF t = s THEN "expired" ELSE session[t]
      BY <2>1 DEF IInv, TypeOK
    <2> QED BY <1>1, <2>1, <2>2, EndingRotation
  <1> QED BY <1>2, <1>3

LEMMA InitRotation == Init => Rotation!Init
  <1> SUFFICES ASSUME Init PROVE Rotation!Init
    OBVIOUS
  <1>1. Issued = {} /\ \A s \in Sessions : session[s] = "none"
    BY DEF Init, Issued
  <1> QED BY <1>1 DEF Rotation!Init, Phase, Current, Unspent

LEMMA RotationStep == IInv /\ [Next]_vars => [Rotation!Next]_(Rotation!vars)
  <1> SUFFICES ASSUME IInv, [Next]_vars PROVE [Rotation!Next]_(Rotation!vars)
    OBVIOUS
  <1>1. ASSUME NEW c \in Calls, NEW b \in Issued, NEW kind \in {"refresh", "check"}, Ask(c, kind, b)
        PROVE  UNCHANGED Rotation!vars
    <2>1. call[c].pc = "idle" /\ call' = [call EXCEPT ![c] = Asked(kind, b)] /\ UNCHANGED <<session, bundles, used>>
      BY <1>1 DEF Ask
    <2>2. Asked(kind, b).pc = "user"
      BY DEF Asked
    <2> QED BY <2>1, <2>2, QuietCall
  <1>2. ASSUME NEW c \in Calls, Handle(c) PROVE [Rotation!Next]_(Rotation!vars)
    <2>1. CASE CheckUser(c) \/ CheckSession(c) \/ CheckToken(c)
      BY <2>1, CheckIsQuiet
    <2>2. CASE Rotate(c)
      BY <2>2, RotateExchanges DEF Rotation!Next
    <2>3. CASE Issue(c)
      BY <2>3, IssueHandsOut DEF Rotation!Next
    <2>4. CASE BreakOff(c)
      BY <2>4, EndOfCallRotation DEF Rotation!Next
    <2> QED BY <1>2, <2>1, <2>2, <2>3, <2>4 DEF Handle
  <1>3. ASSUME NEW c \in Calls, Login(c) PROVE Rotation!Next
    BY <1>3, LoginOpens DEF Rotation!Next
  <1>4. ASSUME NEW c \in Calls, Finish(c) PROVE [Rotation!Next]_(Rotation!vars)
    BY <1>4, EndOfCallRotation DEF Rotation!Next
  <1>5. CASE RevokeSessions \/ \E s \in Sessions : ExpireSession(s)
    BY <1>5, RevocationEnds DEF Rotation!Next
  <1>6. CASE UNCHANGED <<session, bundles, used, call>>
    BY <1>6, QuietRotation DEF Issuing
  <1> QED BY <1>1, <1>2, <1>3, <1>4, <1>5, <1>6
          DEF Next, vars, Revoke, RevokeUser, RevokeBreaksOff, Tick

\* The conjunction the theorems below project.
THEOREM SessionInvariant == Spec => []IInv
  BY InitInvariant, StepInvariant, PTL DEF Spec

\* Every state of the session tables and of the requests has the declared types.
THEOREM SessionTypeCorrect == Spec => []TypeOK
  BY SessionInvariant, PTL DEF IInv

\* No session has two refresh tokens to exchange, for any number of requests
\* that bring the same one (the transaction of refreshTokenBundle).
THEOREM ExchangedOnce == Spec => []OneCurrentToken
  BY SessionInvariant, PTL DEF IInv

\* Unless the server breaks off between rotation and issue, a session has a
\* refresh token that can be exchanged (refreshTokenBundle, issueTokenBundle).
THEOREM NeverWithoutToken == Spec => []SessionKeepsToken
  BY SessionInvariant, PTL DEF IInv

\* A validation that begins after revokeUserTokens has returned accepts no token
\* of a session that was there before (validatePayload).
THEOREM RevocationHolds == Spec => []RevokedStaysOut
  BY SessionInvariant, InvariantBars, PTL

\* The requests of any number of processes, transaction by transaction, implement
\* TokenRotation: each token of a session is exchanged at most once, for one that
\* was never handed out, and an ended session stays ended (refreshTokenBundle,
\* issueTokenBundle, revokeUserTokens).
THEOREM RotationRefinement == Spec => RotationImplemented
  BY InitRotation, RotationStep, SessionInvariant, PTL DEF Spec, RotationImplemented, Rotation!Spec
============================================================================
