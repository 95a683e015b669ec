------------------------- MODULE ChatSessionProofs -------------------------
(***************************************************************************)
(* Proofs about the connected client, for any number of concurrent fetches. *)
(* The server's invariant (AuthSessionProofs) is kept by the client's       *)
(* requests.  What is added says what each slot carries for its fetch, that *)
(* nobody else knows a bundle that is still being answered, and who knows   *)
(* the session's current refresh token.                                    *)
(***************************************************************************)
EXTENDS ChatSession, AuthSessionProofs

Refreshes == {"refresh1", "refresh2"}
Requests  == {"request1", "request2"}
Settled   == {"idle", "ok", "denied"}

\* What the request in slot f is for; logins come before any fetch, and a fetch
\* that failed may leave its request to the server.
Slot(f) ==
    /\ fetch[f] \in Refreshes => call[f].kind = "refresh" /\ call[f].pc # "idle"
    /\ fetch[f] \in Requests =>
         call[f].kind = "check" /\ call[f].pc \in {"user", "session", "token", "accepted", "refused"}
    /\ fetch[f] \in Settled => call[f].kind = "login" /\ call[f].pc \in {"idle", "issue", "accepted"}
    /\ fetch[f] = "failed" =>
         \/ call[f].kind = "login" /\ call[f].pc = "idle"
         \/ call[f].kind = "check" /\ call[f].pc \in {"user", "session", "token", "accepted", "refused"}
         \/ call[f].kind = "refresh" /\ call[f].pc # "idle" /\ lost
    /\ fetch[f] # "idle" => latest # 0
    /\ call[f].bundle \in 0 .. Len(bundles)
    /\ call[f].pc = "accepted" => call[f].bundle # 0

\* A bundle that a login or a refresh answers with is unspent, and nobody has it.
NewBundle(f) ==
    call[f].pc = "accepted" /\ call[f].kind # "check" =>
        /\ call[f].bundle \notin used
        /\ call[f].bundle # latest
        /\ \A g \in Calls : g # f => call[g].bundle # call[f].bundle

\* The two tokens in use are of one bundle; the current refresh token is the
\* client's, or a refresh is bringing it.
KnowsCurrent ==
    /\ token = latest
    /\ latest # 0 /\ ~lost =>
         latest \notin used \/ \E f \in InRefresh : call[f].pc \in {"issue", "accepted"}

\* Before the first revocation or expiry all sessions are live.
Unrevoked ==
    ~SessionOver => ~revoking /\ \A s \in Sessions : session[s] \in {"none", "live"}

\* A fetch without a cause to be turned away.
Undisturbed(f) ==
    /\ ~SessionOver /\ fetch[f] = "request2" => call[f].pc # "refused"
    /\ ~SessionOver /\ ~lost /\ ~overlap /\ fetch[f] \in Refreshes =>
         /\ call[f].pc \notin {"refused", "replayed"}
         /\ call[f].pc \in Validating => call[f].bundle \notin used
    /\ ~overlap => \A g \in Calls : fetch[f] \in Refreshes /\ fetch[g] \in Refreshes => f = g

ClientInv ==
    /\ ChatTypeOK /\ KnowsCurrent /\ Unrevoked /\ DeniedForCause
    /\ \A f \in Calls : Slot(f) /\ NewBundle(f) /\ Undisturbed(f)

ChatInv == IInv /\ ClientInv

-----------------------------------------------------------------------------
LEMMA InitClient == ChatInit => ChatInv
  <1> SUFFICES ASSUME ChatInit PROVE ChatInv
    OBVIOUS
  <1>1. IInv
    BY InitInvariant DEF ChatInit
  <1>2. /\ \A f \in Calls : call[f] = NoCall /\ fetch[f] = "idle"
        /\ latest = 0 /\ token = 0 /\ lost = FALSE /\ overlap = FALSE /\ Len(bundles) = 0
        /\ fresh = TRUE /\ stale = FALSE /\ fetch \in [Calls -> FetchSteps]
        /\ validAfter = 0 /\ revoking = FALSE /\ \A s \in Sessions : session[s] = "none"
    BY DEF ChatInit, Init, FetchSteps
  <1>3. NoCall.pc = "idle" /\ NoCall.kind = "login" /\ NoCall.bundle = 0
    BY DEF NoCall
  <1>4. ChatTypeOK
    <2>1. TypeOK
      BY <1>1 DEF IInv
    <2>2. 0 \in 0 .. Len(bundles)
      BY <1>2
    <2> QED BY <1>2, <2>1, <2>2 DEF ChatTypeOK
  <1>5. KnowsCurrent /\ Unrevoked /\ DeniedForCause
    BY <1>2 DEF KnowsCurrent, Unrevoked, SessionOver, DeniedForCause
  <1>6. \A f \in Calls : Slot(f) /\ NewBundle(f) /\ Undisturbed(f)
    <2>1. 0 \in 0 .. Len(bundles)
      BY <1>2
    <2>2. \A f \in Calls : call[f].pc = "idle" /\ call[f].kind = "login" /\ call[f].bundle = 0
      BY <1>2, <1>3
    <2> QED BY <1>2, <2>1, <2>2
        DEF Slot, NewBundle, Undisturbed, SessionOver, Refreshes, Requests, Settled
  <1> QED BY <1>1, <1>4, <1>5, <1>6 DEF ChatInv, ClientInv

-----------------------------------------------------------------------------
(* The server.                                                             *)

\* A step of a validation, and the refusal of a replay: no bundle is spent.
LEMMA ValidationKeeps ==
    ASSUME ChatInv, IInv', NEW c \in Calls, NEW r \in Call,
           call' = [call EXCEPT ![c] = r], call[c].pc \in Validating,
           r.kind = call[c].kind, r.bundle = call[c].bundle,
           r.kind = "check" => r.pc \in {"session", "token", "accepted", "refused"},
           r.kind = "refresh" => r.pc \in {"session", "token", "rotate", "refused", "replayed"},
           ~SessionOver /\ r.kind = "check" => r.pc # "refused",
           ~SessionOver /\ r.bundle \notin used => r.pc \notin {"refused", "replayed"},
           UNCHANGED <<validAfter, session, bundles, used, revoking>>, UNCHANGED clientVars
    PROVE  ChatInv'
  <1>1. call'[c] = r /\ \A d \in Calls \ {c} : call'[d] = call[d]
    BY DEF ChatInv, IInv, TypeOK
  <1>2. UNCHANGED <<latest, token, fresh, stale, fetch, lost, overlap>>
    BY DEF clientVars
  <1>3. InRefresh' = InRefresh /\ (\A f \in Calls : call'[f].bundle = call[f].bundle)
    BY <1>1, <1>2 DEF InRefresh
  <1>4. r.kind # "login" /\ r.pc \notin {"idle", "issue"} /\ r.kind \in {"check", "refresh"}
    BY <1>1 DEF ChatInv, ClientInv, Slot, Validating, Refreshes, Requests, Settled,
               ChatTypeOK, FetchSteps
  <1>5. ChatTypeOK'
    BY <1>2 DEF ChatInv, ClientInv, ChatTypeOK, IInv
  <1>6. KnowsCurrent'
    <2>1. \A f \in InRefresh : call[f].pc \in {"issue", "accepted"} => call'[f].pc \in {"issue", "accepted"}
      BY <1>1 DEF InRefresh, Validating
    <2> QED BY <1>2, <1>3, <2>1 DEF ChatInv, ClientInv, KnowsCurrent
  <1>7. Unrevoked' /\ DeniedForCause'
    BY <1>2 DEF ChatInv, ClientInv, Unrevoked, SessionOver, DeniedForCause
  <1>8. call[c].bundle # 0
    <2>1. call[c].bundle \in Issued
      BY DEF ChatInv, IInv, Provenance, HasBundle
    <2> QED BY <2>1 DEF ChatInv, IInv, TypeOK, Issued
  <1>9. ASSUME NEW f \in Calls PROVE (Slot(f) /\ NewBundle(f) /\ Undisturbed(f))'
    <2>1. Slot(f) /\ NewBundle(f) /\ Undisturbed(f)
      BY DEF ChatInv, ClientInv
    <2>2. Slot(f)'
      <3>1. CASE f = c
        BY <1>1, <1>2, <1>4, <1>8, <2>1, <3>1 DEF Slot, Refreshes, Requests, Settled, Validating
      <3>2. CASE f # c
        BY <1>1, <1>2, <2>1, <3>2 DEF Slot
      <3> QED BY <3>1, <3>2
    <2>3. NewBundle(f)'
      BY <1>1, <1>2, <1>3, <1>4, <2>1 DEF NewBundle
    <2>4. Undisturbed(f)'
      BY <1>1, <1>2, <1>4, <2>1 DEF Undisturbed, SessionOver, Slot, Validating, Refreshes, Requests
    <2> QED BY <2>2, <2>3, <2>4
  <1> QED BY <1>5, <1>6, <1>7, <1>9 DEF ChatInv, ClientInv

LEMMA ServerChecks ==
    ASSUME ChatInv, NEW c \in Calls, CheckUser(c) \/ CheckSession(c) \/ CheckToken(c),
           UNCHANGED clientVars
    PROVE  ChatInv'
  <1>1. IInv'
    BY CheckKeeps DEF ChatInv
  <1>2. /\ call[c].pc \in {"user", "session", "token"}
        /\ UNCHANGED <<validAfter, session, bundles, used, revoking>>
    BY DEF CheckUser, CheckSession, CheckToken
  <1>3. /\ call[c] \in Call /\ call[c].bundle \in Issued /\ call[c].sid = bundles[call[c].bundle].sid
        /\ session[call[c].sid] # "none" /\ bundles[call[c].bundle].iat \in 1 .. MaxTime
        /\ call[c].sid \in Sessions /\ validAfter \in Nat
    <2>1. call[c].bundle \in Issued /\ call[c].sid = bundles[call[c].bundle].sid
      BY <1>2 DEF ChatInv, IInv, Provenance, HasBundle, Validating
    <2>2. bundles[call[c].bundle] \in Bundle
      BY <2>1 DEF ChatInv, IInv, TypeOK, Issued
    <2> QED BY <2>1, <2>2, BoundsAssumption DEF ChatInv, IInv, TypeOK, Provenance, Bundle
  <1>4. PICK pc \in {"session", "token", "accepted", "rotate", "refused"} :
             /\ Goto(c, pc)
             /\ pc = "accepted" => call[c].kind = "check"
             /\ pc = "rotate" => call[c].kind = "refresh"
             /\ ~SessionOver /\ call[c].kind = "check" => pc # "refused"
             /\ ~SessionOver /\ call[c].bundle \notin used => pc # "refused"
    <2>1. CASE CheckUser(c)
      BY <2>1, <1>3, BoundsAssumption DEF CheckUser, SessionOver
    <2>2. CASE CheckSession(c)
      <3>1. ~SessionOver => session[call[c].sid] = "live"
        BY <1>3 DEF ChatInv, ClientInv, Unrevoked, SessionOver
      <3> QED BY <2>2, <3>1 DEF CheckSession
    <2>3. CASE CheckToken(c)
      BY <2>3 DEF CheckToken
    <2> QED BY <2>1, <2>2, <2>3
  <1>5. PICK r \in Call :
             /\ call' = [call EXCEPT ![c] = r]
             /\ r.pc = pc /\ r.kind = call[c].kind /\ r.bundle = call[c].bundle
    BY <1>4, GotoOK DEF ChatInv, IInv, Steps
  <1> QED BY <1>1, <1>2, <1>4, <1>5, ValidationKeeps DEF Validating

\* The rotation: the refresh that spends the token is the one that brings the next.
LEMMA ServerRotates ==
    ASSUME ChatInv, NEW c \in Calls, Rotate(c), UNCHANGED clientVars
    PROVE  ChatInv'
  <1>1. IInv'
    BY RotateKeeps DEF ChatInv
  <1>2. call[c].pc = "rotate" /\ UNCHANGED <<validAfter, session, bundles, revoking>>
    BY DEF Rotate
  <1>3. call[c].kind = "refresh" /\ (fetch[c] \in Refreshes \/ (fetch[c] = "failed" /\ lost))
    <2>0. fetch[c] \in FetchSteps
      BY DEF ChatInv, ClientInv, ChatTypeOK
    <2>1. Slot(c) /\ fetch[c] \in Refreshes \cup Requests \cup Settled \cup {"failed"}
      <3>1. Slot(c)
        BY DEF ChatInv, ClientInv
      <3>2. fetch[c] \in Refreshes \cup Requests \cup Settled \cup {"failed"}
        BY <2>0 DEF FetchSteps, Refreshes, Requests, Settled
      <3> QED BY <3>1, <3>2
    <2>2. CASE fetch[c] \in Refreshes
      BY <2>1, <2>2 DEF Slot
    <2>3. CASE fetch[c] \in Requests \cup Settled
      BY <1>2, <2>1, <2>3 DEF Slot
    <2>4. CASE fetch[c] = "failed"
      BY <1>2, <2>1, <2>4 DEF Slot
    <2> QED BY <2>1, <2>2, <2>3, <2>4
  <1>4. CASE call[c].bundle \in used /\ Goto(c, "replayed") /\ UNCHANGED used
    <2>1. PICK r \in Call :
             /\ call' = [call EXCEPT ![c] = r]
             /\ r.pc = "replayed" /\ r.kind = call[c].kind /\ r.bundle = call[c].bundle
      BY <1>4, GotoOK DEF ChatInv, IInv, Steps
    <2> QED BY <1>1, <1>2, <1>3, <1>4, <2>1, ValidationKeeps DEF Validating
  <1>5. CASE call[c].bundle \notin used /\ used' = used \cup {call[c].bundle} /\ Goto(c, "issue")
    <2>1. PICK r \in Call :
             /\ call' = [call EXCEPT ![c] = r]
             /\ r.pc = "issue" /\ r.kind = call[c].kind /\ r.bundle = call[c].bundle
      BY <1>5, GotoOK DEF ChatInv, IInv, Steps
    <2>2. call'[c] = r /\ \A d \in Calls \ {c} : call'[d] = call[d]
      BY <2>1 DEF ChatInv, IInv, TypeOK
    <2>3. UNCHANGED <<latest, token, fresh, stale, fetch, lost, overlap>>
      BY DEF clientVars
    <2>4. ChatTypeOK'
      BY <1>1, <1>2, <2>3 DEF ChatInv, ClientInv, ChatTypeOK, IInv
    <2>5. KnowsCurrent'
      <3>1. fetch[c] \in Refreshes => c \in InRefresh' /\ call'[c].pc = "issue"
        BY <1>3, <2>1, <2>2, <2>3 DEF InRefresh, Refreshes
      <3> QED BY <1>3, <2>3, <3>1 DEF ChatInv, ClientInv, KnowsCurrent
    <2>6. Unrevoked' /\ DeniedForCause'
      BY <1>2, <2>3 DEF ChatInv, ClientInv, Unrevoked, SessionOver, DeniedForCause
    <2>7. ASSUME NEW f \in Calls PROVE (Slot(f) /\ NewBundle(f) /\ Undisturbed(f))'
      <3>1. Slot(f) /\ NewBundle(f) /\ Undisturbed(f) /\ Undisturbed(c)
        BY DEF ChatInv, ClientInv
      <3>2. Slot(f)'
        BY <1>2, <1>3, <2>1, <2>2, <2>3, <3>1 DEF Slot, Refreshes, Requests, Settled
      <3>3. NewBundle(f)'
        BY <1>2, <1>5, <2>1, <2>2, <2>3, <3>1 DEF NewBundle
      <3>4. Undisturbed(f)'
        <4>1. CASE f = c
          BY <1>2, <1>3, <2>1, <2>2, <2>3, <3>1, <4>1 DEF Undisturbed, SessionOver, Validating, Refreshes
        <4>2. CASE f # c
          BY <1>2, <1>3, <2>2, <2>3, <3>1, <4>2 DEF Undisturbed, SessionOver
        <4> QED BY <4>1, <4>2
      <3> QED BY <3>2, <3>3, <3>4
    <2> QED BY <1>1, <2>4, <2>5, <2>6, <2>7 DEF ChatInv, ClientInv
  <1> QED BY <1>4, <1>5 DEF Rotate

\* A login comes before the client has any token.
LEMMA ServerLogs ==
    ASSUME ChatInv, NEW c \in Calls, latest = 0, Login(c), UNCHANGED clientVars
    PROVE  ChatInv'
  <1>1. IInv'
    BY LoginKeeps DEF ChatInv
  <1>2. PICK s \in Sessions :
             /\ session[s] = "none" /\ session' = [session EXCEPT ![s] = "live"]
             /\ call' = [call EXCEPT ![c] = [pc |-> "issue", kind |-> "login", bundle |-> 0,
                                             sid |-> s, barred |-> barred]]
    BY DEF Login
  <1>3. call[c].pc = "idle" /\ UNCHANGED <<validAfter, bundles, used, revoking>>
    BY DEF Login
  <1>4. /\ call'[c].pc = "issue" /\ call'[c].kind = "login" /\ call'[c].bundle = 0
        /\ \A d \in Calls \ {c} : call'[d] = call[d]
    BY <1>2 DEF ChatInv, IInv, TypeOK
  <1>5. session'[s] = "live" /\ \A x \in Sessions \ {s} : session'[x] = session[x]
    BY <1>2 DEF ChatInv, IInv, TypeOK
  <1>6. UNCHANGED <<latest, token, fresh, stale, fetch, lost, overlap>>
    BY DEF clientVars
  <1>7. ChatTypeOK'
    BY <1>1, <1>3, <1>6 DEF ChatInv, ClientInv, ChatTypeOK, IInv
  <1>8. KnowsCurrent' /\ Unrevoked' /\ DeniedForCause'
    <2>1. SessionOver => SessionOver'
      BY <1>2, <1>3, <1>5 DEF SessionOver
    <2>2. KnowsCurrent'
      <3>1. ~(latest' # 0)
        BY <1>6
      <3> QED BY <1>6, <3>1 DEF ChatInv, ClientInv, KnowsCurrent
    <2>3. Unrevoked' /\ DeniedForCause'
      BY <1>3, <1>5, <1>6, <2>1 DEF ChatInv, ClientInv, Unrevoked, DeniedForCause
    <2> QED BY <2>2, <2>3
  <1>9. Len(bundles) \in Nat
    BY DEF ChatInv, IInv, TypeOK
  <1>10. ASSUME NEW f \in Calls PROVE (Slot(f) /\ NewBundle(f) /\ Undisturbed(f))'
    <2>1. Slot(f) /\ NewBundle(f) /\ Undisturbed(f) /\ Slot(c)
      BY DEF ChatInv, ClientInv
    <2>2. fetch[f] = "idle" /\ fetch[c] = "idle"
      BY <2>1 DEF Slot
    <2>3. Slot(f)'
      BY <1>3, <1>4, <1>6, <1>9, <2>1, <2>2 DEF Slot, Refreshes, Requests, Settled
    <2>4. NewBundle(f)'
      <3>1. CASE f = c
        BY <1>4, <3>1 DEF NewBundle
      <3>2. CASE f # c
        BY <1>3, <1>4, <1>6, <2>1, <3>2 DEF NewBundle, Slot
      <3> QED BY <3>1, <3>2
    <2>5. Undisturbed(f)'
      BY <1>6, <2>1, <2>2 DEF Undisturbed, SessionOver, Refreshes
    <2> QED BY <2>3, <2>4, <2>5
  <1> QED BY <1>1, <1>7, <1>8, <1>10 DEF ChatInv, ClientInv

LEMMA ServerIssues ==
    ASSUME ChatInv, NEW c \in Calls, Issue(c), UNCHANGED clientVars
    PROVE  ChatInv'
  <1> DEFINE n == Len(bundles) + 1
             r == [call[c] EXCEPT !.pc = "accepted", !.bundle = n]
  <1>1. IInv'
    BY IssueKeeps DEF ChatInv
  <1>2. /\ call[c].pc = "issue" /\ call' = [call EXCEPT ![c] = r]
        /\ bundles' = Append(bundles, [sid |-> call[c].sid, iat |-> clock])
        /\ UNCHANGED <<validAfter, session, used, revoking>>
    BY DEF Issue
  <1>3. r.pc = "accepted" /\ r.bundle = n /\ r.kind = call[c].kind
    <2>1. call[c] \in Call
      BY DEF ChatInv, IInv, TypeOK
    <2> QED BY <2>1 DEF Call
  <1>4. Len(bundles) \in Nat /\ Len(bundles') = n /\ n \notin used
    <2>1. bundles \in Seq(Bundle) /\ used \subseteq Issued
      BY DEF ChatInv, IInv, TypeOK
    <2>2. Len(bundles) \in Nat /\ Issued = 1 .. Len(bundles) /\ Len(bundles') = n
      BY <1>2, <2>1 DEF Issued
    <2> QED BY <2>1, <2>2
  <1>5. call'[c] = r /\ \A d \in Calls \ {c} : call'[d] = call[d]
    BY <1>2 DEF ChatInv, IInv, TypeOK
  <1> HIDE DEF r
  <1>6. UNCHANGED <<latest, token, fresh, stale, fetch, lost, overlap>>
    BY DEF clientVars
  <1>7. ChatTypeOK'
    BY <1>1, <1>4, <1>6 DEF ChatInv, ClientInv, ChatTypeOK, IInv
  <1>8. KnowsCurrent'
    <2>1. InRefresh' = InRefresh
      BY <1>6 DEF InRefresh
    <2>2. \A f \in InRefresh : call[f].pc \in {"issue", "accepted"} => call'[f].pc \in {"issue", "accepted"}
      BY <1>3, <1>5 DEF InRefresh
    <2> QED BY <1>2, <1>6, <2>1, <2>2 DEF ChatInv, ClientInv, KnowsCurrent
  <1>9. Unrevoked' /\ DeniedForCause'
    BY <1>2, <1>6 DEF ChatInv, ClientInv, Unrevoked, SessionOver, DeniedForCause
  <1>10. latest # n /\ \A g \in Calls : call[g].bundle # n
    BY <1>4 DEF ChatInv, ClientInv, ChatTypeOK, Slot
  <1>11. ASSUME NEW f \in Calls PROVE (Slot(f) /\ NewBundle(f) /\ Undisturbed(f))'
    <2>1. Slot(f) /\ NewBundle(f) /\ Undisturbed(f)
      BY DEF ChatInv, ClientInv
    <2>2. Slot(f)'
      BY <1>2, <1>3, <1>4, <1>5, <1>6, <2>1 DEF Slot, Refreshes, Requests, Settled
    <2>3. NewBundle(f)'
      <3>1. CASE f = c
        BY <1>2, <1>3, <1>4, <1>5, <1>6, <1>10, <3>1 DEF NewBundle
      <3>2. CASE f # c
        BY <1>2, <1>3, <1>5, <1>6, <1>10, <2>1, <3>2 DEF NewBundle
      <3> QED BY <3>1, <3>2
    <2>4. Undisturbed(f)'
      BY <1>2, <1>3, <1>5, <1>6, <2>1 DEF Undisturbed, SessionOver, Validating
    <2> QED BY <2>2, <2>3, <2>4
  <1> QED BY <1>1, <1>7, <1>8, <1>9, <1>11 DEF ChatInv, ClientInv

-----------------------------------------------------------------------------
(* The client.                                                             *)

\* A client's request, or the end of one, changes its own slot and keeps the
\* server's invariant.
LEMMA ClientSends ==
    ASSUME ChatInv, NEW f \in Calls, NEW r \in Call, Send(f, r),
           call[f].pc \in {"idle", "accepted", "refused", "replayed"},
           r.pc \in {"idle", "user", "refused"},
           r.pc # "idle" => r.bundle \in Issued /\ r.sid = bundles[r.bundle].sid,
           r.barred \subseteq barred
    PROVE  /\ IInv'
           /\ call'[f] = r /\ \A d \in Calls \ {f} : call'[d] = call[d]
           /\ UNCHANGED <<validAfter, session, bundles, used, revoking>>
  <1>1. call' = [call EXCEPT ![f] = r]
        /\ UNCHANGED <<clock, validAfter, session, bundles, used, revoking, known, barred, broken>>
    BY DEF Send
  <1>2. IInv
    BY DEF ChatInv
  <1>3. broken' \in BOOLEAN
    BY <1>1, <1>2 DEF IInv, TypeOK
  <1>4. IInv'
    BY <1>1, <1>2, <1>3, QuietStep DEF Validating, Validated
  <1> QED BY <1>1, <1>2, <1>4 DEF IInv, TypeOK

LEMMA ClientCloses ==
    ASSUME ChatInv, NEW f \in Calls, Close(f),
           call[f].pc \in {"accepted", "refused", "replayed"}
    PROVE  /\ IInv'
           /\ call'[f] = NoCall /\ \A d \in Calls \ {f} : call'[d] = call[d]
           /\ UNCHANGED <<validAfter, session, bundles, used, revoking>>
           /\ NoCall.pc = "idle" /\ NoCall.kind = "login" /\ NoCall.bundle = 0
  <1>1. Send(f, NoCall)
    BY DEF Close, Send
  <1>2. NoCall.pc = "idle" /\ NoCall.kind = "login" /\ NoCall.bundle = 0 /\ NoCall.barred = {}
    BY DEF NoCall
  <1> HIDE DEF NoCall
  <1> QED BY <1>1, <1>2, NoCallOK, ClientSends

LEMMA RefreshRequest ==
    ASSUME ChatInv, NEW b \in Issued
    PROVE  LET r == Asked("refresh", b) IN
           /\ r \in Call /\ r.pc = "user" /\ r.kind = "refresh" /\ r.bundle = b
           /\ r.sid = bundles[b].sid /\ r.barred = barred
  <1>1. bundles[b] \in Bundle /\ b \in BundleIds
    BY BoundsAssumption DEF ChatInv, IInv, TypeOK, Issued, BundleIds
  <1> QED BY <1>1, BoundsAssumption
      DEF ChatInv, IInv, TypeOK, Asked, Call, Steps, Bundle, Sessions, BundleIds

LEMMA CheckRequest ==
    ASSUME ChatInv, NEW b \in Issued, NEW expired \in BOOLEAN
    PROVE  LET r == Request(b, expired) IN
           /\ r \in Call /\ r.kind = "check" /\ r.bundle = b
           /\ r.pc = (IF expired THEN "refused" ELSE "user")
           /\ r.sid = bundles[b].sid /\ r.barred = barred
  <1>1. bundles[b] \in Bundle /\ b \in BundleIds
    BY BoundsAssumption DEF ChatInv, IInv, TypeOK, Issued, BundleIds
  <1> DEFINE q == Asked("check", b)
             pc == IF expired THEN "refused" ELSE "user"
             r == [q EXCEPT !.pc = pc]
  <1>2. /\ q \in Call /\ q.kind = "check" /\ q.bundle = b
        /\ q.sid = bundles[b].sid /\ q.barred = barred
    BY <1>1, BoundsAssumption
    DEF ChatInv, IInv, TypeOK, Asked, Call, Steps, Bundle, Sessions, BundleIds
  <1> HIDE DEF q
  <1>3. pc \in Steps
    BY DEF Steps
  <1>4. /\ r \in Call /\ r.kind = q.kind /\ r.bundle = q.bundle
        /\ r.pc = pc /\ r.sid = q.sid /\ r.barred = q.barred
    BY <1>2, <1>3 DEF Call
  <1>5. r = Request(b, expired)
    BY DEF Request, q
  <1> HIDE DEF r, pc
  <1> QED BY <1>2, <1>4, <1>5 DEF pc

\* A fetch ends; what its refresh brought may be lost with it.
LEMMA EndKeeps ==
    ASSUME ChatInv, NEW f \in Calls, NEW step \in {"ok", "denied"}, To(f, step), Close(f),
           fetch[f] \in Refreshes \cup Requests,
           call[f].pc \in {"accepted", "refused", "replayed"},
           UNCHANGED <<latest, token, fresh, stale, overlap>>,
           lost' \in BOOLEAN, lost => lost',
           fetch[f] \in Refreshes /\ call[f].pc = "accepted" => lost',
           step = "denied" => lost' \/ SessionOver \/ overlap
    PROVE  ChatInv'
  <1>1. /\ IInv'
        /\ call'[f] = NoCall /\ \A d \in Calls \ {f} : call'[d] = call[d]
        /\ UNCHANGED <<validAfter, session, bundles, used, revoking>>
        /\ NoCall.pc = "idle" /\ NoCall.kind = "login" /\ NoCall.bundle = 0
    BY ClientCloses
  <1> HIDE DEF NoCall
  <1>2. /\ fetch' \in [Calls -> FetchSteps] /\ fetch'[f] = step
        /\ \A d \in Calls \ {f} : fetch'[d] = fetch[d]
    BY DEF To, ChatInv, ClientInv, ChatTypeOK, FetchSteps
  <1>3. ChatTypeOK'
    BY <1>1, <1>2 DEF ChatInv, ClientInv, ChatTypeOK, IInv
  <1>4. KnowsCurrent'
    <2>1. \A d \in InRefresh : d # f => d \in InRefresh' /\ call'[d] = call[d]
      BY <1>1, <1>2 DEF InRefresh
    <2>2. ~lost' /\ f \in InRefresh => call[f].pc \notin {"issue", "accepted"}
      BY DEF InRefresh, Refreshes
    <2> QED BY <1>1, <2>1, <2>2 DEF ChatInv, ClientInv, KnowsCurrent
  <1>5. Unrevoked'
    BY <1>1 DEF ChatInv, ClientInv, Unrevoked, SessionOver
  <1>6. DeniedForCause'
    BY <1>1, <1>2 DEF ChatInv, ClientInv, DeniedForCause, SessionOver
  <1>7. latest # 0 /\ Len(bundles) \in Nat
    BY DEF ChatInv, ClientInv, Slot, Refreshes, Requests, IInv, TypeOK
  <1>8. ASSUME NEW d \in Calls PROVE (Slot(d) /\ NewBundle(d) /\ Undisturbed(d))'
    <2>1. Slot(d) /\ NewBundle(d) /\ Undisturbed(d)
      BY DEF ChatInv, ClientInv
    <2>2. Slot(d)'
      <3>1. CASE d = f
        BY <1>1, <1>2, <1>7, <3>1 DEF Slot, Refreshes, Requests, Settled
      <3>2. CASE d # f
        BY <1>1, <1>2, <2>1, <3>2 DEF Slot
      <3> QED BY <3>1, <3>2
    <2>3. NewBundle(d)'
      <3>1. CASE d = f
        BY <1>1, <3>1 DEF NewBundle
      <3>2. CASE d # f
        BY <1>1, <2>1, <3>2 DEF NewBundle, Slot
      <3> QED BY <3>1, <3>2
    <2>4. Undisturbed(d)'
      <3>1. CASE d = f
        BY <1>2, <3>1 DEF Undisturbed, SessionOver, Refreshes
      <3>2. CASE d # f
        BY <1>1, <1>2, <2>1, <3>2 DEF Undisturbed, SessionOver, Refreshes
      <3> QED BY <3>1, <3>2
    <2> QED BY <2>2, <2>3, <2>4
  <1> QED BY <1>1, <1>3, <1>4, <1>5, <1>6, <1>8 DEF ChatInv, ClientInv

LEMMA EndsKeep ==
    ASSUME ChatInv, NEW f \in Calls, RefreshDenied(f) \/ Answered(f)
    PROVE  ChatInv'
  <1>1. lost \in BOOLEAN
    BY DEF ChatInv, ClientInv, ChatTypeOK
  <1>2. CASE RefreshDenied(f)
    <2>1. Undisturbed(f)
      BY DEF ChatInv, ClientInv
    <2>2. lost' = lost /\ (lost' \/ SessionOver \/ overlap)
      BY <1>2, <2>1 DEF RefreshDenied, Refused, Undisturbed, Refreshes
    <2> QED BY <1>1, <1>2, <2>2, EndKeeps DEF RefreshDenied, Refused, Refreshes
  <1>3. CASE Answered(f)
    BY <1>1, <1>3, EndKeeps DEF Answered, Accepted, Refreshes, Requests
  <1> QED BY <1>2, <1>3

\* A fetch fails and leaves its request to the server, which may go on with it;
\* if it is a refresh, the token it spends is lost.
LEMMA AbandonKeeps ==
    ASSUME ChatInv, NEW f \in Calls, AnswerLost(f) \/ RequestFails(f)
    PROVE  ChatInv'
  <1>1. /\ fetch[f] \in Refreshes \cup Requests /\ To(f, "failed") /\ UNCHANGED vars
        /\ UNCHANGED <<latest, token, fresh, stale, overlap>>
        /\ lost' \in BOOLEAN /\ (lost => lost') /\ (fetch[f] \in Refreshes => lost')
    BY DEF AnswerLost, RequestFails, Refreshes, Requests, ChatInv, ClientInv, ChatTypeOK
  <1>2. UNCHANGED <<clock, validAfter, session, bundles, used, revoking, known, barred, call, broken>>
    BY <1>1 DEF vars
  <1>3. IInv'
    BY <1>1, StepInvariant DEF ChatInv
  <1>4. /\ fetch' \in [Calls -> FetchSteps] /\ fetch'[f] = "failed"
        /\ \A d \in Calls \ {f} : fetch'[d] = fetch[d]
    BY <1>1 DEF To, ChatInv, ClientInv, ChatTypeOK, FetchSteps
  <1>5. ChatTypeOK'
    BY <1>1, <1>2, <1>3, <1>4 DEF ChatInv, ClientInv, ChatTypeOK, IInv
  <1>6. KnowsCurrent'
    <2>1. \A d \in InRefresh : d # f => d \in InRefresh'
      BY <1>4 DEF InRefresh
    <2>2. ~lost' => f \notin InRefresh
      BY <1>1 DEF InRefresh, Refreshes
    <2> QED BY <1>1, <1>2, <2>1, <2>2 DEF ChatInv, ClientInv, KnowsCurrent
  <1>7. Unrevoked' /\ DeniedForCause'
    BY <1>1, <1>2, <1>4 DEF ChatInv, ClientInv, Unrevoked, DeniedForCause, SessionOver
  <1>8. ASSUME NEW d \in Calls PROVE (Slot(d) /\ NewBundle(d) /\ Undisturbed(d))'
    <2>1. Slot(d) /\ NewBundle(d) /\ Undisturbed(d)
      BY DEF ChatInv, ClientInv
    <2>2. Slot(d)'
      <3>1. CASE d = f
        BY <1>1, <1>2, <1>4, <2>1, <3>1 DEF Slot, Refreshes, Requests, Settled
      <3>2. CASE d # f
        BY <1>1, <1>2, <1>4, <2>1, <3>2 DEF Slot
      <3> QED BY <3>1, <3>2
    <2>3. NewBundle(d)'
      BY <1>1, <1>2, <2>1 DEF NewBundle
    <2>4. Undisturbed(d)'
      BY <1>1, <1>2, <1>4, <2>1 DEF Undisturbed, Refreshes, SessionOver
    <2> QED BY <2>2, <2>3, <2>4
  <1> QED BY <1>3, <1>5, <1>6, <1>7, <1>8 DEF ChatInv, ClientInv

\* The server breaks off, and with it the fetch; nothing is spent unless the
\* rotation was over.
LEMMA ServerFailsKeeps ==
    ASSUME ChatInv, NEW f \in Calls, ServerFails(f)
    PROVE  ChatInv'
  <1>1. /\ fetch[f] \in Refreshes \cup Requests /\ To(f, "failed") /\ BreakOff(f)
        /\ UNCHANGED <<latest, token, fresh, stale, overlap>>
        /\ lost' \in BOOLEAN /\ (lost => lost') /\ (call[f].pc = "issue" => lost')
    BY DEF ServerFails, Refreshes, Requests, ChatInv, ClientInv, ChatTypeOK
  <1>2. /\ call[f].pc # "accepted" /\ call' = [call EXCEPT ![f] = NoCall]
        /\ UNCHANGED <<validAfter, session, bundles, used, revoking>>
    BY <1>1 DEF BreakOff
  <1>3. IInv'
    BY <1>1, EndCallKeeps DEF ChatInv
  <1>4. call'[f] = NoCall /\ \A d \in Calls \ {f} : call'[d] = call[d]
    BY <1>2 DEF ChatInv, IInv, TypeOK
  <1>5. NoCall.pc = "idle" /\ NoCall.kind = "login" /\ NoCall.bundle = 0
    BY DEF NoCall
  <1> HIDE DEF NoCall
  <1>6. /\ fetch' \in [Calls -> FetchSteps] /\ fetch'[f] = "failed"
        /\ \A d \in Calls \ {f} : fetch'[d] = fetch[d]
    BY <1>1 DEF To, ChatInv, ClientInv, ChatTypeOK, FetchSteps
  <1>7. ChatTypeOK'
    BY <1>1, <1>2, <1>3, <1>6 DEF ChatInv, ClientInv, ChatTypeOK, IInv
  <1>8. KnowsCurrent'
    <2>1. \A d \in InRefresh : d # f => d \in InRefresh' /\ call'[d] = call[d]
      BY <1>4, <1>6 DEF InRefresh
    <2>2. ~lost' => call[f].pc \notin {"issue", "accepted"}
      BY <1>1, <1>2
    <2> QED BY <1>1, <1>2, <2>1, <2>2 DEF ChatInv, ClientInv, KnowsCurrent
  <1>9. Unrevoked' /\ DeniedForCause'
    BY <1>1, <1>2, <1>6 DEF ChatInv, ClientInv, Unrevoked, DeniedForCause, SessionOver
  <1>10. latest # 0 /\ Len(bundles) \in Nat
    BY <1>1 DEF ChatInv, ClientInv, Slot, Refreshes, Requests, IInv, TypeOK
  <1>11. ASSUME NEW d \in Calls PROVE (Slot(d) /\ NewBundle(d) /\ Undisturbed(d))'
    <2>1. Slot(d) /\ NewBundle(d) /\ Undisturbed(d)
      BY DEF ChatInv, ClientInv
    <2>2. Slot(d)'
      <3>1. CASE d = f
        BY <1>1, <1>2, <1>4, <1>5, <1>6, <1>10, <3>1 DEF Slot, Refreshes, Requests, Settled
      <3>2. CASE d # f
        BY <1>1, <1>2, <1>4, <1>6, <2>1, <3>2 DEF Slot
      <3> QED BY <3>1, <3>2
    <2>3. NewBundle(d)'
      <3>1. CASE d = f
        BY <1>4, <1>5, <3>1 DEF NewBundle
      <3>2. CASE d # f
        BY <1>1, <1>2, <1>4, <1>5, <2>1, <3>2 DEF NewBundle, Slot
      <3> QED BY <3>1, <3>2
    <2>4. Undisturbed(d)'
      <3>1. CASE d = f
        BY <1>6, <3>1 DEF Undisturbed, Refreshes
      <3>2. CASE d # f
        BY <1>1, <1>2, <1>4, <1>6, <2>1, <3>2 DEF Undisturbed, Refreshes, SessionOver
      <3> QED BY <3>1, <3>2
    <2> QED BY <2>2, <2>3, <2>4
  <1> QED BY <1>3, <1>7, <1>8, <1>9, <1>11 DEF ChatInv, ClientInv

\* A refresh begins with the client's refresh token, which is the current one
\* unless an answer was lost or another refresh is under way.
LEMMA RefreshKeeps ==
    ASSUME ChatInv, NEW f \in Calls, NEW step \in Refreshes, StartRefresh(f, step),
           latest # 0, fetch[f] \notin Refreshes, call[f].pc \in {"idle", "refused", "replayed"},
           UNCHANGED <<latest, token, fresh, stale, lost>>
    PROVE  ChatInv'
  <1> DEFINE r == Asked("refresh", latest)
  <1>1. To(f, step) /\ Send(f, r) /\ overlap' = (overlap \/ InRefresh # {})
    BY DEF StartRefresh
  <1>2. latest \in Issued /\ latest \in 0 .. Len(bundles)
    BY DEF ChatInv, ClientInv, ChatTypeOK, IInv, TypeOK, Issued
  <1>3. /\ r \in Call /\ r.pc = "user" /\ r.kind = "refresh" /\ r.bundle = latest
        /\ r.sid = bundles[latest].sid /\ r.barred = barred
    BY <1>2, RefreshRequest
  <1> HIDE DEF r
  <1>4. /\ IInv'
        /\ call'[f] = r /\ \A d \in Calls \ {f} : call'[d] = call[d]
        /\ UNCHANGED <<validAfter, session, bundles, used, revoking>>
    BY <1>1, <1>2, <1>3, ClientSends
  <1>5. /\ fetch' \in [Calls -> FetchSteps] /\ fetch'[f] = step
        /\ \A d \in Calls \ {f} : fetch'[d] = fetch[d]
    BY <1>1 DEF To, ChatInv, ClientInv, ChatTypeOK, FetchSteps, Refreshes
  <1>6. overlap' \in BOOLEAN
    BY <1>1 DEF ChatInv, ClientInv, ChatTypeOK
  <1>7. ChatTypeOK'
    BY <1>4, <1>5, <1>6 DEF ChatInv, ClientInv, ChatTypeOK, IInv
  <1>8. KnowsCurrent'
    <2>1. \A d \in InRefresh : d \in InRefresh' /\ call'[d] = call[d]
      BY <1>4, <1>5 DEF InRefresh, Refreshes
    <2> QED BY <1>4, <2>1 DEF ChatInv, ClientInv, KnowsCurrent
  <1>9. Unrevoked'
    BY <1>4 DEF ChatInv, ClientInv, Unrevoked, SessionOver
  <1>10. DeniedForCause'
    BY <1>1, <1>4, <1>5 DEF ChatInv, ClientInv, DeniedForCause, SessionOver, Refreshes
  <1>11. ~overlap' => ~overlap /\ \A d \in Calls : fetch[d] \notin Refreshes
    BY <1>1 DEF InRefresh, Refreshes
  <1>12. ~overlap' /\ ~lost => latest \notin used
    BY <1>11 DEF ChatInv, ClientInv, KnowsCurrent, InRefresh, Refreshes
  <1>13. ASSUME NEW d \in Calls PROVE (Slot(d) /\ NewBundle(d) /\ Undisturbed(d))'
    <2>1. Slot(d) /\ NewBundle(d) /\ Undisturbed(d)
      BY DEF ChatInv, ClientInv
    <2>2. Slot(d)'
      <3>1. CASE d = f
        BY <1>2, <1>3, <1>4, <1>5, <3>1 DEF Slot, Refreshes, Requests, Settled
      <3>2. CASE d # f
        BY <1>4, <1>5, <2>1, <3>2 DEF Slot
      <3> QED BY <3>1, <3>2
    <2>3. NewBundle(d)'
      <3>1. CASE d = f
        BY <1>3, <1>4, <3>1 DEF NewBundle
      <3>2. CASE d # f
        BY <1>3, <1>4, <2>1, <3>2 DEF NewBundle
      <3> QED BY <3>1, <3>2
    <2>4. Undisturbed(d)'
      <3>1. CASE d = f
        BY <1>3, <1>4, <1>5, <1>11, <1>12, <3>1 DEF Undisturbed, SessionOver, Refreshes, Validating
      <3>2. CASE d # f
        BY <1>4, <1>5, <1>11, <2>1, <3>2 DEF Undisturbed, SessionOver, Refreshes
      <3> QED BY <3>1, <3>2
    <2> QED BY <2>2, <2>3, <2>4
  <1> QED BY <1>4, <1>7, <1>8, <1>9, <1>10, <1>13 DEF ChatInv, ClientInv

\* A request goes out with the token in use.
LEMMA FetchKeeps ==
    ASSUME ChatInv, NEW f \in Calls, BeginFetch(f)
    PROVE  ChatInv'
  <1>1. /\ latest # 0 /\ fetch[f] = "idle" /\ call[f].pc = "idle"
        /\ UNCHANGED <<latest, token, fresh, stale, lost>>
    BY DEF BeginFetch
  <1>2. CASE StartRefresh(f, "refresh1")
    BY <1>1, <1>2, RefreshKeeps DEF Refreshes
  <1>3. CASE To(f, "request1") /\ Send(f, Request(token, stale)) /\ UNCHANGED overlap
    <2> DEFINE r == Request(token, stale)
    <2>1. token \in Issued /\ token \in 0 .. Len(bundles) /\ stale \in BOOLEAN
      BY <1>1 DEF ChatInv, ClientInv, ChatTypeOK, KnowsCurrent, IInv, TypeOK, Issued
    <2>2. /\ r \in Call /\ r.kind = "check" /\ r.bundle = token
          /\ r.pc \in {"user", "refused"}
          /\ r.sid = bundles[token].sid /\ r.barred = barred
      BY <2>1, CheckRequest
    <2> HIDE DEF r
    <2>3. /\ IInv'
          /\ call'[f] = r /\ \A d \in Calls \ {f} : call'[d] = call[d]
          /\ UNCHANGED <<validAfter, session, bundles, used, revoking>>
      BY <1>1, <1>3, <2>1, <2>2, ClientSends DEF r
    <2>4. /\ fetch' \in [Calls -> FetchSteps] /\ fetch'[f] = "request1"
          /\ \A d \in Calls \ {f} : fetch'[d] = fetch[d]
      BY <1>3 DEF To, ChatInv, ClientInv, ChatTypeOK, FetchSteps
    <2>5. ChatTypeOK'
      BY <1>1, <1>3, <2>3, <2>4 DEF ChatInv, ClientInv, ChatTypeOK, IInv
    <2>6. KnowsCurrent'
      <3>1. \A d \in InRefresh : d \in InRefresh' /\ call'[d] = call[d]
        BY <1>1, <2>3, <2>4 DEF InRefresh
      <3> QED BY <1>1, <2>3, <3>1 DEF ChatInv, ClientInv, KnowsCurrent
    <2>7. Unrevoked' /\ DeniedForCause'
      BY <1>1, <1>3, <2>3, <2>4 DEF ChatInv, ClientInv, Unrevoked, SessionOver, DeniedForCause
    <2>8. ASSUME NEW d \in Calls PROVE (Slot(d) /\ NewBundle(d) /\ Undisturbed(d))'
      <3>1. Slot(d) /\ NewBundle(d) /\ Undisturbed(d)
        BY DEF ChatInv, ClientInv
      <3>2. CASE d = f
        <4>1. Slot(d)'
          BY <1>1, <2>1, <2>2, <2>3, <2>4, <3>2 DEF Slot, Refreshes, Requests, Settled
        <4>2. NewBundle(d)' /\ Undisturbed(d)'
          BY <2>2, <2>3, <2>4, <3>2 DEF NewBundle, Undisturbed, SessionOver, Refreshes
        <4> QED BY <4>1, <4>2
      <3>3. CASE d # f
        <4>1. Slot(d)'
          BY <1>1, <2>3, <2>4, <3>1, <3>3 DEF Slot
        <4>2. NewBundle(d)'
          BY <1>1, <2>2, <2>3, <3>1, <3>3 DEF NewBundle, ChatInv, ClientInv, KnowsCurrent
        <4>3. Undisturbed(d)'
          BY <1>1, <1>3, <2>3, <2>4, <3>1, <3>3 DEF Undisturbed, SessionOver, Refreshes
        <4> QED BY <4>1, <4>2, <4>3
      <3> QED BY <3>2, <3>3
    <2> QED BY <2>3, <2>5, <2>6, <2>7, <2>8 DEF ChatInv, ClientInv
  <1> QED BY <1>2, <1>3 DEF BeginFetch

\* The answer to a refresh is the current token again, whichever refresh it was.
LEMMA RefreshedKeeps ==
    ASSUME ChatInv, NEW f \in Calls, Refreshed(f)
    PROVE  ChatInv'
  <1> DEFINE n == call[f].bundle
             r == Request(n, FALSE)
             step == IF fetch[f] = "refresh1" THEN "request1" ELSE "request2"
  <1>1. /\ fetch[f] \in Refreshes /\ call[f].pc = "accepted"
        /\ latest' = n /\ token' = n /\ fresh' = TRUE /\ stale' = FALSE
        /\ To(f, step) /\ UNCHANGED <<lost, overlap>>
    BY DEF Refreshed, Accepted, Refreshes
  <1>2. Slot(f) /\ NewBundle(f)
    BY DEF ChatInv, ClientInv
  <1>3. /\ n \in 0 .. Len(bundles) /\ n # 0 /\ n \in Issued /\ n \notin used /\ n # latest
        /\ \A d \in Calls \ {f} : call[d].bundle # n
    BY <1>1, <1>2 DEF Slot, NewBundle, Refreshes, ChatInv, IInv, TypeOK, Issued
  <1>4. Send(f, r)
    BY <1>1 DEF Refreshed
  <1>5. /\ r \in Call /\ r.kind = "check" /\ r.bundle = n /\ r.pc = "user"
        /\ r.sid = bundles[n].sid /\ r.barred = barred
    BY <1>3, CheckRequest
  <1>6. step \in Requests
    BY DEF Requests
  <1> HIDE DEF r, n, step
  <1>7. /\ IInv'
        /\ call'[f] = r /\ \A d \in Calls \ {f} : call'[d] = call[d]
        /\ UNCHANGED <<validAfter, session, bundles, used, revoking>>
    BY <1>1, <1>3, <1>4, <1>5, ClientSends
  <1>8. /\ fetch' \in [Calls -> FetchSteps] /\ fetch'[f] = step
        /\ \A d \in Calls \ {f} : fetch'[d] = fetch[d]
    BY <1>1, <1>6 DEF To, ChatInv, ClientInv, ChatTypeOK, FetchSteps, Requests
  <1>9. ChatTypeOK'
    BY <1>1, <1>3, <1>7, <1>8 DEF ChatInv, ClientInv, ChatTypeOK, IInv
  <1>10. KnowsCurrent'
    BY <1>1, <1>3, <1>7 DEF KnowsCurrent
  <1>11. Unrevoked'
    BY <1>7 DEF ChatInv, ClientInv, Unrevoked, SessionOver
  <1>12. DeniedForCause'
    BY <1>1, <1>6, <1>7, <1>8 DEF ChatInv, ClientInv, DeniedForCause, SessionOver, Requests
  <1>13. ASSUME NEW d \in Calls PROVE (Slot(d) /\ NewBundle(d) /\ Undisturbed(d))'
    <2>1. Slot(d) /\ NewBundle(d) /\ Undisturbed(d)
      BY DEF ChatInv, ClientInv
    <2>2. CASE d = f
      <3>1. Slot(d)'
        BY <1>1, <1>3, <1>5, <1>6, <1>7, <1>8, <2>2 DEF Slot, Refreshes, Requests, Settled
      <3>2. NewBundle(d)' /\ Undisturbed(d)'
        BY <1>5, <1>6, <1>7, <1>8, <2>2 DEF NewBundle, Undisturbed, SessionOver, Refreshes, Requests
      <3> QED BY <3>1, <3>2
    <2>3. CASE d # f
      <3>1. Slot(d)'
        BY <1>1, <1>3, <1>7, <1>8, <2>1, <2>3 DEF Slot
      <3>2. NewBundle(d)'
        BY <1>1, <1>3, <1>5, <1>7, <2>1, <2>3 DEF NewBundle
      <3>3. Undisturbed(d)'
        BY <1>1, <1>6, <1>7, <1>8, <2>1, <2>3 DEF Undisturbed, SessionOver, Refreshes, Requests
      <3> QED BY <3>1, <3>2, <3>3
    <2> QED BY <2>2, <2>3
  <1> QED BY <1>7, <1>9, <1>10, <1>11, <1>12, <1>13 DEF ChatInv, ClientInv

\* The login's answer: no fetch has begun.
LEMMA ConnectKeeps ==
    ASSUME ChatInv, NEW f \in Calls, Connect(f)
    PROVE  ChatInv'
  <1> DEFINE n == call[f].bundle
  <1>1. /\ latest = 0 /\ call[f].pc = "accepted" /\ Close(f)
        /\ latest' = n /\ token' = n /\ UNCHANGED <<fresh, stale, fetch, lost, overlap>>
    BY DEF Connect, Accepted
  <1>2. \A d \in Calls : fetch[d] = "idle"
    BY <1>1 DEF ChatInv, ClientInv, Slot
  <1>3. Slot(f) /\ NewBundle(f) /\ call[f].kind = "login"
    BY <1>2 DEF ChatInv, ClientInv, Slot, Settled
  <1>4. n \in 0 .. Len(bundles) /\ n # 0 /\ n \notin used /\ \A d \in Calls \ {f} : call[d].bundle # n
    BY <1>1, <1>3 DEF Slot, NewBundle
  <1>5. /\ IInv'
        /\ call'[f] = NoCall /\ \A d \in Calls \ {f} : call'[d] = call[d]
        /\ UNCHANGED <<validAfter, session, bundles, used, revoking>>
        /\ NoCall.pc = "idle" /\ NoCall.kind = "login" /\ NoCall.bundle = 0
    BY <1>1, ClientCloses
  <1> HIDE DEF n, NoCall
  <1>6. ChatTypeOK'
    BY <1>1, <1>4, <1>5 DEF ChatInv, ClientInv, ChatTypeOK, IInv
  <1>7. KnowsCurrent' /\ Unrevoked' /\ DeniedForCause'
    BY <1>1, <1>4, <1>5 DEF ChatInv, ClientInv, KnowsCurrent, Unrevoked, SessionOver, DeniedForCause
  <1>8. 0 \in 0 .. Len(bundles)
    BY DEF ChatInv, ClientInv, ChatTypeOK, IInv, TypeOK
  <1>9. ASSUME NEW d \in Calls PROVE (Slot(d) /\ NewBundle(d) /\ Undisturbed(d))'
    <2>1. Slot(d) /\ NewBundle(d) /\ fetch[d] = "idle"
      BY <1>2 DEF ChatInv, ClientInv
    <2>2. Slot(d)'
      <3>1. CASE d = f
        BY <1>1, <1>5, <1>8, <2>1, <3>1 DEF Slot, Refreshes, Requests, Settled
      <3>2. CASE d # f
        BY <1>1, <1>4, <1>5, <2>1, <3>2 DEF Slot
      <3> QED BY <3>1, <3>2
    <2>3. NewBundle(d)'
      <3>1. CASE d = f
        BY <1>5, <3>1 DEF NewBundle
      <3>2. CASE d # f
        BY <1>1, <1>4, <1>5, <2>1, <3>2 DEF NewBundle, Slot
      <3> QED BY <3>1, <3>2
    <2>4. Undisturbed(d)'
      BY <1>1, <1>2, <2>1 DEF Undisturbed, SessionOver, Refreshes
    <2> QED BY <2>2, <2>3, <2>4
  <1> QED BY <1>5, <1>6, <1>7, <1>9 DEF ChatInv, ClientInv

LEMMA UnauthorizedKeeps ==
    ASSUME ChatInv, NEW f \in Calls, Unauthorized(f)
    PROVE  ChatInv'
  <1>1. call[f].pc \in {"refused", "replayed"} /\ UNCHANGED <<latest, token, fresh, stale, lost>>
    BY DEF Unauthorized, Refused
  <1>2. Slot(f) /\ Undisturbed(f) /\ lost \in BOOLEAN
    BY DEF ChatInv, ClientInv, ChatTypeOK
  <1>3. CASE fetch[f] = "request1" /\ StartRefresh(f, "refresh2")
    <2>1. latest # 0
      BY <1>2, <1>3 DEF Slot
    <2> QED BY <1>1, <1>3, <2>1, RefreshKeeps DEF Refreshes
  <1>4. CASE fetch[f] = "request2" /\ To(f, "denied") /\ Close(f) /\ UNCHANGED overlap
    <2>1. SessionOver /\ fetch[f] \in Requests /\ fetch[f] \notin Refreshes
      BY <1>1, <1>2, <1>4 DEF Slot, Undisturbed, SessionOver, Refreshes, Requests
    <2> QED BY <1>1, <1>2, <1>4, <2>1, EndKeeps
  <1> QED BY <1>3, <1>4 DEF Unauthorized

\* A revocation is a cause to be turned away from its first update on.
LEMMA SessionEndKeeps ==
    ASSUME ChatInv, SessionEnds, UNCHANGED clientVars
    PROVE  ChatInv'
  <1>1. IInv'
    BY RevokeKeeps, ExpireKeeps DEF SessionEnds, ChatInv, Revoke
  <1>2. UNCHANGED <<bundles, used, call>> /\ UNCHANGED <<latest, token, fresh, stale, fetch, lost, overlap>>
    BY DEF SessionEnds, RevokeUser, RevokeSessions, ExpireSession, clientVars
  <1>3. SessionOver'
    <2>1. CASE RevokeUser
      BY <2>1 DEF RevokeUser, ChatInv, IInv, TypeOK, SessionOver
    <2>2. CASE RevokeSessions
      <3>1. revoking /\ validAfter' = validAfter
        BY <2>2 DEF RevokeSessions
      <3>2. SessionOver
        BY <3>1 DEF ChatInv, ClientInv, Unrevoked
      <3>3. \A s \in Sessions : session[s] = "expired" => session'[s] = "expired"
        BY <2>2 DEF RevokeSessions
      <3> QED BY <3>1, <3>2, <3>3 DEF SessionOver
    <2>3. ASSUME NEW s \in Sessions, ExpireSession(s) PROVE SessionOver'
      BY <2>3 DEF ExpireSession, SessionOver, ChatInv, IInv, TypeOK
    <2> QED BY <2>1, <2>2, <2>3 DEF SessionEnds
  <1>4. ChatTypeOK'
    BY <1>1, <1>2 DEF ChatInv, ClientInv, ChatTypeOK, IInv
  <1>5. KnowsCurrent' /\ Unrevoked' /\ DeniedForCause'
    BY <1>2, <1>3 DEF ChatInv, ClientInv, KnowsCurrent, InRefresh, Unrevoked, SessionOver, DeniedForCause
  <1>6. ASSUME NEW f \in Calls PROVE (Slot(f) /\ NewBundle(f) /\ Undisturbed(f))'
    <2>1. Slot(f) /\ NewBundle(f) /\ Undisturbed(f)
      BY DEF ChatInv, ClientInv
    <2>2. Slot(f)' /\ NewBundle(f)'
      BY <1>2, <2>1 DEF Slot, NewBundle
    <2>3. Undisturbed(f)'
      BY <1>2, <1>3, <2>1 DEF Undisturbed, SessionOver
    <2> QED BY <2>2, <2>3
  <1> QED BY <1>1, <1>4, <1>5, <1>6 DEF ChatInv, ClientInv

\* The expiry of a token, or nothing at all.
LEMMA ExpiryKeeps ==
    ASSUME ChatInv, UNCHANGED <<vars, latest, token, fetch, lost, overlap>>,
           fresh' \in BOOLEAN, stale' \in BOOLEAN
    PROVE  ChatInv'
  <1>1. UNCHANGED vars /\ UNCHANGED <<latest, token, fetch, lost, overlap>>
    OBVIOUS
  <1>2. UNCHANGED <<clock, validAfter, session, bundles, used, revoking, known, barred, call, broken>>
    BY <1>1 DEF vars
  <1>3. IInv'
    BY <1>1, StepInvariant DEF ChatInv
  <1>4. ChatTypeOK'
    BY <1>1, <1>2, <1>3 DEF ChatInv, ClientInv, ChatTypeOK, IInv
  <1>5. KnowsCurrent' /\ Unrevoked' /\ DeniedForCause'
    BY <1>1, <1>2 DEF ChatInv, ClientInv, KnowsCurrent, InRefresh, Unrevoked, SessionOver, DeniedForCause
  <1>6. ASSUME NEW f \in Calls PROVE (Slot(f) /\ NewBundle(f) /\ Undisturbed(f))'
    <2>1. Slot(f) /\ NewBundle(f) /\ Undisturbed(f)
      BY DEF ChatInv, ClientInv
    <2> QED BY <1>1, <1>2, <2>1 DEF Slot, NewBundle, Undisturbed, SessionOver
  <1> QED BY <1>3, <1>4, <1>5, <1>6 DEF ChatInv, ClientInv

-----------------------------------------------------------------------------
LEMMA ChatStep == ChatInv /\ [ChatNext]_chatVars => ChatInv'
  <1> SUFFICES ASSUME ChatInv, [ChatNext]_chatVars PROVE ChatInv'
    OBVIOUS
  <1>1. fresh \in BOOLEAN /\ stale \in BOOLEAN
    BY DEF ChatInv, ClientInv, ChatTypeOK
  <1>2. ASSUME NEW c \in Calls, Server(c) PROVE ChatInv'
    <2>1. UNCHANGED clientVars
      BY <1>2 DEF Server
    <2>2. CASE latest = 0 /\ Login(c)
      BY <2>1, <2>2, ServerLogs
    <2>3. CASE CheckUser(c) \/ CheckSession(c) \/ CheckToken(c)
      BY <2>1, <2>3, ServerChecks
    <2>4. CASE Rotate(c)
      BY <2>1, <2>4, ServerRotates
    <2>5. CASE Issue(c)
      BY <2>1, <2>5, ServerIssues
    <2> QED BY <1>2, <2>2, <2>3, <2>4, <2>5 DEF Server
  <1>3. ASSUME NEW c \in Calls, Client(c) PROVE ChatInv'
    BY <1>3, ConnectKeeps, RefreshedKeeps, EndsKeep, UnauthorizedKeeps DEF Client
  <1>4. ASSUME NEW c \in Calls, BeginFetch(c) PROVE ChatInv'
    BY <1>4, FetchKeeps
  <1>5. ASSUME NEW c \in Calls, Failure(c) PROVE ChatInv'
    BY <1>5, AbandonKeeps, ServerFailsKeeps DEF Failure
  <1>6. CASE SessionEnds /\ UNCHANGED clientVars
    BY <1>6, SessionEndKeeps
  <1>7. CASE NearlyExpired
    BY <1>1, <1>7, ExpiryKeeps DEF NearlyExpired
  <1>8. CASE Expired
    BY <1>1, <1>8, ExpiryKeeps DEF Expired
  <1>9. CASE UNCHANGED chatVars
    BY <1>1, <1>9, ExpiryKeeps DEF chatVars, clientVars
  <1> QED BY <1>2, <1>3, <1>4, <1>5, <1>6, <1>7, <1>8, <1>9 DEF ChatNext

LEMMA CurrentIsLatest == ChatInv => LatestIsCurrent
  <1> SUFFICES ASSUME ChatInv, latest # 0, ~lost, InRefresh = {} PROVE latest \in Unspent
    BY DEF LatestIsCurrent
  <1>1. latest \notin used
    BY DEF ChatInv, ClientInv, KnowsCurrent
  <1>2. latest \in Issued
    BY DEF ChatInv, ClientInv, ChatTypeOK, IInv, TypeOK, Issued
  <1> QED BY <1>1, <1>2 DEF Unspent

-----------------------------------------------------------------------------
(* The tokens rotate in the composition too.  A client's step ends a request *)
(* and may begin the next in the same slot, which the rotation does not see. *)

LEMMA SendIsQuiet ==
    ASSUME ChatInv, NEW f \in Calls, NEW r, call[f].pc # "issue", r.pc # "issue", Send(f, r)
    PROVE  UNCHANGED Rotation!vars
  <1>1. IInv
    BY DEF ChatInv
  <1>2. call' = [call EXCEPT ![f] = r] /\ UNCHANGED <<session, bundles, used>>
    BY DEF Send
  <1> QED BY <1>1, <1>2, QuietCall

LEMMA CloseIsQuiet ==
    ASSUME ChatInv, NEW f \in Calls, call[f].pc # "issue", Close(f)
    PROVE  UNCHANGED Rotation!vars
  <1>1. IInv
    BY DEF ChatInv
  <1>2. call' = [call EXCEPT ![f] = NoCall] /\ UNCHANGED <<session, bundles, used>>
    BY DEF Close
  <1>3. NoCall.pc # "issue"
    BY DEF NoCall
  <1> QED BY <1>1, <1>2, <1>3, QuietCall

LEMMA ClientIsQuiet ==
    ASSUME ChatInv, NEW f \in Calls, Client(f) \/ BeginFetch(f)
    PROVE  UNCHANGED Rotation!vars
  <1>1. \A b : Asked("refresh", b).pc # "issue"
    BY DEF Asked
  <1>2. \A b, expired : Request(b, expired).pc # "issue"
    BY DEF Request, Asked
  <1>3. CASE Connect(f) \/ RefreshDenied(f) \/ Answered(f)
    <2>1. call[f].pc # "issue" /\ Close(f)
      BY <1>3 DEF Connect, RefreshDenied, Answered, Accepted, Refused
    <2> QED BY <2>1, CloseIsQuiet
  <1>4. CASE Refreshed(f)
    <2> DEFINE r == Request(token', FALSE)
    <2>1. call[f].pc # "issue" /\ Send(f, r) /\ r.pc # "issue"
      BY <1>2, <1>4 DEF Refreshed, Accepted
    <2> HIDE DEF r
    <2> QED BY <2>1, SendIsQuiet
  <1>5. CASE Unauthorized(f)
    <2>1. call[f].pc # "issue"
      BY <1>5 DEF Unauthorized, Refused
    <2>2. CASE StartRefresh(f, "refresh2")
      BY <1>1, <2>1, <2>2, SendIsQuiet DEF StartRefresh
    <2>3. CASE Close(f)
      BY <2>1, <2>3, CloseIsQuiet
    <2> QED BY <1>5, <2>2, <2>3 DEF Unauthorized
  <1>6. CASE BeginFetch(f)
    <2>1. call[f].pc # "issue"
      BY <1>6 DEF BeginFetch
    <2>2. CASE StartRefresh(f, "refresh1")
      BY <1>1, <2>1, <2>2, SendIsQuiet DEF StartRefresh
    <2>3. CASE Send(f, Request(token, stale))
      BY <1>2, <2>1, <2>3, SendIsQuiet
    <2> QED BY <1>6, <2>2, <2>3 DEF BeginFetch
  <1> QED BY <1>3, <1>4, <1>5, <1>6 DEF Client

LEMMA ChatRotationStep == ChatInv /\ [ChatNext]_chatVars => [Rotation!Next]_(Rotation!vars)
  <1> SUFFICES ASSUME ChatInv, [ChatNext]_chatVars PROVE [Rotation!Next]_(Rotation!vars)
    OBVIOUS
  <1>1. ASSUME NEW c \in Calls, Client(c) \/ BeginFetch(c)
        PROVE  UNCHANGED Rotation!vars
    BY <1>1, ClientIsQuiet
  <1>2. ASSUME NEW c \in Calls, Server(c) \/ Failure(c) PROVE [Next]_vars
    BY <1>2 DEF Server, Failure, AnswerLost, RequestFails, ServerFails, Next, Handle
  <1>3. ASSUME SessionEnds PROVE Next
    BY <1>3 DEF SessionEnds, Next, Revoke
  <1>4. [Next]_vars => [Rotation!Next]_(Rotation!vars)
    BY RotationStep DEF ChatInv
  <1>5. CASE UNCHANGED vars
    BY <1>4, <1>5
  <1>6. CASE \E c \in Calls : Server(c) \/ Failure(c)
    BY <1>2, <1>4, <1>6
  <1>7. CASE SessionEnds
    BY <1>3, <1>4, <1>7
  <1> QED BY <1>1, <1>5, <1>6, <1>7 DEF ChatNext, chatVars, NearlyExpired, Expired

\* An answered request was let in, and it was a check.
LEMMA AnsweredWasAdmitted ==
    ASSUME ChatInv, NEW f \in Calls, Answered(f)
    PROVE  call[f].sid \notin call[f].barred
  <1>1. call[f].kind = "check" /\ call[f].pc = "accepted"
    BY DEF Answered, Accepted, ChatInv, ClientInv, Slot, Requests
  <1>2. RevokedStaysOut
    BY InvariantBars DEF ChatInv
  <1> QED BY <1>1, <1>2 DEF RevokedStaysOut

LEMMA SuccessIsAdmitted ==
    ASSUME ChatInv, [ChatNext]_chatVars, NEW f \in Calls, fetch[f] # "ok", fetch'[f] = "ok"
    PROVE  call[f].sid \notin call[f].barred
  <1>1. PICK g \in Calls : Client(g) \/ BeginFetch(g) \/ Failure(g)
    BY DEF ChatNext, chatVars, clientVars, Server, NearlyExpired, Expired
  <1>2. fetch \in [Calls -> FetchSteps]
    BY DEF ChatInv, ClientInv, ChatTypeOK
  <1>3. Answered(g) /\ g = f
    BY <1>1, <1>2 DEF Client, Connect, Refreshed, RefreshDenied, Answered, Unauthorized, BeginFetch,
                      Failure, AnswerLost, ServerFails, RequestFails, StartRefresh, To
  <1> QED BY <1>3, AnsweredWasAdmitted

\* The conjunction the theorems below project.
THEOREM ChatInvariant == ChatSpec => []ChatInv
  BY InitClient, ChatStep, PTL DEF ChatSpec

\* The state of the client and of the server's tables has the declared types.
THEOREM ChatTypeCorrect == ChatSpec => []ChatTypeOK
  BY ChatInvariant, PTL DEF ChatInv, ClientInv

\* Between refreshes the refresh token the client holds is the one the server
\* would exchange, for any number of fetches and any order of their answers
\* (the provider of ChatSDK.connect), unless an answer was lost.
THEOREM ClientKeepsToken == ChatSpec => []LatestIsCurrent
  BY ChatInvariant, CurrentIsLatest, PTL

\* A fetch is turned away only after the end of its session, a refresh that may
\* have spent the token without answering, or two refreshes at once, however
\* many other fetches fail for the network, a 5xx or an open circuit
\* (ensureFreshToken, executeRequestWithAuthRetry).
THEOREM DenialsHaveCause == ChatSpec => []DeniedForCause
  BY ChatInvariant, PTL DEF ChatInv, ClientInv

\* What the sessions promise to any client they promise to this one: its slots
\* carry one request after the other without a pause, which AuthSession's steps
\* do not (ChatClient.fetch over refreshTokenBundle).
THEOREM PromisesCompose == ChatSpec => [](OneCurrentToken /\ SessionKeepsToken /\ RevokedStaysOut)
  <1>1. ChatInv => OneCurrentToken /\ SessionKeepsToken /\ RevokedStaysOut
    BY InvariantBars DEF ChatInv, IInv
  <1> QED BY <1>1, ChatInvariant, PTL

\* The tokens of the client's session form the chain of TokenRotation.
THEOREM ClientRotates == ChatSpec => RotationImplemented
  <1>1. ChatInit => Rotation!Init
    BY InitRotation DEF ChatInit
  <1> QED BY <1>1, ChatRotationStep, ChatInvariant, PTL DEF ChatSpec, RotationImplemented, Rotation!Spec

\* A fetch never succeeds with a request that began after a completed revocation
\* of its session, even if the token was issued by a refresh in flight then
\* (executeRequestWithAuthRetry over validatePayload and revokeUserTokens).
THEOREM RevokedFetchesFail ==
    ChatSpec => [][\A f \in Calls : fetch[f] # "ok" /\ fetch'[f] = "ok" =>
                                      call[f].sid \notin call[f].barred]_chatVars
  <1>1. ChatInv /\ [ChatNext]_chatVars =>
          [\A f \in Calls : fetch[f] # "ok" /\ fetch'[f] = "ok" =>
                              call[f].sid \notin call[f].barred]_chatVars
    BY SuccessIsAdmitted
  <1> QED BY <1>1, ChatInvariant, PTL DEF ChatSpec
============================================================================
