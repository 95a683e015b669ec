---------------------------- MODULE AuthSession ----------------------------
(***************************************************************************)
(* The sessions of one user on the server                                   *)
(* (packages/api/src/services/tokens.ts).                                   *)
(*                                                                         *)
(* A bundle is the access and the refresh token that were issued together.  *)
(* Every db.query outside a transaction is a transaction of its own, so a   *)
(* validation is three steps, and a login, a refresh and a revocation are   *)
(* several; calls run on any number of server processes.  A step may be the *)
(* last one of its call: a query throws or the process dies.                *)
(***************************************************************************)
EXTENDS Naturals, Sequences

CONSTANTS
    Calls,        \* slots for requests being handled
    MaxSessions,  \* bound: logins
    MaxBundles,   \* bound: bundles issued
    MaxTime       \* bound: seconds on the database's clock

ASSUME BoundsAssumption ==
    MaxSessions \in Nat /\ MaxBundles \in Nat /\ MaxTime \in Nat \ {0}

VARIABLES
    clock,       \* NOW(), in seconds
    validAfter,  \* app_user.tokens_valid_after; 0 is NULL
    session,     \* session[s]: row of auth_session
    bundles,     \* sequence of the bundles issued
    used,        \* refresh tokens in revoked_token
    revoking,    \* a revokeUserTokens is between its two updates
    known,       \* history: sessions there were when it began
    barred,      \* history: sessions there were before a completed revocation
    call,        \* the requests
    broken       \* history: some request broke off after it had written

vars == <<clock, validAfter, session, bundles, used, revoking, known, barred, call, broken>>

Sessions  == 1 .. MaxSessions
BundleIds == 1 .. MaxBundles
Issued    == DOMAIN bundles
Bundle    == [sid : Sessions, iat : 1 .. MaxTime]

Steps == {"idle", "user", "session", "token", "rotate", "issue", "accepted", "refused", "replayed"}
Call  == [pc : Steps, kind : {"login", "refresh", "check"},
          bundle : 0 .. MaxBundles, sid : 0 .. MaxSessions, barred : SUBSET Sessions]
NoCall == [pc |-> "idle", kind |-> "login", bundle |-> 0, sid |-> 0, barred |-> {}]

Goto(c, pc) == call' = [call EXCEPT ![c].pc = pc]

-----------------------------------------------------------------------------
\* The first query after the signature is verified; the token may be any one
\* that was issued.
Asked(kind, b) ==
    [pc |-> "user", kind |-> kind, bundle |-> b, sid |-> bundles[b].sid, barred |-> barred]

Ask(c, kind, b) ==
    /\ call[c].pc = "idle"
    /\ call' = [call EXCEPT ![c] = Asked(kind, b)]
    /\ UNCHANGED <<clock, validAfter, session, bundles, used, revoking, known, barred, broken>>

\* validatePayload: tokens_valid_after.  iat is cut to seconds, tokens_valid_after
\* is not: a token of the same second is refused, but for the first millisecond.
CheckUser(c) ==
    /\ call[c].pc = "user"
    /\ \/ bundles[call[c].bundle].iat >= validAfter /\ Goto(c, "session")
       \/ bundles[call[c].bundle].iat <= validAfter /\ Goto(c, "refused")
    /\ UNCHANGED <<clock, validAfter, session, bundles, used, revoking, known, barred, broken>>

\* validatePayload: the session.
CheckSession(c) ==
    /\ call[c].pc = "session"
    /\ \/ session[call[c].sid] = "live" /\ Goto(c, "token")
       \/ session[call[c].sid] # "live" /\ Goto(c, "refused")
    /\ UNCHANGED <<clock, validAfter, session, bundles, used, revoking, known, barred, broken>>

\* validatePayload: revoked_token, where only refresh tokens are put.
CheckToken(c) ==
    /\ call[c].pc = "token"
    /\ \/ call[c].kind = "check" /\ Goto(c, "accepted")
       \/ call[c].kind = "refresh" /\ call[c].bundle \notin used /\ Goto(c, "rotate")
       \/ call[c].kind = "refresh" /\ call[c].bundle \in used /\ Goto(c, "refused")
    /\ UNCHANGED <<clock, validAfter, session, bundles, used, revoking, known, barred, broken>>

\* Planted fault.  What CheckToken found is not asked again.
RotateTrusting(c) ==
    /\ call[c].pc = "rotate"
    /\ used' = used \cup {call[c].bundle} /\ Goto(c, "issue")
    /\ UNCHANGED <<clock, validAfter, session, bundles, revoking, known, barred, broken>>

\* Planted fault.  The refresh token is spent before the session is looked at.
RotateEarly(c) ==
    /\ call[c].pc = "rotate"
    /\ call[c].bundle \notin used
    /\ used' = used \cup {call[c].bundle}
    /\ \/ session[call[c].sid] = "live" /\ Goto(c, "issue")
       \/ session[call[c].sid] # "live" /\ Goto(c, "refused")
    /\ UNCHANGED <<clock, validAfter, session, bundles, revoking, known, barred, broken>>

\* The rotation's transaction.  On a replay it revokes the session and throws,
\* which rolls the revocation back.
Rotate(c) ==
    /\ call[c].pc = "rotate"
    /\ \/ /\ call[c].bundle \notin used
          /\ used' = used \cup {call[c].bundle}
          /\ Goto(c, "issue")
       \/ /\ call[c].bundle \in used
          /\ Goto(c, "replayed")
          /\ UNCHANGED used
    /\ UNCHANGED <<clock, validAfter, session, bundles, revoking, known, barred, broken>>

\* A login: INSERT INTO auth_session.
Login(c) ==
    /\ call[c].pc = "idle"
    /\ \E s \in Sessions :
        /\ session[s] = "none" /\ \A r \in 1 .. s - 1 : session[r] # "none"
        /\ session' = [session EXCEPT ![s] = "live"]
        /\ call' = [call EXCEPT ![c] = [pc |-> "issue", kind |-> "login", bundle |-> 0,
                                        sid |-> s, barred |-> barred]]
    /\ UNCHANGED <<clock, validAfter, bundles, used, revoking, known, barred, broken>>

\* Planted fault.  iat is rounded up.
IssueAhead(c) ==
    /\ call[c].pc = "issue"
    /\ Len(bundles) < MaxBundles
    /\ bundles' = Append(bundles, [sid |-> call[c].sid, iat |-> clock + 1])
    /\ call' = [call EXCEPT ![c].pc = "accepted", ![c].bundle = Len(bundles) + 1]
    /\ UNCHANGED <<clock, validAfter, session, used, revoking, known, barred, broken>>

\* The rest of issueTokenBundle: it signs, whatever became of the session.
Issue(c) ==
    /\ call[c].pc = "issue"
    /\ Len(bundles) < MaxBundles
    /\ bundles' = Append(bundles, [sid |-> call[c].sid, iat |-> clock])
    /\ call' = [call EXCEPT ![c].pc = "accepted", ![c].bundle = Len(bundles) + 1]
    /\ UNCHANGED <<clock, validAfter, session, used, revoking, known, barred, broken>>

\* The response is sent.
Finish(c) ==
    /\ call[c].pc \in {"accepted", "refused", "replayed"}
    /\ call' = [call EXCEPT ![c] = NoCall]
    /\ UNCHANGED <<clock, validAfter, session, bundles, used, revoking, known, barred, broken>>

\* The next query throws, or the process dies.
BreakOff(c) ==
    /\ call[c].pc \notin {"idle", "accepted", "refused", "replayed"}
    /\ call' = [call EXCEPT ![c] = NoCall]
    /\ broken' = (broken \/ call[c].pc = "issue")
    /\ UNCHANGED <<clock, validAfter, session, bundles, used, revoking, known, barred>>

-----------------------------------------------------------------------------
\* revokeUserTokens: UPDATE app_user.
RevokeUser ==
    /\ ~revoking
    /\ revoking' = TRUE
    /\ known' = {s \in Sessions : session[s] # "none"}
    /\ validAfter' = clock
    /\ UNCHANGED <<clock, session, bundles, used, barred, call, broken>>

\* Planted fault.  tokens_valid_after is thought to be enough.
RevokeNoSessions ==
    /\ revoking
    /\ revoking' = FALSE
    /\ barred' = barred \cup known
    /\ UNCHANGED <<clock, validAfter, session, bundles, used, known, call, broken>>

\* revokeUserTokens: UPDATE auth_session.
RevokeSessions ==
    /\ revoking
    /\ revoking' = FALSE
    /\ session' = [s \in Sessions |-> IF session[s] = "live" THEN "revoked" ELSE session[s]]
    /\ barred' = barred \cup known
    /\ UNCHANGED <<clock, validAfter, bundles, used, known, call, broken>>

\* The second update is never made.
RevokeBreaksOff ==
    /\ revoking
    /\ revoking' = FALSE
    /\ UNCHANGED <<clock, validAfter, session, bundles, used, known, barred, call, broken>>

\* expires_at, which a refresh does not extend.
ExpireSession(s) ==
    /\ session[s] = "live"
    /\ session' = [session EXCEPT ![s] = "expired"]
    /\ UNCHANGED <<clock, validAfter, bundles, used, revoking, known, barred, call, broken>>

Tick ==
    /\ clock < MaxTime
    /\ clock' = clock + 1
    /\ UNCHANGED <<validAfter, session, bundles, used, revoking, known, barred, call, broken>>

-----------------------------------------------------------------------------
Init ==
    /\ clock = 1 /\ validAfter = 0
    /\ session = [s \in Sessions |-> "none"]
    /\ bundles = <<>> /\ used = {}
    /\ revoking = FALSE /\ known = {} /\ barred = {}
    /\ call = [c \in Calls |-> NoCall]
    /\ broken = FALSE

Handle(c) ==
    \/ CheckUser(c) \/ CheckSession(c) \/ CheckToken(c)
    \/ Rotate(c) \/ Issue(c) \/ BreakOff(c)

Revoke == RevokeUser \/ RevokeSessions \/ RevokeBreaksOff

Next ==
    \/ \E c \in Calls : \/ Login(c) \/ Handle(c) \/ Finish(c)
                        \/ \E b \in Issued, kind \in {"refresh", "check"} : Ask(c, kind, b)
    \/ \E s \in Sessions : ExpireSession(s)
    \/ Revoke \/ Tick

Spec == Init /\ [][Next]_vars

-----------------------------------------------------------------------------
TypeOK ==
    /\ clock \in 1 .. MaxTime /\ validAfter \in 0 .. MaxTime
    /\ session \in [Sessions -> {"none", "live", "revoked", "expired"}]
    /\ bundles \in Seq(Bundle) /\ Len(bundles) <= MaxBundles
    /\ used \subseteq Issued
    /\ revoking \in BOOLEAN /\ broken \in BOOLEAN
    /\ known \subseteq Sessions /\ barred \subseteq Sessions
    /\ call \in [Calls -> Call]

Unspent == Issued \ used
Issuing == {c \in Calls : call[c].pc = "issue"}

\* A session has never two refresh tokens that can be exchanged, counting the
\* one a login or a refresh is about to issue: each is exchanged once, however
\* many requests bring it at the same time.
OneCurrentToken ==
    /\ \A a, b \in Unspent : bundles[a].sid = bundles[b].sid => a = b
    /\ \A c, d \in Issuing : call[c].sid = call[d].sid => c = d
    /\ \A b \in Unspent, c \in Issuing : bundles[b].sid # call[c].sid

\* And it has one: a session's last refresh token is spent only for the next,
\* unless the server broke off in between.
SessionKeepsToken ==
    ~broken => \A s \in Sessions : session[s] # "none" =>
        \/ \E b \in Unspent : bundles[b].sid = s
        \/ \E c \in Issuing : call[c].sid = s

\* After a revocation no token of a session that was there before it is
\* accepted, not even one that a refresh in flight issued afterwards.
RevokedStaysOut ==
    \A c \in Calls :
        call[c].pc = "accepted" /\ call[c].kind # "login" => call[c].sid \notin call[c].barred

(* The rotation as its holder sees it: each session's current token, and     *)
(* whether the server owes the next one.                                     *)
Current == [s \in Sessions |-> {b \in Unspent : bundles[b].sid = s}]
Owed    == {call[c].sid : c \in Issuing}
Phase   == [s \in Sessions |-> IF session[s] = "none" THEN "none"
                               ELSE IF s \in Owed THEN "owed"
                               ELSE IF Current[s] # {} THEN "held" ELSE "broken"]

Rotation == INSTANCE TokenRotation WITH
    Session <- Sessions, Token <- BundleIds,
    phase <- Phase, current <- Current, issued <- Issued,
    ended <- {s \in Sessions : session[s] \in {"revoked", "expired"}}

\* The requests that validate, rotate and issue in transactions of their own
\* implement a chain of tokens, each exchanged at most once and for a new one.
RotationImplemented == Rotation!Spec

\* What the rotation means to do with a session whose refresh token comes twice.
ReplayEndsSession == \A c \in Calls : call[c].pc = "replayed" => session[call[c].sid] # "live"
============================================================================
