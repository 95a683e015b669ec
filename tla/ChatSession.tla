---------------------------- MODULE ChatSession ----------------------------
(***************************************************************************)
(* A connected client and its session: ChatClient.fetch and the refresh     *)
(* provider ChatSDK.connect gives it (packages/core/src/ChatSDK.ts,         *)
(* packages/core/src/client/ChatClient.ts), over the server of AuthSession. *)
(*                                                                         *)
(* A fetch is an asynchronous function; it makes one request at a time, in  *)
(* the server's slot of the same name.  It is a single call; an application *)
(* that fetches again is another member of Calls.                           *)
(***************************************************************************)
EXTENDS AuthSession

VARIABLES
    latest,   \* latestRefreshToken; 0 before the login
    token,    \* the bundle of the access token in use
    fresh,    \* tokenExpiresAt is at least a minute away
    stale,    \* the access token has expired for the server
    fetch,    \* fetch[f]: what the call is doing
    lost,     \* history: a refresh may have spent the token without answering
    overlap   \* history: a refresh began while another was under way

clientVars == <<latest, token, fresh, stale, fetch, lost, overlap>>
chatVars   == <<vars, clientVars>>

\* "refresh1" is ensureFreshToken's refresh, "refresh2" the one after a 401.
\* A fetch that ends is answered, denied for its token, or fails for anything else.
FetchSteps == {"idle", "refresh1", "request1", "refresh2", "request2", "ok", "denied", "failed"}

To(f, step) == fetch' = [fetch EXCEPT ![f] = step]

InRefresh == {f \in Calls : fetch[f] \in {"refresh1", "refresh2"}}

\* A request goes out in the slot f; the rest of the server is left alone.
Send(f, request) ==
    /\ call' = [call EXCEPT ![f] = request]
    /\ UNCHANGED <<clock, validAfter, session, bundles, used, revoking, known, barred, broken>>

\* A token that has expired is refused for its signature's exp alone.
Request(b, expired) ==
    [Asked("check", b) EXCEPT !.pc = IF expired THEN "refused" ELSE "user"]

Close(f) ==
    /\ call' = [call EXCEPT ![f] = NoCall]
    /\ UNCHANGED <<clock, validAfter, session, bundles, used, revoking, known, barred, broken>>

StartRefresh(f, step) ==
    /\ To(f, step) /\ Send(f, Asked("refresh", latest))
    /\ overlap' = (overlap \/ InRefresh # {})

Accepted(f) == call[f].pc = "accepted"
Refused(f)  == call[f].pc \in {"refused", "replayed"}

-----------------------------------------------------------------------------
\* ChatSDK.connect's answer.
Connect(c) ==
    /\ latest = 0 /\ Accepted(c)
    /\ latest' = call[c].bundle /\ token' = call[c].bundle
    /\ Close(c)
    /\ UNCHANGED <<fresh, stale, fetch, lost, overlap>>

\* fetch: ensureFreshToken, then the request.
BeginFetch(f) ==
    /\ latest # 0 /\ fetch[f] = "idle" /\ call[f].pc = "idle"
    /\ \/ ~fresh /\ StartRefresh(f, "refresh1")
       \/ fresh /\ To(f, "request1") /\ Send(f, Request(token, stale)) /\ UNCHANGED overlap
    /\ UNCHANGED <<latest, token, fresh, stale, lost>>

\* Planted fault.  The provider keeps the refresh token of the login.
RefreshedKeeping(f) ==
    /\ fetch[f] \in {"refresh1", "refresh2"} /\ Accepted(f)
    /\ token' = call[f].bundle /\ fresh' = TRUE
    /\ To(f, IF fetch[f] = "refresh1" THEN "request1" ELSE "request2")
    /\ stale' = FALSE /\ Send(f, Request(token', FALSE))
    /\ UNCHANGED <<latest, lost, overlap>>

\* The provider and applyConnectionTokens; the request follows.
Refreshed(f) ==
    /\ fetch[f] \in {"refresh1", "refresh2"} /\ Accepted(f)
    /\ latest' = call[f].bundle /\ token' = call[f].bundle /\ fresh' = TRUE
    /\ To(f, IF fetch[f] = "refresh1" THEN "request1" ELSE "request2")
    /\ stale' = FALSE /\ Send(f, Request(token', FALSE))
    /\ UNCHANGED <<lost, overlap>>

\* The server refuses the refresh token: the provider throws, and fetch with it.
RefreshDenied(f) ==
    /\ fetch[f] \in {"refresh1", "refresh2"} /\ Refused(f)
    /\ To(f, "denied") /\ Close(f)
    /\ UNCHANGED <<latest, token, fresh, stale, lost, overlap>>

\* The same when the connection fails.  The server may know nothing of it: it
\* goes on with a refresh that nobody waits for.
AnswerLost(f) ==
    /\ fetch[f] \in {"refresh1", "refresh2"}
    /\ To(f, "failed")
    /\ lost' = TRUE
    /\ UNCHANGED <<vars, latest, token, fresh, stale, overlap>>

\* The server's next query throws, and it answers 500.
ServerFails(f) ==
    /\ fetch[f] \in {"refresh1", "request1", "refresh2", "request2"}
    /\ BreakOff(f) /\ To(f, "failed")
    /\ lost' = (lost \/ call[f].pc = "issue")
    /\ UNCHANGED <<latest, token, fresh, stale, overlap>>

Answered(f) ==
    /\ fetch[f] \in {"request1", "request2"} /\ Accepted(f)
    /\ To(f, "ok") /\ Close(f)
    /\ UNCHANGED <<latest, token, fresh, stale, lost, overlap>>

\* Planted fault.  Every 401 is answered with a refresh.
UnauthorizedAgain(f) ==
    /\ fetch[f] \in {"request1", "request2"} /\ Refused(f)
    /\ To(f, "request2") /\ Send(f, Request(token, stale))
    /\ UNCHANGED <<latest, token, fresh, stale, lost, overlap>>

\* Planted fault.  A 401 is passed on at once.
UnauthorizedAtOnce(f) ==
    /\ fetch[f] \in {"request1", "request2"} /\ Refused(f)
    /\ To(f, "denied") /\ Close(f)
    /\ UNCHANGED <<latest, token, fresh, stale, lost, overlap>>

\* executeRequestWithAuthRetry: a 401 is worth one refresh and one repeat.
Unauthorized(f) ==
    /\ Refused(f)
    /\ \/ fetch[f] = "request1" /\ StartRefresh(f, "refresh2")
       \/ fetch[f] = "request2" /\ To(f, "denied") /\ Close(f) /\ UNCHANGED overlap
    /\ UNCHANGED <<latest, token, fresh, stale, lost>>

\* Every other error is passed on: the connection, a 4xx or 5xx of the route, or
\* an open circuit, which does not even send the request.
RequestFails(f) ==
    /\ fetch[f] \in {"request1", "request2"}
    /\ To(f, "failed")
    /\ UNCHANGED <<vars, latest, token, fresh, stale, lost, overlap>>

\* Time passes for the client and, not always at the same moment, the server.
NearlyExpired ==
    /\ latest # 0 /\ fresh
    /\ fresh' = FALSE
    /\ UNCHANGED <<vars, latest, token, stale, fetch, lost, overlap>>

Expired ==
    /\ latest # 0 /\ ~stale
    /\ stale' = TRUE
    /\ UNCHANGED <<vars, latest, token, fresh, fetch, lost, overlap>>

-----------------------------------------------------------------------------
ChatInit ==
    /\ Init
    /\ latest = 0 /\ token = 0 /\ fresh = TRUE /\ stale = FALSE
    /\ fetch = [f \in Calls |-> "idle"] /\ lost = FALSE /\ overlap = FALSE

\* One login; the server's own steps.
Server(c) ==
    /\ \/ latest = 0 /\ Login(c)
       \/ CheckUser(c) \/ CheckSession(c) \/ CheckToken(c) \/ Rotate(c) \/ Issue(c)
    /\ UNCHANGED clientVars

Client(f) ==
    \/ Connect(f) \/ Refreshed(f) \/ RefreshDenied(f)
    \/ Answered(f) \/ Unauthorized(f)

Failure(f) == AnswerLost(f) \/ ServerFails(f) \/ RequestFails(f)

\* A revocation, or expires_at.
SessionEnds == RevokeUser \/ RevokeSessions \/ \E s \in Sessions : ExpireSession(s)

ChatNext ==
    \/ \E c \in Calls : Server(c) \/ Client(c) \/ BeginFetch(c) \/ Failure(c)
    \/ SessionEnds /\ UNCHANGED clientVars
    \/ NearlyExpired \/ Expired

ChatSpec == ChatInit /\ [][ChatNext]_chatVars

\* The server handles the requests it has, and the client their answers.
ChatFairSpec ==
    /\ ChatSpec
    /\ \A c \in Calls : WF_chatVars(Server(c)) /\ WF_chatVars(Client(c))

-----------------------------------------------------------------------------
ChatTypeOK ==
    /\ TypeOK
    /\ latest \in 0 .. Len(bundles) /\ token \in 0 .. Len(bundles)
    /\ fresh \in BOOLEAN /\ stale \in BOOLEAN /\ lost \in BOOLEAN /\ overlap \in BOOLEAN
    /\ fetch \in [Calls -> FetchSteps]

\* Between refreshes the client's refresh token is the one the server would
\* exchange next, whatever the order in which concurrent refreshes answer.
LatestIsCurrent ==
    latest # 0 /\ ~lost /\ InRefresh = {} => latest \in Unspent

SessionOver == validAfter # 0 \/ \E s \in Sessions : session[s] = "expired"

\* A fetch is turned away, its refresh refused or its repeat answered with a
\* second 401, only if the session ended, a refresh may have spent the token
\* without answering, or two fetches refreshed at once: the provider's requests
\* are not shared, so both bring the same refresh token and the server
\* exchanges it for one of them.  A network error, a 5xx or an open circuit
\* fails the fetch they hit, but by itself makes no later one unauthorized.
DeniedForCause ==
    (\E f \in Calls : fetch[f] = "denied") => lost \/ SessionOver \/ overlap

\* A request that began comes to an end: a 401 is answered with one refresh.
FetchEnds ==
    \A f \in Calls :
        fetch[f] \in {"refresh1", "request1", "refresh2", "request2"}
            ~> fetch[f] \in {"ok", "denied", "failed"}
============================================================================
