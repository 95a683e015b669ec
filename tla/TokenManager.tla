--------------------------- MODULE TokenManager ----------------------------
(***************************************************************************)
(* The SDK's token holder (packages/core/src/auth/token-manager.ts): tokens *)
(* of the current login, one shared refresh promise, one refresh timer.     *)
(*                                                                         *)
(* A token pair is described by the logins its two halves come from and by *)
(* whether the access token still has 60 seconds to live.  A refresh is    *)
(* asynchronous between the request and the processing of its answer; what *)
(* follows the answer (setTokens, the callbacks, the finally block, the    *)
(* continuations of the callers that wait for the same promise) runs       *)
(* without another macrotask in between and is one step.                    *)
(***************************************************************************)
EXTENDS Naturals

CONSTANTS
    Calls,      \* slots for calls of refreshToken in flight
    MaxLogins,  \* bound: times the application calls setTokens
    None        \* null

ASSUME LoginAssumption == MaxLogins \in Nat
ASSUME NoneAssumption == None \notin Calls /\ None \notin [access : 1 .. MaxLogins, refresh : 1 .. MaxLogins, fresh : BOOLEAN]

VARIABLES
    tokens,         \* None or the token pair
    refreshPromise, \* None or the call that performs the refresh
    timer,          \* a refresh is scheduled
    isDestroyed,
    call,           \* call[c]: what the call waits for
    logins,         \* history: logins so far
    loggedOut,      \* history: no setTokens by the application since clearTokens
    overtaken       \* history: refreshPromise or tokens changed under a refresh

vars == <<tokens, refreshPromise, timer, isDestroyed, call, logins, loggedOut, overtaken>>

Logins == 1 .. MaxLogins
Tokens == [access : Logins, refresh : Logins, fresh : BOOLEAN]

\* "refresh": the call's own request is on its way, made for login `of`;
\* "wait": it waits for the promise of the call `on`.
Idle == [pc |-> "idle", of |-> 0, on |-> None]
Call == [pc : {"idle", "refresh", "wait"}, of : 0 .. MaxLogins, on : Calls \cup {None}]

Refreshing == {c \in Calls : call[c].pc = "refresh"}
Overtaken  == overtaken' = (overtaken \/ Refreshing # {})

-----------------------------------------------------------------------------
\* Planted fault.  The timer does not ask whether the manager is destroyed.
ScheduleAlways == timer' = TRUE

\* scheduleRefresh, for the tokens just set: no timer once destroyed.
ScheduleRefresh == timer' = ~isDestroyed

\* The application logs a user in, whether or not it cleared the old tokens.
SetTokens ==
    /\ logins < MaxLogins
    /\ logins' = logins + 1
    /\ tokens' = [access |-> logins + 1, refresh |-> logins + 1, fresh |-> TRUE]
    /\ ScheduleRefresh
    /\ loggedOut' = FALSE
    /\ Overtaken
    /\ UNCHANGED <<refreshPromise, isDestroyed, call>>

\* Less than a minute is left.
Expire ==
    /\ tokens # None /\ tokens.fresh
    /\ tokens' = [tokens EXCEPT !.fresh = FALSE]
    /\ UNCHANGED <<refreshPromise, timer, isDestroyed, call, logins, loggedOut, overtaken>>

\* Planted fault.  Every call makes its own request.
RefreshUnshared(c) ==
    /\ call[c].pc = "idle" /\ tokens # None
    /\ call' = [call EXCEPT ![c] = [pc |-> "refresh", of |-> tokens.refresh, on |-> None]]
    /\ refreshPromise' = c
    /\ UNCHANGED <<tokens, isDestroyed, logins, loggedOut, overtaken>>

\* A refresh is asked for: share the promise there is, or make the request.
\* Without tokens the call fails on the spot and nothing changes.
Refresh(c) ==
    /\ call[c].pc = "idle"
    /\ \/ /\ refreshPromise # None
          /\ call' = [call EXCEPT ![c] = [pc |-> "wait", of |-> 0, on |-> refreshPromise]]
          /\ UNCHANGED refreshPromise
       \/ /\ refreshPromise = None /\ tokens # None
          /\ call' = [call EXCEPT ![c] = [pc |-> "refresh", of |-> tokens.refresh, on |-> None]]
          /\ refreshPromise' = c
    /\ UNCHANGED <<tokens, isDestroyed, logins, loggedOut, overtaken>>

\* refreshToken called by the application, on a 401 for instance.
ForceRefresh(c) == Refresh(c) /\ UNCHANGED timer

\* getValidToken refreshes only tokens about to expire.
GetValidToken(c) == tokens # None /\ ~tokens.fresh /\ Refresh(c) /\ UNCHANGED timer

\* The timer goes off.  It does not outlive the tokens (TimerHasTokens).
TimerFires ==
    /\ timer
    /\ timer' = FALSE
    /\ \E c \in Calls : Refresh(c)

\* Planted fault.  The waiting callers are left to the promise of the moment.
SettleCurrent(c) ==
    /\ call' = [d \in Calls |-> IF d = c \/ (call[d].on = c /\ refreshPromise = c)
                                THEN Idle ELSE call[d]]
    /\ refreshPromise' = None

\* The callers of a promise are released, and the owner's finally block
\* resets refreshPromise, whichever promise that is by now.
Settle(c) ==
    /\ call' = [d \in Calls |-> IF d = c \/ call[d].on = c THEN Idle ELSE call[d]]
    /\ refreshPromise' = None

\* A good answer, which may leave the refresh token out: the current one is
\* kept then, if there is one.
Answered(c, brings) ==
    /\ call[c].pc = "refresh"
    /\ brings \/ tokens # None
    /\ tokens' = [access |-> call[c].of,
                  refresh |-> IF brings THEN call[c].of ELSE tokens.refresh,
                  fresh |-> TRUE]
    /\ ScheduleRefresh
    /\ Settle(c)
    /\ UNCHANGED <<isDestroyed, logins, loggedOut, overtaken>>

\* The request or the server fails, or there are no tokens left to complete
\* the answer with.
Failed(c) ==
    /\ call[c].pc = "refresh"
    /\ Settle(c)
    /\ UNCHANGED <<tokens, timer, isDestroyed, logins, loggedOut, overtaken>>

\* Planted fault.  The timer survives the logout.
ClearTokensOnly ==
    /\ tokens' = None /\ refreshPromise' = None
    /\ loggedOut' = TRUE
    /\ Overtaken
    /\ UNCHANGED <<timer, isDestroyed, call, logins>>

\* Logout.
ClearTokens ==
    /\ tokens' = None /\ refreshPromise' = None /\ timer' = FALSE
    /\ loggedOut' = TRUE
    /\ Overtaken
    /\ UNCHANGED <<isDestroyed, call, logins>>

Destroy ==
    /\ isDestroyed' = TRUE
    /\ tokens' = None /\ refreshPromise' = None /\ timer' = FALSE
    /\ loggedOut' = TRUE
    /\ Overtaken
    /\ UNCHANGED <<call, logins>>

Init ==
    /\ tokens = None /\ refreshPromise = None /\ timer = FALSE /\ isDestroyed = FALSE
    /\ call = [c \in Calls |-> Idle]
    /\ logins = 0 /\ loggedOut = TRUE /\ overtaken = FALSE

Answer(c) == Failed(c) \/ \E brings \in BOOLEAN : Answered(c, brings)

Next ==
    \/ SetTokens \/ Expire \/ TimerFires \/ ClearTokens \/ Destroy
    \/ \E c \in Calls : ForceRefresh(c) \/ GetValidToken(c) \/ Answer(c)

Spec == Init /\ [][Next]_vars

\* fetch always settles.
FairSpec == Spec /\ \A c \in Calls : WF_vars(Answer(c))

-----------------------------------------------------------------------------
TypeOK ==
    /\ tokens \in Tokens \cup {None}
    /\ refreshPromise \in Calls \cup {None}
    /\ timer \in BOOLEAN /\ isDestroyed \in BOOLEAN
    /\ call \in [Calls -> Call]
    /\ logins \in 0 .. MaxLogins
    /\ loggedOut \in BOOLEAN /\ overtaken \in BOOLEAN

\* Nothing is scheduled without tokens to refresh, nor after destroy, even by
\* an answer or a login that comes after it.
TimerHasTokens == timer => tokens # None /\ ~isDestroyed

\* Unless tokens were set or cleared under a refresh, there is one request at
\* a time, everybody waits for it, the tokens are of the last login, and a
\* logout lasts until the next one.
OneRefreshAtATime ==
    ~overtaken =>
        /\ \A c \in Calls : call[c].pc = "refresh" <=> refreshPromise = c
        /\ \A c \in Calls : call[c].pc = "wait" => call[c].on = refreshPromise
        /\ tokens # None => tokens.access = logins /\ tokens.refresh = logins
        /\ loggedOut => tokens = None

\* Whoever waits, waits for a request that is on its way, even when tokens were
\* set or cleared and other requests begun since: the finally block that resets
\* the shared promise strands nobody who holds an older one (refreshToken).
WaitsForARequest ==
    \A c \in Calls :
        call[c].pc = "wait" => call[c].on \in Calls /\ call[call[c].on].pc = "refresh"

\* A caller is never left waiting, whatever is cleared or set meanwhile.
CallersReturn == \A c \in Calls : (call[c].pc # "idle") ~> (call[c].pc = "idle")
============================================================================
