------------------------ MODULE TokenManagerProofs -------------------------
(***************************************************************************)
(* Proofs about the token holder.  The inductive invariant adds to the      *)
(* properties of TokenManager that whoever waits, waits for a call, that a  *)
(* refresh is made for a login, and, undisturbed, for the last one.         *)
(***************************************************************************)
EXTENDS TokenManager, TLAPS

WaitsForACall == \A c \in Calls : call[c].pc = "wait" => call[c].on \in Calls

RefreshHasLogin == \A c \in Calls : call[c].pc = "refresh" => call[c].of \in Logins

OwnLogin ==
    ~overtaken =>
        \A c \in Calls : call[c].pc = "refresh" => call[c].of = logins /\ ~loggedOut

IInv ==
    /\ TypeOK /\ TimerHasTokens /\ OneRefreshAtATime
    /\ WaitsForACall /\ RefreshHasLogin /\ OwnLogin

LEMMA NoneIsNoToken == None \notin Tokens
  BY NoneAssumption DEF Tokens, Logins

\* Whatever settles, everybody who waited for it leaves.
LEMMA SettleLeaves ==
    ASSUME NEW c \in Calls, TypeOK, Settle(c)
    PROVE  /\ refreshPromise' = None
           /\ call' \in [Calls -> Call]
           /\ \A d \in Calls : call'[d] = call[d] \/ call'[d] = Idle
           /\ call'[c] = Idle
           /\ \A d \in Calls : call[d].on = c => call'[d] = Idle
  <1>1. Idle \in Call
    BY LoginAssumption DEF Idle, Call
  <1>2. call' \in [Calls -> Call]
    BY <1>1 DEF Settle, TypeOK
  <1>3. \A d \in Calls : call'[d] = IF d = c \/ call[d].on = c THEN Idle ELSE call[d]
    BY DEF Settle
  <1> QED BY <1>2, <1>3 DEF Settle

LEMMA InitInvariant == Init => IInv
  <1> SUFFICES ASSUME Init PROVE IInv
    OBVIOUS
  <1>1. Idle \in Call
    BY LoginAssumption DEF Idle, Call
  <1>2. TypeOK /\ TimerHasTokens
    <2>1. [c \in Calls |-> Idle] \in [Calls -> Call]
      BY <1>1
    <2>2. 0 \in 0 .. MaxLogins
      BY LoginAssumption
    <2> QED BY <2>1, <2>2 DEF Init, TypeOK, TimerHasTokens
  <1>3. \A c \in Calls : call[c].pc = "idle"
    BY DEF Init, Idle
  <1>4. WaitsForACall /\ RefreshHasLogin /\ OwnLogin /\ OneRefreshAtATime
    BY <1>3, NoneAssumption DEF Init, WaitsForACall, RefreshHasLogin, OwnLogin, OneRefreshAtATime
  <1> QED BY <1>2, <1>4 DEF IInv

LEMMA SetTokensKeeps == IInv /\ SetTokens => IInv'
  <1> SUFFICES ASSUME IInv, SetTokens PROVE IInv'
    OBVIOUS
  <1> USE LoginAssumption, NoneAssumption
  <1>0. tokens' \in Tokens /\ tokens' # None /\ logins' \in 0 .. MaxLogins
    <2>1. logins + 1 \in Logins
      BY DEF IInv, TypeOK, SetTokens, Logins
    <2>2. tokens' \in Tokens
      BY <2>1 DEF SetTokens, Tokens
    <2>3. logins' \in 0 .. MaxLogins
      BY <2>1 DEF SetTokens, Logins
    <2> QED BY <2>2, <2>3, NoneIsNoToken
  <1>1. TypeOK' /\ TimerHasTokens'
    BY <1>0 DEF IInv, TypeOK, SetTokens, ScheduleRefresh, Overtaken, TimerHasTokens
  <1>2. WaitsForACall' /\ RefreshHasLogin' /\ OwnLogin'
    BY DEF IInv, TypeOK, SetTokens, Overtaken, WaitsForACall, RefreshHasLogin, OwnLogin, Refreshing
  <1>3. OneRefreshAtATime'
    BY DEF IInv, TypeOK, SetTokens, Overtaken, OneRefreshAtATime, Refreshing
  <1> QED BY <1>1, <1>2, <1>3 DEF IInv

LEMMA RefreshKeeps ==
    ASSUME NEW c \in Calls, IInv, Refresh(c), timer' \in BOOLEAN, timer' => timer
    PROVE  IInv'
  <1> USE LoginAssumption, NoneAssumption
  <1>1. TypeOK' /\ TimerHasTokens'
    BY DEF IInv, TypeOK, Refresh, Tokens, Logins, Call, TimerHasTokens
  <1>2. WaitsForACall' /\ RefreshHasLogin'
    BY DEF IInv, TypeOK, Refresh, WaitsForACall, RefreshHasLogin, Tokens
  <1>3. OwnLogin'
    BY DEF IInv, TypeOK, Refresh, OwnLogin, OneRefreshAtATime
  <1>4. OneRefreshAtATime'
    BY DEF IInv, TypeOK, Refresh, WaitsForACall, OneRefreshAtATime
  <1> QED BY <1>1, <1>2, <1>3, <1>4 DEF IInv

LEMMA AnsweredKeeps ==
    ASSUME NEW c \in Calls, NEW brings \in BOOLEAN, IInv, Answered(c, brings)
    PROVE  IInv'
  <1> USE LoginAssumption, NoneAssumption
  <1>1. Settle(c) /\ call[c].pc = "refresh"
    BY DEF Answered
  <1>2. /\ refreshPromise' = None
        /\ call' \in [Calls -> Call]
        /\ \A d \in Calls : call'[d] = call[d] \/ call'[d] = Idle
        /\ call'[c] = Idle
        /\ \A d \in Calls : call[d].on = c => call'[d] = Idle
    BY <1>1, SettleLeaves DEF IInv
  <1>7. call[c].of \in Logins
    BY <1>1 DEF IInv, RefreshHasLogin
  <1>8. tokens' \in Tokens /\ tokens' # None
    <2>1. tokens # None => tokens.refresh \in Logins
      BY DEF IInv, TypeOK, Tokens
    <2>2. tokens' \in Tokens
      BY <1>7, <2>1 DEF Answered, Tokens
    <2> QED BY <2>2, NoneIsNoToken
  <1>3. TypeOK' /\ TimerHasTokens'
    BY <1>2, <1>8 DEF IInv, TypeOK, Answered, ScheduleRefresh, TimerHasTokens
  <1>4. WaitsForACall' /\ RefreshHasLogin' /\ OwnLogin'
    BY <1>2 DEF IInv, Answered, WaitsForACall, RefreshHasLogin, OwnLogin, Idle
  <1>5. OneRefreshAtATime'
    BY <1>1, <1>2 DEF IInv, Answered, OwnLogin, OneRefreshAtATime, Idle
  <1> QED BY <1>3, <1>4, <1>5 DEF IInv

LEMMA FailedKeeps == ASSUME NEW c \in Calls, IInv, Failed(c) PROVE IInv'
  <1> USE NoneAssumption
  <1>1. Settle(c) /\ call[c].pc = "refresh"
    BY DEF Failed
  <1>2. /\ refreshPromise' = None
        /\ call' \in [Calls -> Call]
        /\ \A d \in Calls : call'[d] = call[d] \/ call'[d] = Idle
        /\ call'[c] = Idle
        /\ \A d \in Calls : call[d].on = c => call'[d] = Idle
    BY <1>1, SettleLeaves DEF IInv
  <1>3. TypeOK' /\ TimerHasTokens'
    BY <1>2 DEF IInv, TypeOK, Failed, TimerHasTokens
  <1>4. WaitsForACall' /\ RefreshHasLogin' /\ OwnLogin'
    BY <1>2 DEF IInv, Failed, WaitsForACall, RefreshHasLogin, OwnLogin, Idle
  <1>5. OneRefreshAtATime'
    BY <1>1, <1>2 DEF IInv, Failed, OneRefreshAtATime, Idle
  <1> QED BY <1>3, <1>4, <1>5 DEF IInv

\* Logging out and destroying the manager forget the same three things.
LEMMA ClearKeeps ==
    ASSUME IInv,
           tokens' = None, refreshPromise' = None, timer' = FALSE, loggedOut' = TRUE,
           isDestroyed' \in BOOLEAN, Overtaken, UNCHANGED <<call, logins>>
    PROVE  IInv'
  <1> USE NoneAssumption
  <1>1. TypeOK' /\ TimerHasTokens'
    BY DEF IInv, TypeOK, Overtaken, TimerHasTokens
  <1>2. WaitsForACall' /\ RefreshHasLogin' /\ OwnLogin'
    BY DEF IInv, TypeOK, Overtaken, Refreshing, WaitsForACall, RefreshHasLogin, OwnLogin
  <1>3. OneRefreshAtATime'
    BY DEF IInv, TypeOK, Overtaken, WaitsForACall, OneRefreshAtATime, Refreshing
  <1> QED BY <1>1, <1>2, <1>3 DEF IInv

LEMMA StepInvariant == IInv /\ [Next]_vars => IInv'
  <1> SUFFICES ASSUME IInv, [Next]_vars PROVE IInv'
    OBVIOUS
  <1>1. CASE SetTokens
    BY <1>1, SetTokensKeeps
  <1>2. CASE Expire
    <2>1. /\ tokens' \in Tokens /\ tokens' # None
          /\ tokens'.access = tokens.access /\ tokens'.refresh = tokens.refresh
      BY <1>2, NoneAssumption DEF Expire, IInv, TypeOK, Tokens, Logins
    <2> QED
      BY <1>2, <2>1
      DEF Expire, IInv, TypeOK, TimerHasTokens, WaitsForACall, RefreshHasLogin, OwnLogin,
          OneRefreshAtATime
  <1>3. CASE TimerFires
    BY <1>3, RefreshKeeps DEF TimerFires
  <1>4. CASE ClearTokens
    BY <1>4, ClearKeeps DEF ClearTokens, IInv, TypeOK
  <1>5. CASE Destroy
    BY <1>5, ClearKeeps DEF Destroy
  <1>6. ASSUME NEW c \in Calls, ForceRefresh(c) \/ GetValidToken(c)
        PROVE  IInv'
    BY <1>6, RefreshKeeps DEF ForceRefresh, GetValidToken, IInv, TypeOK
  <1>7. ASSUME NEW c \in Calls, Answer(c) PROVE IInv'
    BY <1>7, AnsweredKeeps, FailedKeeps DEF Answer
  <1>8. CASE UNCHANGED vars
    BY <1>8 DEF vars, IInv, TypeOK, TimerHasTokens, WaitsForACall, RefreshHasLogin, OwnLogin,
               OneRefreshAtATime
  <1> QED BY <1>1, <1>2, <1>3, <1>4, <1>5, <1>6, <1>7, <1>8 DEF Next

\* The conjunction the three theorems below project.
THEOREM TokenInvariant == Spec => []IInv
  BY InitInvariant, StepInvariant, PTL DEF Spec

\* Every state of the manager has the declared types.
THEOREM TokenTypeCorrect == Spec => []TypeOK
  BY TokenInvariant, PTL DEF IInv

\* The refresh timer never runs without tokens, nor after destroy
\* (scheduleRefresh, clearTokens, destroy).
THEOREM TimerNeedsTokens == Spec => []TimerHasTokens
  BY TokenInvariant, PTL DEF IInv

\* As long as no setTokens or clearTokens came under a refresh, any number of
\* callers share one request and the tokens are of the last login
\* (refreshToken's refreshPromise).
THEOREM SharedRefresh == Spec => []OneRefreshAtATime
  BY TokenInvariant, PTL DEF IInv

(***************************************************************************)
(* Nobody waits for a promise that is settled.  Tokens may be set and       *)
(* cleared at any time, so OneRefreshAtATime is of no help here: what is    *)
(* invariant is that the promise new callers share is one of a request.     *)
(***************************************************************************)
PromiseIsARequest == refreshPromise # None => call[refreshPromise].pc = "refresh"

OwnersDoNotWait == \A c \in Calls : call[c].pc = "refresh" => call[c].on = None

Shared == PromiseIsARequest /\ OwnersDoNotWait /\ WaitsForARequest
Waiting == IInv /\ Shared

LEMMA RefreshKeepsWaiting ==
    ASSUME NEW c \in Calls, Waiting, Refresh(c)
    PROVE  Shared'
  <1>1. CASE refreshPromise # None
    BY <1>1 DEF Waiting, IInv, TypeOK, Refresh, Shared, PromiseIsARequest, OwnersDoNotWait, WaitsForARequest
  <1>2. CASE refreshPromise = None
    BY <1>2, NoneAssumption
    DEF Waiting, IInv, TypeOK, Refresh, Shared, PromiseIsARequest, OwnersDoNotWait, WaitsForARequest
  <1> QED BY <1>1, <1>2

\* The owner of the promise and everybody who waits for it leave together, so
\* the promise that remains for the others is another request's.
LEMMA SettleKeepsWaiting ==
    ASSUME NEW c \in Calls, Waiting, Settle(c)
    PROVE  Shared'
  <1>1. /\ refreshPromise' = None
        /\ \A d \in Calls : call'[d] = call[d] \/ call'[d] = Idle
        /\ \A d \in Calls : call[d].on = c => call'[d] = Idle
    BY SettleLeaves DEF Waiting, IInv
  <1>2. \A d \in Calls : d # c /\ call[d].pc = "refresh" => call'[d] = call[d]
    BY NoneAssumption DEF Settle, Waiting, Shared, OwnersDoNotWait
  <1>4. OwnersDoNotWait'
    BY <1>1 DEF Waiting, Shared, OwnersDoNotWait, Idle
  <1>3. ASSUME NEW d \in Calls, call'[d].pc = "wait"
        PROVE  call'[d].on \in Calls /\ call'[call'[d].on].pc = "refresh"
    <2>1. call'[d] = call[d] /\ call[d].on # c
      BY <1>1, <1>3 DEF Idle
    <2>2. call[d].on \in Calls /\ call[call[d].on].pc = "refresh"
      BY <1>3, <2>1 DEF Waiting, Shared, WaitsForARequest
    <2> QED BY <1>2, <2>1, <2>2
  <1> QED BY <1>1, <1>3, <1>4 DEF Shared, PromiseIsARequest, WaitsForARequest

LEMMA WaitingStep == Waiting /\ [Next]_vars => Shared'
  <1> SUFFICES ASSUME Waiting, [Next]_vars PROVE Shared'
    OBVIOUS
  <1>1. CASE SetTokens \/ Expire \/ UNCHANGED vars
    BY <1>1 DEF SetTokens, Expire, vars, Waiting, Shared, PromiseIsARequest, OwnersDoNotWait, WaitsForARequest
  <1>2. CASE ClearTokens \/ Destroy
    BY <1>2 DEF ClearTokens, Destroy, Waiting, Shared, PromiseIsARequest, OwnersDoNotWait, WaitsForARequest
  <1>3. CASE TimerFires
    BY <1>3, RefreshKeepsWaiting DEF TimerFires
  <1>4. ASSUME NEW c \in Calls, ForceRefresh(c) \/ GetValidToken(c)
        PROVE  Shared'
    BY <1>4, RefreshKeepsWaiting DEF ForceRefresh, GetValidToken
  <1>5. ASSUME NEW c \in Calls, Answer(c)
        PROVE  Shared'
    BY <1>5, SettleKeepsWaiting DEF Answer, Answered, Failed
  <1> QED BY <1>1, <1>2, <1>3, <1>4, <1>5 DEF Next

\* For any number of callers, logins and requests that were overtaken: whoever
\* waits for a shared refresh waits for a request whose answer will release it
\* (refreshToken's finally block).
THEOREM WaitersHaveARequest == Spec => []WaitsForARequest
  <1>1. Init => Shared
    BY DEF Init, Idle, Shared, PromiseIsARequest, OwnersDoNotWait, WaitsForARequest
  <1>2. Init => Waiting
    BY <1>1, InitInvariant DEF Waiting
  <1>3. Waiting /\ [Next]_vars => Waiting'
    BY StepInvariant, WaitingStep DEF Waiting
  <1> QED BY <1>2, <1>3, PTL DEF Spec, Waiting, Shared
============================================================================
